---------------------------- MODULE SessionToken ----------------------------
(***************************************************************************)
(* Session tokens (src/server/auth.py): how a header is minted and what    *)
(* verify_session_token says of one.                                       *)
(*                                                                         *)
(* Bytes are what they decode to: a signature is the secret and the bytes  *)
(* it was made from, and an encoded part holds its bytes.  The bytes of a  *)
(* payload map names of claims to values.                                  *)
(***************************************************************************)
EXTENDS Integers, Sequences

CONSTANTS Uuids,      \* session_ids that have the form of a UUID-v4
          Garbage     \* what does not convert to an integer

ASSUME TokenAssumption == Garbage \notin Int

Hmac(secret, bytes) == [key |-> secret, over |-> bytes]
B64UrlEncode(bytes) == [b64 |-> bytes]
Undecodable == [text |-> Garbage]   \* what is no base64, or no JSON
NoHeader == [scheme |-> "none", parts |-> <<>>]
Bearer(parts) == [scheme |-> "Bearer", parts |-> parts]

Signed(secret, payload) ==
    Bearer(<<"v1", B64UrlEncode(payload), B64UrlEncode(Hmac(secret, payload))>>)

mint_session_token(secret, service_id, session_id, exp) ==
    Signed(secret, [service_id |-> service_id, session_id |-> session_id, exp |-> exp])

\* The tokens of the gateway carry two claims more.
GatewayToken(secret, service_id, session_id, exp, user_id, iat) ==
    Signed(secret, [service_id |-> service_id, session_id |-> session_id, exp |-> exp,
                    user_id |-> user_id, iat |-> iat])

-----------------------------------------------------------------------------

HasThreeParts(h) == h.scheme = "Bearer" /\ Len(h.parts) = 3
Decodes(h) == Undecodable \notin {h.parts[2], h.parts[3]}
Payload(h) == h.parts[2].b64

\* user_id and iat are dropped before anything else is read.
Reduced(raw) == [c \in DOMAIN raw \ {"user_id", "iat"} |-> raw[c]]

HasClaims(raw) ==
    /\ {"service_id", "session_id", "exp"} \subseteq DOMAIN Reduced(raw)
    /\ raw.exp # Garbage

\* Mutant: a token is still good in the second it expires.
MutClaimsVerdict(claims, service_id, now) ==
    IF claims.service_id # service_id THEN "wrong_service"
    ELSE IF claims.session_id \notin Uuids THEN "missing_session"
    ELSE IF claims.exp < now THEN "expired"
    ELSE "ok"

\* The claims that are asked for, in the order in which they are.
ClaimsVerdict(claims, service_id, now) ==
    IF claims.service_id # service_id THEN "wrong_service"
    ELSE IF claims.session_id \notin Uuids THEN "missing_session"
    ELSE IF claims.exp <= now THEN "expired"
    ELSE "ok"

\* The reason of the AuthError, or "ok".
verify_session_token(h, service_id, now, secret) ==
    IF ~HasThreeParts(h) THEN "malformed"
    ELSE IF h.parts[1] # "v1" THEN "bad_version"
    ELSE IF ~Decodes(h) THEN "malformed"
    ELSE IF h.parts[3].b64 # Hmac(secret, Payload(h)) THEN "bad_signature"
    ELSE IF ~HasClaims(Payload(h)) THEN "malformed"
    ELSE ClaimsVerdict(Reduced(Payload(h)), service_id, now)

\* Mutant: another status for a token that is refused.
MutHttpStatus(reason) == IF reason = "wrong_service" THEN 403 ELSE 400

\* require_service: only a token for another service is forbidden.
HttpStatus(reason) == IF reason = "wrong_service" THEN 403 ELSE 401

=============================================================================
