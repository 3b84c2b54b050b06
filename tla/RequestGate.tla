----------------------------- MODULE RequestGate -----------------------------
(***************************************************************************)
(* What stands between a client and a leg of the graph (src/server): the   *)
(* session token with its expiry, the validation of the body, and the      *)
(* idempotency cache with its time-to-live and its size; and the status    *)
(* each way out is answered with.  One clock counts seconds for all.       *)
(*                                                                         *)
(* Which session a turn is about, how its key is made and what the leg     *)
(* does to the store is TurnServer's matter.                               *)
(***************************************************************************)
EXTENDS SessionToken, FiniteSets

CONSTANTS Requests,   \* slots for requests in flight
          Keys,       \* keys of the cache, from a header or derived
          Service, OtherService,
          Secret, OtherSecret,
          Sessions,   \* values of --session-id: UUIDs, or thread_ids, which are none
          Lifetimes,  \* of tokens
          CacheTtl, MaxSize,   \* of the TTLCache
          MaxTime,    \* bound: the clock stops here
          Never       \* stands for no time

ASSUME GateAssumption ==
    /\ Lifetimes \subseteq Nat
    /\ CacheTtl \in Nat /\ MaxSize \in Nat \ {0} /\ MaxTime \in Nat
    /\ Never \notin Nat
    /\ Service # OtherService /\ Secret # OtherSecret

VARIABLES now,       \* the clock
          entries,   \* the TTLCache: when each cached key expires
          order,     \* of use: <<j, k>> if j is cached and was used before k
          req,       \* the requests in flight
          status,    \* the status of the last response
          answered,  \* history: when a reply was last cached under a key
          since      \* history: the other keys used since a key was used last

vars == <<now, entries, order, req, status, answered, since>>

Idle == [pc |-> "idle", key |-> Never]

Init ==
    /\ now = 0
    /\ entries = <<>>   \* no key
    /\ order = {}
    /\ req = [r \in Requests |-> Idle]
    /\ status = 0
    /\ answered = [k \in Keys |-> Never]
    /\ since = [k \in Keys |-> {}]

-----------------------------------------------------------------------------
(* cachetools.TTLCache. *)

Live == {k \in DOMAIN entries : now < entries[k]}
Hit(k) == k \in Live

\* The order among the keys of ks, with k, used last, at the end.
Ordered(ks, k) == (order \cap ((ks \ {k}) \X (ks \ {k}))) \cup ((ks \ {k}) \X {k})

\* Mutant: a read leaves the entry where it is.
MutGet(k) == UNCHANGED <<entries, order>>

\* get moves a live entry to the end.
Get(k) == entries' = entries /\ order' = Ordered(DOMAIN entries, k)

\* The least recently used of ks.
Oldest(ks) == CHOOSE k \in ks : \A j \in ks \ {k} : <<k, j>> \in order

\* Setting drops what has expired, then makes room for a key that is not there.
Set(k) ==
    LET kept == Live \ {k}
        room == IF Cardinality(kept) = MaxSize THEN kept \ {Oldest(kept)} ELSE kept
    IN /\ entries' = [j \in room \cup {k} |-> IF j = k THEN now + CacheTtl ELSE entries[j]]
       /\ order' = Ordered(room \cup {k}, k)

Used(k) == since' = [j \in Keys |-> IF j = k THEN {} ELSE since[j] \cup {k}]

-----------------------------------------------------------------------------
(* Tokens: the gateway and scripts/mint_token.py issue them at any time. *)

Issues == [by : {"gateway", "script"}, service : {Service, OtherService}, session : Sessions,
           at : 0 .. now, ttl : Lifetimes]

\* The script refuses a lifetime that is not positive.
Issued == {i \in Issues : i.by = "script" => i.ttl > 0}

HeaderOf(i) ==
    IF i.by = "script" THEN mint_session_token(Secret, i.service, i.session, i.at + i.ttl)
    ELSE GatewayToken(Secret, i.service, i.session, i.at + i.ttl, i.session, i.at)

\* Headers no minter makes, or makes for this server.
ForeignHeaders ==
    LET p == [service_id |-> Service, session_id |-> Never, exp |-> MaxTime]
        s == B64UrlEncode(Hmac(Secret, p))
    IN {NoHeader,
        [scheme |-> "Basic", parts |-> <<>>],
        Bearer(<<"v1", B64UrlEncode(p)>>),
        Bearer(<<"v2", B64UrlEncode(p), s>>),
        Bearer(<<"v1", Undecodable, s>>),
        Signed(OtherSecret, p),
        Signed(Secret, Undecodable),
        Signed(Secret, [p EXCEPT !.exp = Garbage]),
        Signed(Secret, [service_id |-> Service])}

Headers == {HeaderOf(i) : i \in Issued} \cup ForeignHeaders

-----------------------------------------------------------------------------
(* The way in. *)

\* FastAPI parses the JSON of a body first, then asks the dependency, and validates
\* the fields of the body last.
Bodies == {"not_json", "bad_fields", "good"}

Admission(h, body) ==
    LET verdict == verify_session_token(h, Service, now, Secret)
    IN IF body = "not_json" THEN 422
       ELSE IF verdict # "ok" THEN HttpStatus(verdict)
       ELSE IF body = "bad_fields" THEN 422
       ELSE 200

\* What the requests that can be sent now are told at the gate.
Codes == {Admission(h, body) : h \in Headers, body \in Bodies}

Answer(code) == status' = code

Refuse ==
    /\ \E code \in Codes \ {200} : Answer(code)
    /\ UNCHANGED <<now, entries, order, req, answered, since>>

\* POST /turn.
Turn(r, k) ==
    /\ req[r] = Idle
    /\ 200 \in Codes
    /\ req' = [req EXCEPT ![r] = [pc |-> "session", key |-> k]]
    /\ UNCHANGED <<now, entries, order, status, answered, since>>

\* POST /done: a failing deletion is swallowed, a failing read is not.
Done ==
    /\ 200 \in Codes
    /\ Answer(200) \/ Answer(500)
    /\ UNCHANGED <<now, entries, order, req, answered, since>>

\* GET /healthz, /readyz and /metrics ask for no token; only /readyz, whose database
\* or gateway may fail, says anything but 200.
Probe ==
    /\ Answer(200) \/ Answer(503)
    /\ UNCHANGED <<now, entries, order, req, answered, since>>

-----------------------------------------------------------------------------
(* The turn. *)

Leave(r) == req' = [req EXCEPT ![r] = Idle]

\* The session that was named has no checkpoint.
NotFound(r) ==
    /\ req[r].pc = "session"
    /\ Answer(404) /\ Leave(r)
    /\ UNCHANGED <<now, entries, order, answered, since>>

Replay(r) ==
    /\ req[r].pc = "session"
    /\ Hit(req[r].key)
    /\ Get(req[r].key)
    /\ Used(req[r].key)
    /\ Answer(200) /\ Leave(r)
    /\ UNCHANGED <<now, answered>>

Run(r) ==
    /\ req[r].pc = "session"
    /\ ~Hit(req[r].key)
    /\ req' = [req EXCEPT ![r].pc = "run"]
    /\ UNCHANGED <<now, entries, order, status, answered, since>>

Reply(r) ==
    /\ req[r].pc = "run"
    /\ Set(req[r].key)
    /\ answered' = [answered EXCEPT ![req[r].key] = now]
    /\ Used(req[r].key)
    /\ Answer(200) /\ Leave(r)
    /\ UNCHANGED now

\* wait_for gives up, or a node raises what no handler is registered for: nothing is
\* cached.
Fail(r) ==
    /\ req[r].pc = "run"
    /\ Answer(408) \/ Answer(500)
    /\ Leave(r)
    /\ UNCHANGED <<now, entries, order, answered, since>>

-----------------------------------------------------------------------------

Tick ==
    /\ now < MaxTime
    /\ now' = now + 1
    /\ UNCHANGED <<entries, order, req, status, answered, since>>

\* The cache lives in the process.
Restart ==
    /\ entries' = <<>> /\ order' = {}
    /\ req' = [r \in Requests |-> Idle]
    /\ answered' = [k \in Keys |-> Never]
    /\ Answer(0)
    /\ UNCHANGED <<now, since>>

Next ==
    \/ Refuse \/ Done \/ Probe
    \/ \E r \in Requests, k \in Keys : Turn(r, k)
    \/ \E r \in Requests : NotFound(r) \/ Replay(r) \/ Run(r) \/ Reply(r) \/ Fail(r)
    \/ Tick \/ Restart

Spec == Init /\ [][Next]_vars

-----------------------------------------------------------------------------
(* Properties. *)

\* Every variable keeps its type; the cache holds MaxSize keys at most, and knows of any
\* two which was used last.
TypeOK ==
    /\ now \in 0 .. MaxTime
    /\ entries \in [DOMAIN entries -> Nat] /\ DOMAIN entries \subseteq Keys
    /\ Cardinality(DOMAIN entries) <= MaxSize
    /\ order \subseteq (DOMAIN entries) \X (DOMAIN entries)
    /\ \A j, k \in DOMAIN entries : j # k => (<<j, k>> \in order <=> <<k, j>> \notin order)
    /\ req \in [Requests -> [pc : {"session", "run"}, key : Keys] \cup {Idle}]
    /\ status \in {0, 200, 401, 403, 404, 408, 422, 500, 503}
    /\ answered \in [Keys -> Nat \cup {Never}]
    /\ since \in [Keys -> SUBSET Keys]

\* A reply was cached under the key within the time-to-live, and fewer than MaxSize
\* other keys were answered or replayed since the key was.
Promised(k) ==
    /\ answered[k] # Never
    /\ now < answered[k] + CacheTtl
    /\ Cardinality(since[k]) < MaxSize

\* A retry of an answered turn is not run again, whatever other turns were answered,
\* replayed, lost or answered late meanwhile, unless its key has expired or MaxSize
\* other keys displaced it; and nothing older than the time-to-live is replayed.
RetryIsServed ==
    [][\A r \in Requests :
          /\ req'[r].pc = "run" /\ req[r].pc # "run" => ~Promised(req[r].key)
          /\ req[r].pc = "session" /\ req'[r] = Idle /\ status' = 200 =>
                 answered[req[r].key] # Never /\ now < answered[req[r].key] + CacheTtl]_vars

\* A token for this service and a UUID opens the gate in every second until its
\* expiry and in none from it on, whichever of the two minters made it.
TokenLivesToItsExpiry ==
    \A i \in Issued :
        (Admission(HeaderOf(i), "good") = 200) =
            (i.service = Service /\ i.session \in Uuids /\ now < i.at + i.ttl)

=============================================================================
