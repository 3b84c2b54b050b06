-------------------------- MODULE RequestGateProofs --------------------------
(***************************************************************************)
(* TLAPS proofs about RequestGate: the life of a token, and the promise    *)
(* the TTLCache makes to the retry of an answered turn.                    *)
(***************************************************************************)
EXTENDS RequestGate, FiniteSetTheorems, TLAPS

-----------------------------------------------------------------------------
(* Tokens. *)

LEMMA ExpiryIsNat ==
    ASSUME NEW i \in Issued, now \in Nat
    PROVE  i.at + i.ttl \in Nat
  <1>1. i \in Issues
    BY DEF Issued
  <1>2. i.at \in 0 .. now /\ i.ttl \in Lifetimes
    BY <1>1 DEF Issues
  <1>3. i.at \in Nat
    BY <1>2
  <1>4. i.ttl \in Nat
    BY <1>2, GateAssumption
  <1>5. QED
    BY <1>3, <1>4

\* Both minters sign what verify_session_token asks for: the verdict is on the claims.
LEMMA VerdictOnClaims ==
    ASSUME NEW i \in Issued, now \in Nat
    PROVE  LET claims == [service_id |-> i.service, session_id |-> i.session, exp |-> i.at + i.ttl]
           IN verify_session_token(HeaderOf(i), Service, now, Secret) =
                  ClaimsVerdict(claims, Service, now)
  <1> DEFINE claims == [service_id |-> i.service, session_id |-> i.session, exp |-> i.at + i.ttl]
  <1>1. i.at + i.ttl \in Nat
    BY ExpiryIsNat
  <1>2. PICK p : /\ HeaderOf(i) = Signed(Secret, p)
                 /\ Reduced(p) = claims
                 /\ {"service_id", "session_id", "exp"} \subseteq DOMAIN Reduced(p)
                 /\ p.exp = i.at + i.ttl
    <2>1. CASE i.by = "script"
      <3>1. HeaderOf(i) = Signed(Secret, claims)
        BY <2>1 DEF HeaderOf, mint_session_token
      <3>2. Reduced(claims) = claims
        BY DEF Reduced
      <3>3. QED
        BY <3>1, <3>2
    <2>2. CASE i.by # "script"
      <3> DEFINE p == [service_id |-> i.service, session_id |-> i.session, exp |-> i.at + i.ttl,
                       user_id |-> i.session, iat |-> i.at]
      <3>1. HeaderOf(i) = Signed(Secret, p)
        BY <2>2 DEF HeaderOf, GatewayToken
      <3>2. DOMAIN p \ {"user_id", "iat"} = {"service_id", "session_id", "exp"}
        OBVIOUS
      <3>3. Reduced(p) = claims
        BY <3>2 DEF Reduced
      <3>4. QED
        BY <3>1, <3>3
    <2>3. QED
      BY <2>1, <2>2
  <1>3. HasClaims(p)
    BY <1>1, <1>2, TokenAssumption DEF HasClaims
  <1>4. verify_session_token(Signed(Secret, p), Service, now, Secret) =
            ClaimsVerdict(Reduced(p), Service, now)
    <2> DEFINE h == Signed(Secret, p)
    <2>1. /\ h.scheme = "Bearer" /\ Len(h.parts) = 3 /\ h.parts[1] = "v1"
          /\ h.parts[2] = B64UrlEncode(p) /\ h.parts[3] = B64UrlEncode(Hmac(Secret, p))
      BY DEF Signed, Bearer
    <2>2. \A b : B64UrlEncode(b) # Undecodable /\ B64UrlEncode(b).b64 = b
      BY DEF B64UrlEncode, Undecodable
    <2>3. HasThreeParts(h) /\ Decodes(h) /\ Payload(h) = p
      BY <2>1, <2>2 DEF HasThreeParts, Decodes, Payload
    <2> HIDE DEF h
    <2>4. QED
      BY <1>3, <2>1, <2>2, <2>3 DEF verify_session_token, h
  <1>5. QED
    BY <1>2, <1>4

\* A token opens the gate in every second of its life and in no other, whoever minted it,
\* for any lifetime.
LEMMA GateIsOpen ==
    ASSUME now \in Nat
    PROVE  TokenLivesToItsExpiry
  <1> SUFFICES ASSUME NEW i \in Issued
               PROVE  (Admission(HeaderOf(i), "good") = 200) =
                          (i.service = Service /\ i.session \in Uuids /\ now < i.at + i.ttl)
    BY DEF TokenLivesToItsExpiry
  <1> DEFINE claims == [service_id |-> i.service, session_id |-> i.session, exp |-> i.at + i.ttl]
             verdict == verify_session_token(HeaderOf(i), Service, now, Secret)
  <1>1. verdict = ClaimsVerdict(claims, Service, now)
    BY VerdictOnClaims
  <1>2. (Admission(HeaderOf(i), "good") = 200) = (verdict = "ok")
    BY DEF Admission, HttpStatus
  <1>3. i.at + i.ttl \in Nat
    BY ExpiryIsNat
  <1>4. (ClaimsVerdict(claims, Service, now) = "ok") =
            (i.service = Service /\ i.session \in Uuids /\ now < i.at + i.ttl)
    BY <1>3 DEF ClaimsVerdict
  <1>5. QED
    BY <1>1, <1>2, <1>4

LEMMA CodesType == Codes \subseteq {200, 401, 403, 422}
  BY DEF Codes, Admission, HttpStatus

-----------------------------------------------------------------------------
(* The inductive invariant of the cache. *)

\* Among any cached keys one was used least recently.
WellOrdered ==
    \A S \in SUBSET (DOMAIN entries) :
        S # {} => \E k \in S : \A j \in S \ {k} : <<k, j>> \in order

\* A cached reply expires a time-to-live after it was given.
CachedInv ==
    \A k \in DOMAIN entries : answered[k] # Never /\ entries[k] = answered[k] + CacheTtl

\* The keys used after a cached key are among those counted since its use.
SinceInv ==
    /\ \A k \in Keys : IsFiniteSet(since[k])
    /\ \A j, k \in Keys : <<j, k>> \in order => k \in since[j]

IInv ==
    /\ TypeOK
    /\ IsFiniteSet(DOMAIN entries)
    /\ WellOrdered /\ CachedInv /\ SinceInv
    /\ \A k \in Keys : Promised(k) => k \in DOMAIN entries

-----------------------------------------------------------------------------

LEMMA InvInit == Init => IInv
  <1> SUFFICES ASSUME Init PROVE IInv
    OBVIOUS
  <1>1. DOMAIN entries = {} /\ IsFiniteSet(DOMAIN entries) /\ Cardinality(DOMAIN entries) = 0
    BY FS_EmptySet DEF Init
  <1>2. TypeOK
    BY <1>1, GateAssumption DEF Init, TypeOK, Idle
  <1>3. WellOrdered /\ CachedInv /\ SinceInv
    BY <1>1, FS_EmptySet DEF Init, WellOrdered, CachedInv, SinceInv
  <1>4. \A k \in Keys : ~Promised(k)
    BY DEF Init, Promised
  <1>5. QED
    BY <1>1, <1>2, <1>3, <1>4 DEF IInv

\* When k is used and ks are the others that stay, the order remains one, and what is
\* behind a key in it has been used since.
LEMMA UseKey ==
    ASSUME IInv, NEW k \in Keys, NEW ks \in SUBSET (DOMAIN entries), k \notin ks,
           DOMAIN (entries') = ks \cup {k}, order' = Ordered(ks \cup {k}, k), Used(k)
    PROVE  /\ order' \subseteq (ks \cup {k}) \X (ks \cup {k})
           /\ \A i, j \in ks \cup {k} : i # j => (<<i, j>> \in order' <=> <<j, i>> \notin order')
           /\ WellOrdered' /\ SinceInv' /\ since' \in [Keys -> SUBSET Keys]
  <1>1. /\ ks \subseteq Keys
        /\ \A i, j \in ks : i # j => (<<i, j>> \in order <=> <<j, i>> \notin order)
    BY DEF IInv, TypeOK
  <1>2. order' = (order \cap (ks \X ks)) \cup (ks \X {k})
    <2>1. (ks \cup {k}) \ {k} = ks
      OBVIOUS
    <2>2. QED
      BY <2>1 DEF Ordered
  <1>3. order' \subseteq (ks \cup {k}) \X (ks \cup {k})
    BY <1>2
  <1>4. \A i, j \in ks \cup {k} : i # j => (<<i, j>> \in order' <=> <<j, i>> \notin order')
    BY <1>1, <1>2
  <1>5. ASSUME NEW S \in SUBSET (ks \cup {k}), S # {}
        PROVE  \E i \in S : \A j \in S \ {i} : <<i, j>> \in order'
    <2>1. CASE S \ {k} = {}
      BY <1>5, <2>1
    <2>2. CASE S \ {k} # {}
      <3>1. PICK i \in S \ {k} : \A j \in (S \ {k}) \ {i} : <<i, j>> \in order
        <4>1. S \ {k} \in SUBSET (DOMAIN entries)
          OBVIOUS
        <4>2. QED
          BY <2>2, <4>1 DEF IInv, WellOrdered
      <3>2. \A j \in S \ {i} : <<i, j>> \in order'
        BY <1>2, <3>1
      <3>3. QED
        BY <3>1, <3>2
    <2>3. QED
      BY <2>1, <2>2
  <1>6. /\ since' \in [Keys -> SUBSET Keys]
        /\ \A j \in Keys : since'[j] = IF j = k THEN {} ELSE since[j] \cup {k}
    BY DEF Used, IInv, TypeOK
  <1>7. ASSUME NEW j \in Keys PROVE IsFiniteSet(since'[j])
    <2>1. IsFiniteSet(since[j]) /\ IsFiniteSet(since[j] \cup {k})
      BY FS_AddElement DEF IInv, SinceInv
    <2>2. QED
      BY <1>6, <2>1, FS_EmptySet
  <1>8. \A i, j \in Keys : <<i, j>> \in order' => j \in since'[i]
    BY <1>2, <1>6 DEF IInv, SinceInv
  <1>9. WellOrdered' /\ SinceInv'
    BY <1>5, <1>7, <1>8 DEF WellOrdered, SinceInv
  <1>10. QED
    BY <1>3, <1>4, <1>6, <1>9

\* A key that was used and stays cached keeps its promise, and so do the others that
\* are still cached or behind MaxSize keys used since.
LEMMA KeepPromises ==
    ASSUME IInv, NEW k \in Keys, Used(k), now' = now,
           NEW E \in SUBSET Keys, k \in E, DOMAIN (entries') = E,
           \A j \in Keys \ {k} : answered'[j] = answered[j],
           \A j \in Live \ (E \cup {k}) : MaxSize <= Cardinality(since[j] \cup {k})
    PROVE  \A j \in Keys : Promised(j)' => j \in E
  <1> SUFFICES ASSUME NEW j \in Keys, Promised(j)', j \notin E PROVE FALSE
    OBVIOUS
  <1>1. since'[j] = since[j] \cup {k} /\ answered'[j] = answered[j]
    BY DEF Used
  <1>2. IsFiniteSet(since[j]) /\ IsFiniteSet(since[j] \cup {k})
    BY FS_AddElement DEF IInv, SinceInv
  <1>3. Cardinality(since[j]) <= Cardinality(since[j] \cup {k})
    BY <1>2, FS_Subset
  <1>4. Cardinality(since[j]) \in Nat /\ Cardinality(since[j] \cup {k}) \in Nat /\ MaxSize \in Nat
    BY <1>2, FS_CardinalityType, GateAssumption
  <1>5. /\ answered[j] # Never /\ now < answered[j] + CacheTtl
        /\ Cardinality(since[j] \cup {k}) < MaxSize
    BY <1>1 DEF Promised
  <1>6. Promised(j)
    BY <1>3, <1>4, <1>5 DEF Promised
  <1>7. j \in Live
    BY <1>5, <1>6 DEF IInv, CachedInv, Live
  <1>8. QED
    BY <1>4, <1>5, <1>7

\* A replay uses its key and changes nothing else of the cache.
LEMMA InvReplay ==
    ASSUME IInv, NEW r \in Requests, Replay(r)
    PROVE  IInv'
  <1> DEFINE k == req[r].key
             ks == (DOMAIN entries) \ {k}
  <1>1. req[r] \in [pc : {"session", "run"}, key : Keys] /\ k \in Keys
    BY DEF Replay, IInv, TypeOK, Idle
  <1>2. /\ entries' = entries /\ now' = now /\ answered' = answered /\ k \in Live
        /\ order' = Ordered(DOMAIN entries, k) /\ Used(k)
    BY DEF Replay, Get, Hit
  <1> HIDE DEF k
  <1>3. /\ k \in DOMAIN entries /\ ks \in SUBSET (DOMAIN entries) /\ k \notin ks
        /\ ks \cup {k} = DOMAIN entries /\ DOMAIN entries \in SUBSET Keys
    <2>1. k \in DOMAIN entries
      BY <1>2 DEF Live
    <2>2. DOMAIN entries \in SUBSET Keys
      BY DEF IInv, TypeOK
    <2>3. QED
      BY <2>1, <2>2
  <1> HIDE DEF ks
  <1>4. /\ order' \subseteq (ks \cup {k}) \X (ks \cup {k})
        /\ \A i, j \in ks \cup {k} : i # j => (<<i, j>> \in order' <=> <<j, i>> \notin order')
        /\ WellOrdered' /\ SinceInv' /\ since' \in [Keys -> SUBSET Keys]
    BY <1>1, <1>2, <1>3, UseKey
  <1>5. \A j \in Keys : Promised(j)' => j \in DOMAIN entries
    <2>1. Live \subseteq DOMAIN entries
      BY DEF Live
    <2>2. QED
      BY <1>1, <1>2, <1>3, <2>1, KeepPromises
  <1>6. req' \in [Requests -> [pc : {"session", "run"}, key : Keys] \cup {Idle}] /\ status' = 200
    BY DEF Replay, Leave, Answer, IInv, TypeOK
  <1>7. TypeOK'
    BY <1>2, <1>3, <1>4, <1>6 DEF IInv, TypeOK
  <1>8. QED
    BY <1>2, <1>4, <1>5, <1>7 DEF IInv, CachedInv

\* A reply makes room and is cached: the key that must go is behind all the others.
LEMMA InvReply ==
    ASSUME IInv, NEW r \in Requests, Reply(r)
    PROVE  IInv'
  <1> DEFINE k == req[r].key
             kept == Live \ {k}
             full == Cardinality(kept) = MaxSize
             ks == IF full THEN kept \ {Oldest(kept)} ELSE kept
  <1>1. req[r] \in [pc : {"session", "run"}, key : Keys] /\ k \in Keys
    BY DEF Reply, IInv, TypeOK, Idle
  <1>2. /\ entries' = [j \in ks \cup {k} |-> IF j = k THEN now + CacheTtl ELSE entries[j]]
        /\ order' = Ordered(ks \cup {k}, k) /\ Used(k) /\ now' = now
        /\ answered' = [answered EXCEPT ![k] = now]
    BY DEF Reply, Set
  <1> HIDE DEF k
  <1>3. /\ kept \in SUBSET (DOMAIN entries) /\ kept \subseteq Keys /\ k \notin kept
        /\ IsFiniteSet(kept) /\ Cardinality(kept) \in Nat /\ Cardinality(kept) <= MaxSize
    <2>1. kept \in SUBSET (DOMAIN entries) /\ DOMAIN entries \subseteq Keys /\ k \notin kept
      BY DEF Live, IInv, TypeOK
    <2>2. IsFiniteSet(kept) /\ Cardinality(kept) <= Cardinality(DOMAIN entries)
      BY <2>1, FS_Subset DEF IInv
    <2>3. Cardinality(kept) \in Nat /\ Cardinality(DOMAIN entries) \in Nat
      BY <2>2, FS_CardinalityType DEF IInv
    <2>4. Cardinality(DOMAIN entries) <= MaxSize /\ MaxSize \in Nat
      BY GateAssumption DEF IInv, TypeOK
    <2>5. QED
      BY <2>1, <2>2, <2>3, <2>4
  <1>4. full => /\ Oldest(kept) \in kept
                /\ \A j \in kept \ {Oldest(kept)} : <<Oldest(kept), j>> \in order
    <2>1. full => kept # {}
      BY FS_EmptySet, GateAssumption
    <2>2. kept # {} => \E i \in kept : \A j \in kept \ {i} : <<i, j>> \in order
      BY <1>3 DEF IInv, WellOrdered
    <2>3. QED
      BY <2>1, <2>2 DEF Oldest
  <1> HIDE DEF kept
  <1>5. /\ ks \in SUBSET (DOMAIN entries) /\ ks \subseteq kept /\ k \notin ks
        /\ IsFiniteSet(ks) /\ Cardinality(ks) \in Nat /\ Cardinality(ks) + 1 <= MaxSize
        /\ full => Cardinality(ks) + 1 = MaxSize
    <2>1. CASE full
      <3>1. ks = kept \ {Oldest(kept)}
        BY <2>1
      <3>2. IsFiniteSet(ks) /\ Cardinality(ks) = Cardinality(kept) - 1
        BY <1>3, <1>4, <2>1, <3>1, FS_RemoveElement
      <3>3. Cardinality(ks) \in Nat
        BY <3>2, FS_CardinalityType
      <3>4. QED
        BY <1>3, <2>1, <3>1, <3>2, <3>3
    <2>2. CASE ~full
      BY <1>3, <2>2, GateAssumption
    <2>3. QED
      BY <2>1, <2>2
  <1>6. \A j \in Live \ (ks \cup {k}) : MaxSize <= Cardinality(since[j] \cup {k})
    <2> SUFFICES ASSUME NEW j \in Live \ (ks \cup {k})
                 PROVE  MaxSize <= Cardinality(since[j] \cup {k})
      OBVIOUS
    <2>1. full /\ j = Oldest(kept) /\ j \in kept /\ ks = kept \ {j}
      BY DEF kept
    <2>2. ks \subseteq since[j]
      BY <1>3, <1>4, <2>1 DEF IInv, SinceInv
    <2>3. IsFiniteSet(ks \cup {k}) /\ Cardinality(ks \cup {k}) = MaxSize
      BY <1>5, <2>1, FS_AddElement
    <2>4. IsFiniteSet(since[j] \cup {k})
      BY <1>3, <2>1, FS_AddElement DEF IInv, SinceInv
    <2>5. Cardinality(ks \cup {k}) <= Cardinality(since[j] \cup {k})
      BY <2>2, <2>4, FS_Subset
    <2>6. QED
      BY <2>3, <2>5
  <1> HIDE DEF ks, full
  <1>7. /\ DOMAIN (entries') = ks \cup {k} /\ ks \cup {k} \in SUBSET Keys
        /\ \A j \in ks \cup {k} : entries'[j] = IF j = k THEN now + CacheTtl ELSE entries[j]
        /\ answered'[k] = now /\ \A j \in Keys \ {k} : answered'[j] = answered[j]
        /\ now \in Nat
    BY <1>1, <1>2, <1>3, <1>5 DEF IInv, TypeOK
  <1>8. /\ order' \subseteq (ks \cup {k}) \X (ks \cup {k})
        /\ \A i, j \in ks \cup {k} : i # j => (<<i, j>> \in order' <=> <<j, i>> \notin order')
        /\ WellOrdered' /\ SinceInv' /\ since' \in [Keys -> SUBSET Keys]
    BY <1>1, <1>2, <1>5, <1>7, UseKey
  <1>9. \A j \in Keys : Promised(j)' => j \in ks \cup {k}
    BY <1>1, <1>2, <1>6, <1>7, KeepPromises
  <1>10. CachedInv'
    BY <1>5, <1>7, GateAssumption DEF IInv, CachedInv
  <1>11. IsFiniteSet(ks \cup {k}) /\ Cardinality(ks \cup {k}) <= MaxSize
    BY <1>5, FS_AddElement
  <1>12. /\ req' \in [Requests -> [pc : {"session", "run"}, key : Keys] \cup {Idle}]
         /\ status' = 200 /\ answered' \in [Keys -> Nat \cup {Never}]
    BY <1>2, <1>7 DEF Reply, Leave, Answer, IInv, TypeOK
  <1>13. entries' \in [ks \cup {k} -> Nat]
    BY <1>2, <1>5, <1>7, GateAssumption DEF IInv, TypeOK
  <1>14. TypeOK'
    BY <1>2, <1>7, <1>8, <1>11, <1>12, <1>13 DEF IInv, TypeOK
  <1>15. QED
    BY <1>7, <1>8, <1>9, <1>10, <1>11, <1>14 DEF IInv

\* The other steps let the clock run, or leave clock, cache and histories alone.
LEMMA InvOther ==
    ASSUME IInv, req' \in [Requests -> [pc : {"session", "run"}, key : Keys] \cup {Idle}],
           status' \in {0, 200, 401, 403, 404, 408, 422, 500, 503},
           UNCHANGED <<entries, order, answered, since>>,
           now' \in 0 .. MaxTime, now <= now'
    PROVE  IInv'
  <1>1. TypeOK'
    BY DEF IInv, TypeOK
  <1>2. \A k \in Keys : Promised(k)' => Promised(k)
    <2> SUFFICES ASSUME NEW k \in Keys, Promised(k)' PROVE Promised(k)
      OBVIOUS
    <2>1. /\ answered[k] # Never /\ now' < answered[k] + CacheTtl
          /\ Cardinality(since[k]) < MaxSize
      BY DEF Promised
    <2>2. answered[k] \in Nat /\ now \in Nat /\ now' \in Nat /\ CacheTtl \in Nat
      BY <2>1, GateAssumption DEF IInv, TypeOK
    <2>3. QED
      BY <2>1, <2>2 DEF Promised
  <1>3. QED
    BY <1>1, <1>2 DEF IInv, WellOrdered, CachedInv, SinceInv

LEMMA InvRestart == ASSUME IInv, Restart PROVE IInv'
  <1>1. /\ DOMAIN (entries') = {} /\ IsFiniteSet(DOMAIN (entries'))
        /\ Cardinality(DOMAIN (entries')) = 0 /\ entries' \in [{} -> Nat]
    BY FS_EmptySet DEF Restart
  <1>2. \A k \in Keys : answered'[k] = Never
    BY DEF Restart
  <1>3. TypeOK'
    BY <1>1, GateAssumption DEF Restart, Answer, IInv, TypeOK
  <1>4. WellOrdered' /\ CachedInv' /\ SinceInv'
    BY <1>1 DEF Restart, IInv, WellOrdered, CachedInv, SinceInv
  <1>5. \A k \in Keys : ~Promised(k)'
    BY <1>2 DEF Promised
  <1>6. QED
    BY <1>1, <1>3, <1>4, <1>5 DEF IInv

LEMMA InvNext == IInv /\ [Next]_vars => IInv'
  <1> SUFFICES ASSUME IInv, [Next]_vars PROVE IInv'
    OBVIOUS
  <1> USE DEF Answer, Leave
  <1>1. /\ now \in 0 .. MaxTime /\ now <= now
        /\ req \in [Requests -> [pc : {"session", "run"}, key : Keys] \cup {Idle}]
        /\ status \in {0, 200, 401, 403, 404, 408, 422, 500, 503}
    BY DEF IInv, TypeOK
  <1>2. CASE UNCHANGED vars
    BY <1>1, <1>2, InvOther DEF vars
  <1>3. CASE Refuse \/ Done \/ Probe
    BY <1>1, <1>3, CodesType, InvOther DEF Refuse, Done, Probe
  <1>4. ASSUME NEW r \in Requests, NEW k \in Keys, Turn(r, k) PROVE IInv'
    BY <1>1, <1>4, InvOther DEF Turn
  <1>5. ASSUME NEW r \in Requests, NotFound(r) \/ Fail(r) PROVE IInv'
    BY <1>1, <1>5, InvOther DEF NotFound, Fail
  <1>6. ASSUME NEW r \in Requests, Run(r) PROVE IInv'
    <2>1. req[r] \in [pc : {"session", "run"}, key : Keys]
      BY <1>1, <1>6 DEF Run, Idle
    <2>2. req' \in [Requests -> [pc : {"session", "run"}, key : Keys] \cup {Idle}]
      BY <1>1, <1>6, <2>1 DEF Run
    <2>3. QED
      BY <1>1, <1>6, <2>2, InvOther DEF Run
  <1>7. CASE Tick
    <2>1. now' \in 0 .. MaxTime /\ now <= now'
      BY <1>1, <1>7, GateAssumption DEF Tick
    <2>2. QED
      BY <1>1, <1>7, <2>1, InvOther DEF Tick
  <1>8. QED
    BY <1>2, <1>3, <1>4, <1>5, <1>6, <1>7, InvReplay, InvReply, InvRestart DEF Next

LEMMA Inductive == Spec => []IInv
  BY InvInit, InvNext, PTL DEF Spec

-----------------------------------------------------------------------------
(* The properties. *)

\* The variables keep their types: the statuses are those the handlers can answer, and
\* the cache never holds more than MaxSize keys.
THEOREM TypeCorrect == Spec => []TypeOK
  <1>1. IInv => TypeOK
    BY DEF IInv
  <1>2. QED
    BY <1>1, Inductive, PTL

\* require_service lets a token for this service and a UUID through in every second until
\* its exp and in none from it on, for any lifetimes, sessions and clock.
THEOREM TokensLiveToTheirExpiry == Spec => []TokenLivesToItsExpiry
  <1>1. IInv => TokenLivesToItsExpiry
    BY GateIsOpen, GateAssumption DEF IInv, TypeOK
  <1>2. QED
    BY <1>1, Inductive, PTL

\* handle_turn runs no retry whose reply the TTLCache must still hold and replays none it
\* must not, for any number of requests and keys and any size of the cache.
THEOREM RetriesAreServed == Spec => RetryIsServed
  <1> DEFINE Kept(r) ==
                 /\ req'[r].pc = "run" /\ req[r].pc # "run" => ~Promised(req[r].key)
                 /\ req[r].pc = "session" /\ req'[r] = Idle /\ status' = 200 =>
                        answered[req[r].key] # Never /\ now < answered[req[r].key] + CacheTtl
  <1>1. ASSUME IInv, Next, NEW r \in Requests PROVE Kept(r)
    <2>1. CASE req'[r].pc = "run" /\ req[r].pc # "run"
      <3>1. Run(r)
        BY <1>1, <2>1 DEF IInv, TypeOK, Next, Refuse, Done, Probe, Turn, NotFound, Replay, Run,
                          Reply, Fail, Leave, Tick, Restart, Idle
      <3>2. req[r].key \in Keys /\ req[r].key \notin Live
        BY <1>1, <3>1 DEF Run, Hit, IInv, TypeOK, Idle
      <3>3. \A k \in Keys : Promised(k) => k \in Live
        BY <1>1 DEF IInv, CachedInv, Promised, Live
      <3>4. QED
        BY <2>1, <3>1, <3>2, <3>3 DEF Run, Idle
    <2>2. CASE req[r].pc = "session" /\ req'[r] = Idle /\ status' = 200
      <3>1. Replay(r)
        BY <1>1, <2>2 DEF IInv, TypeOK, Next, Refuse, Done, Probe, Turn, NotFound, Replay, Run,
                          Reply, Fail, Leave, Answer, Tick, Restart, Idle
      <3>2. req[r].key \in Live
        BY <3>1 DEF Replay, Hit
      <3>3. QED
        BY <1>1, <2>2, <3>2 DEF IInv, CachedInv, Live, Idle
    <2>3. QED
      BY <2>1, <2>2
  <1>2. IInv /\ [Next]_vars => [\A r \in Requests : Kept(r)]_vars
    BY <1>1
  <1> HIDE DEF Kept
  <1>3. Spec => [][\A r \in Requests : Kept(r)]_vars
    BY <1>2, Inductive, PTL DEF Spec
  <1>4. QED
    BY <1>3 DEF RetryIsServed, Kept

=============================================================================
