--------------------------- MODULE TurnServerProofs ---------------------------
(***************************************************************************)
(* TLAPS proofs about TurnServer: the inductive invariant of the requests, *)
(* the store, the cache, the gauge and the sweeper, and the properties it  *)
(* implies.                                                                *)
(***************************************************************************)
EXTENDS TurnServer, FiniteSetTheorems, TLAPS

-----------------------------------------------------------------------------
(* The inductive invariant. *)

\* The sessions the gauge may have counted: some client was told of them.
Countable == known \cap (Tracked \cup slipped)

\* Every id in the store was drawn, or is the one a client made up; rows without a client
\* who knows of them have their meta row.
Sound(rows, metas) ==
    /\ rows \subseteq born
    /\ metas \subseteq born \cup {Bogus}
    /\ rows \ known \subseteq metas

\* So it is with what the connection sees, and with what was committed last.
StoreInv ==
    /\ Sound(stored, Tracked)
    /\ Sound(kept, keptMeta)
    /\ gauge <= Cardinality(Countable)

\* A cached reply names a session that its client was told of.
CacheInv == \A k \in Keys : cache[k] # NoEntry => cache[k].s \in known

\* The sweeper is after ids that were in the store; the rows of the one it is deleting are
\* gone, unless a turn of a client that knows the session has put them again.
SweepInv ==
    /\ sweeper.todo \subseteq born \cup {Bogus}
    /\ sweeper.pc = "meta" => sweeper.cur \in born \cup {Bogus} /\ sweeper.cur \notin stored \ known

\* Where a request of each kind may be.
Shape(q) ==
    /\ q.pc = "idle" => q = Idle
    /\ q.kind = "none" => q.pc = "idle"
    /\ q.kind = "start" => q.pc \in {"cache"} \cup LegSteps
    /\ q.kind = "resume" => q.pc \in TurnSteps
    /\ q.kind = "done" => q.pc \in DoneSteps
    /\ q.kind \in {"start", "resume"} =>
           q.key \in Headers \cup {KeyOf(q.s, m) : m \in Messages}

\* No one but its own request knows the session of a first turn: no other turn, no
\* deletion and no sweep is at it.
FirstInv(q) ==
    q.kind = "start" =>
        /\ q.s \in born \ known
        /\ meta[q.s] # "stale" /\ q.s \notin sweeper.todo
        /\ sweeper.pc = "meta" => sweeper.cur # q.s
        /\ q.pc \in LegSteps \ {"load"} => q.s \in Tracked
        /\ q.pc \in {"touch", "more", "reply"} => q.s \in stored

\* The other requests are for sessions their client was told of.
ToldInv(q) ==
    /\ q.kind \in {"resume", "done"} => q.s \in known \cup {Bogus}
    /\ q.kind = "resume" /\ q.pc # "lookup" => q.s \in known

ReqInv(q) == Shape(q) /\ FirstInv(q) /\ ToldInv(q)

StartsApart ==
    \A r1, r2 \in Requests :
        r1 # r2 /\ req[r1].kind = "start" /\ req[r2].kind = "start" => req[r1].s # req[r2].s

IInv ==
    /\ TypeOK /\ StoreInv /\ CacheInv /\ SweepInv
    /\ \A r \in Requests : ReqInv(req[r])
    /\ StartsApart

-----------------------------------------------------------------------------
(* Facts about the constants and about counting. *)

LEMMA ConstantFacts ==
    /\ IsFiniteSet(Sessions) /\ Cardinality(Sessions) \in Nat /\ GaugeFloor \in Nat
    /\ Bogus \in Ids /\ Bogus \notin Sessions /\ Sessions \subseteq Ids
    /\ NoEntry \in Entry /\ Idle \in Request /\ Asleep \in Sweeper
    /\ Idle.pc = "idle" /\ Idle.kind = "none" /\ Idle.s = Bogus
    /\ Asleep.pc = "sleep" /\ Asleep.todo = {} /\ Asleep.cur = Bogus
  <1>1. IsFiniteSet(Sessions) /\ GaugeFloor \in Nat /\ Bogus \notin Sessions
    BY ServerAssumption
  <1>2. Cardinality(Sessions) \in Nat
    BY <1>1, FS_CardinalityType
  <1>3. QED
    BY <1>1, <1>2 DEF Ids, NoEntry, Entry, Idle, Request, Asleep, Sweeper, Kinds

\* Sets of sessions are counted as one expects.
LEMMA Counting ==
    ASSUME NEW S \in SUBSET Sessions
    PROVE  /\ IsFiniteSet(S) /\ Cardinality(S) \in Nat /\ Cardinality(S) <= Cardinality(Sessions)
           /\ \A T \in SUBSET S : Cardinality(T) <= Cardinality(S)
           /\ \A s \in Sessions \ S : Cardinality(S \cup {s}) = Cardinality(S) + 1
           /\ \A s : Cardinality(S \ {s}) >= Cardinality(S) - 1
  <1>1. IsFiniteSet(S) /\ Cardinality(S) \in Nat /\ Cardinality(S) <= Cardinality(Sessions)
    BY ConstantFacts, FS_Subset, FS_CardinalityType
  <1>2. \A T \in SUBSET S : Cardinality(T) <= Cardinality(S)
    BY <1>1, FS_Subset
  <1>3. \A s \in Sessions \ S : Cardinality(S \cup {s}) = Cardinality(S) + 1
    BY <1>1, FS_AddElement
  <1>4. ASSUME NEW s PROVE Cardinality(S \ {s}) >= Cardinality(S) - 1
    <2>1. Cardinality(S \ {s}) = IF s \in S THEN Cardinality(S) - 1 ELSE Cardinality(S)
      BY <1>1, FS_RemoveElement
    <2>2. QED
      BY <1>1, <2>1
  <1>5. QED
    BY <1>1, <1>2, <1>3, <1>4

-----------------------------------------------------------------------------
(* Steps of one request. *)

\* What the invariant says of one request.
LEMMA OneRequest ==
    ASSUME IInv, NEW r \in Requests
    PROVE  /\ req[r] \in Request /\ ReqInv(req[r])
           /\ known \subseteq born /\ born \subseteq Sessions /\ born \cup {Bogus} \subseteq Ids
           /\ req[r].s \in born \cup {Bogus}
           /\ req[r].pc \in TurnSteps <=> req[r].kind \in {"start", "resume"}
           /\ req[r].pc \in LegSteps => req[r].s \in born
           /\ req[r].pc \in {"rows", "meta"} => req[r].kind = "done"
  <1>1. req[r] \in Request /\ ReqInv(req[r])
    BY DEF IInv, TypeOK
  <1>2. known \subseteq born /\ born \subseteq Sessions /\ born \cup {Bogus} \subseteq Ids
    BY DEF IInv, TypeOK, Ids
  <1>3. req[r].kind \in {"none", "start", "resume", "done"}
    BY <1>1 DEF Request, Kinds
  <1>4. req[r].pc \in TurnSteps <=> req[r].kind \in {"start", "resume"}
    BY <1>1, <1>3, ConstantFacts DEF ReqInv, Shape, TurnSteps, LegSteps, DoneSteps
  <1>5. req[r].s \in born \cup {Bogus}
    <2>1. req[r].kind = "none" => req[r].s = Bogus
      BY <1>1, ConstantFacts DEF ReqInv, Shape
    <2>2. QED
      BY <1>1, <1>2, <1>3, <2>1 DEF ReqInv, FirstInv, ToldInv
  <1>6. req[r].pc \in LegSteps => req[r].s \in born
    BY <1>1, <1>2, <1>4 DEF ReqInv, FirstInv, ToldInv, TurnSteps, LegSteps
  <1>7. req[r].pc \in {"rows", "meta"} => req[r].kind = "done"
    BY <1>1, <1>3, ConstantFacts DEF ReqInv, Shape, TurnSteps, LegSteps
  <1>8. QED
    BY <1>1, <1>2, <1>4, <1>5, <1>6, <1>7

\* The gauge's sessions are counted among those drawn.
LEMMA CountableFacts ==
    ASSUME IInv
    PROVE  /\ Countable \subseteq Sessions /\ Cardinality(Countable) \in Nat
           /\ gauge \in Int /\ gauge <= Cardinality(Countable)
  <1>1. Countable \subseteq Sessions
    BY DEF IInv, TypeOK, Countable
  <1>2. QED
    BY <1>1, Counting, ConstantFacts DEF IInv, TypeOK, StoreInv

\* One request moves on: the invariant holds again if it does of the new request, and if
\* the step keeps what it says of each of the others.
LEMMA Moves ==
    ASSUME IInv, NEW r \in Requests, NEW q \in Request, req' = [req EXCEPT ![r] = q],
           TypeOK', StoreInv', CacheInv', SweepInv', ReqInv(q)',
           \A p \in Requests \ {r}, o \in Request :
               req[p] = o => /\ ReqInv(o)'
                             /\ q.kind = "start" /\ o.kind = "start" => q.s # o.s
    PROVE  IInv'
  <1>1. req'[r] = q /\ \A p \in Requests \ {r} : req'[p] = req[p] /\ req[p] \in Request
    BY DEF IInv, TypeOK
  <1>2. ASSUME NEW p \in Requests PROVE ReqInv(req[p])'
    BY <1>1 DEF ReqInv, Shape, FirstInv, ToldInv
  <1>3. StartsApart'
    BY <1>1 DEF IInv, StartsApart
  <1>4. QED
    BY <1>2, <1>3 DEF IInv

\* The requests stay: the invariant holds again if the step keeps what it says of each.
LEMMA Beside ==
    ASSUME IInv, req' = req,
           TypeOK', StoreInv', CacheInv', SweepInv',
           \A p \in Requests, o \in Request : req[p] = o => ReqInv(o)'
    PROVE  IInv'
  <1>1. \A p \in Requests : req'[p] = req[p] /\ req[p] \in Request
    BY DEF IInv, TypeOK
  <1>2. ASSUME NEW p \in Requests PROVE ReqInv(req[p])'
    BY <1>1 DEF ReqInv, Shape, FirstInv, ToldInv
  <1>3. StartsApart'
    BY <1>1 DEF IInv, StartsApart
  <1>4. QED
    BY <1>2, <1>3 DEF IInv

\* A step that takes no row away and lets none age keeps what the invariant says of a
\* request.
LEMMA Kept ==
    ASSUME NEW q, ReqInv(q), UNCHANGED <<ids, sweeper>>,
           Tracked \subseteq Tracked', stored \subseteq stored',
           meta'[q.s] = "stale" => meta[q.s] = "stale"
    PROVE  ReqInv(q)'
  BY DEF ReqInv, FirstInv, ToldInv, ids

\* A commit makes durable what the connection sees: what was committed stays sound.
LEMMA Committed ==
    ASSUME Sound(kept, keptMeta), Sound(stored, Tracked)', UNCHANGED ids, Commit \/ Uncommitted
    PROVE  Sound(kept, keptMeta)'
  BY DEF Sound, Commit, Uncommitted, ids

\* A request moves on within its turn, or ends.
Onward(r, q) ==
    \/ q = Idle
    \/ q.kind = req[r].kind /\ q.s = req[r].s /\ ReqInv(q)'

\* A request moves on; the store gains at most a row, and cache, ids and sweeper stay.
LEMMA GrowStep ==
    ASSUME IInv, NEW r \in Requests, NEW q \in Request, req' = [req EXCEPT ![r] = q],
           UNCHANGED <<count, cache, ids, sweeper>>, Commit \/ Uncommitted,
           stored \subseteq stored', stored' \subseteq born,
           Tracked \subseteq Tracked', Tracked' \subseteq born \cup {Bogus},
           meta' \in [Ids -> {"none", "fresh", "stale"}],
           stored' \ known \subseteq Tracked',
           sweeper.pc = "meta" => sweeper.cur \notin stored' \ known,
           \A s \in Ids : meta'[s] = "stale" => meta[s] = "stale",
           Onward(r, q)
    PROVE  IInv'
  <1>1. /\ gauge' = gauge /\ slipped' = slipped /\ cache' = cache /\ born' = born
        /\ known' = known /\ sweeper' = sweeper
    BY DEF count, ids
  <1>2. TypeOK'
    <2>1. stored' \subseteq Ids /\ Tracked' \subseteq Ids
      BY OneRequest
    <2>2. kept' \subseteq Ids /\ keptMeta' \subseteq Ids
      BY <2>1 DEF IInv, TypeOK, Commit, Uncommitted
    <2>3. QED
      BY <1>1, <2>1, <2>2 DEF IInv, TypeOK
  <1>3. StoreInv'
    <2>1. Countable \subseteq Countable' /\ Countable' \subseteq Sessions
      BY <1>1 DEF IInv, TypeOK, Countable
    <2>2. Cardinality(Countable) <= Cardinality(Countable') /\ Cardinality(Countable') \in Nat
      BY <2>1, Counting
    <2>3. gauge' <= Cardinality(Countable')
      BY <1>1, <2>2, CountableFacts
    <2>4. Sound(stored, Tracked)'
      BY <1>1 DEF Sound
    <2>5. QED
      BY <1>1, <2>3, <2>4, Committed DEF IInv, StoreInv
  <1>4. CacheInv' /\ SweepInv'
    BY <1>1 DEF IInv, CacheInv, SweepInv
  <1>5. ReqInv(q)'
    BY ConstantFacts DEF Onward, ReqInv, Shape, FirstInv, ToldInv
  <1>6. ASSUME NEW p \in Requests \ {r}, NEW o \in Request, req[p] = o
        PROVE  ReqInv(o)' /\ (q.kind = "start" /\ o.kind = "start" => q.s # o.s)
    <2>1. ReqInv(o) /\ o.s \in Ids
      BY <1>6 DEF IInv, Request
    <2>2. ReqInv(o)'
      BY <2>1, Kept
    <2>3. q.kind = "start" /\ o.kind = "start" => q.s # o.s
      BY <1>6, ConstantFacts DEF IInv, StartsApart, Onward
    <2>4. QED
      BY <2>2, <2>3
  <1>7. QED
    BY <1>2, <1>3, <1>4, <1>5, <1>6, Moves

\* A request moves on and touches its session.
LEMMA TouchStep ==
    ASSUME IInv, NEW r \in Requests, NEW q \in Request, req' = [req EXCEPT ![r] = q],
           UNCHANGED <<count, cache, ids, sweeper>>,
           Touch(req[r].s), Commit \/ Uncommitted, Onward(r, q)
    PROVE  IInv'
  <1>1. req[r].s \in born \cup {Bogus} /\ born \cup {Bogus} \subseteq Ids
    BY OneRequest
  <1>2. Tracked' = Tracked \cup {req[r].s} /\ meta' \in [Ids -> {"none", "fresh", "stale"}]
    BY <1>1 DEF Touch, Tracked, IInv, TypeOK
  <1>3. \A s \in Ids : meta'[s] = "stale" => meta[s] = "stale"
    BY <1>1 DEF Touch, IInv, TypeOK
  <1>4. QED
    BY <1>1, <1>2, <1>3, GrowStep DEF Touch, IInv, TypeOK, StoreInv, Sound, SweepInv

\* A request moves on and leaves the store alone.
LEMMA StayStep ==
    ASSUME IInv, NEW r \in Requests, NEW q \in Request, req' = [req EXCEPT ![r] = q],
           UNCHANGED <<store, count, cache, ids, sweeper>>,
           q.kind = "start" => req[r].kind = "start" /\ q.s = req[r].s,
           ReqInv(q)
    PROVE  IInv'
  <1>1. /\ stored' = stored /\ meta' = meta /\ Tracked' = Tracked
        /\ kept' = kept /\ keptMeta' = keptMeta /\ gauge' = gauge /\ slipped' = slipped
        /\ cache' = cache /\ born' = born /\ known' = known /\ sweeper' = sweeper
    BY DEF store, count, ids, Tracked
  <1>2. TypeOK' /\ StoreInv' /\ CacheInv' /\ SweepInv'
    BY <1>1 DEF IInv, TypeOK, StoreInv, Sound, CacheInv, SweepInv, Countable
  <1>3. ASSUME NEW o, ReqInv(o) PROVE ReqInv(o)'
    BY <1>1, <1>3 DEF ReqInv, FirstInv, ToldInv
  <1>4. ASSUME NEW p \in Requests \ {r}, NEW o \in Request, req[p] = o
        PROVE  ReqInv(o)' /\ (q.kind = "start" /\ o.kind = "start" => q.s # o.s)
    BY <1>3, <1>4 DEF IInv, StartsApart
  <1>5. QED
    BY <1>2, <1>3, <1>4, Moves

-----------------------------------------------------------------------------
(* The actions of a request. *)

\* Goto moves the pc alone.
LEMMA Moved ==
    ASSUME IInv, NEW r \in Requests, NEW p \in TurnSteps \cup DoneSteps, Goto(r, p)
    PROVE  \E q \in Request : /\ q.pc = p /\ q.kind = req[r].kind /\ q.s = req[r].s
                              /\ q.key = req[r].key /\ req' = [req EXCEPT ![r] = q]
  <1>1. req[r] \in Request
    BY OneRequest
  <1> DEFINE q == [req[r] EXCEPT !.pc = p]
  <1>2. q \in Request /\ q.pc = p /\ q.kind = req[r].kind /\ q.s = req[r].s /\ q.key = req[r].key
    BY <1>1 DEF Request
  <1>3. req' = [req EXCEPT ![r] = q]
    BY <1>1 DEF Goto
  <1>4. QED
    BY <1>2, <1>3

\* A request that ends has nothing left to keep.
LEMMA IdleInv == ReqInv(Idle) /\ Idle \in Request
  BY ConstantFacts DEF ReqInv, Shape, FirstInv, ToldInv

LEMMA InvResumeTurn ==
    ASSUME IInv, NEW r \in Requests, ResumeTurn(r)
    PROVE  IInv'
  <1>1. PICK s \in known \cup {Bogus} : \E k \in KeysFor(s) :
            req' = [req EXCEPT ![r] = [pc |-> "lookup", kind |-> "resume", s |-> s, key |-> k]]
    BY DEF ResumeTurn
  <1>2. PICK k \in KeysFor(s) :
            req' = [req EXCEPT ![r] = [pc |-> "lookup", kind |-> "resume", s |-> s, key |-> k]]
    BY <1>1
  <1> DEFINE q == [pc |-> "lookup", kind |-> "resume", s |-> s, key |-> k]
  <1>3. s \in Ids
    BY OneRequest DEF Ids
  <1>4. q \in Request
    BY <1>3 DEF Request, KeysFor, KeyOf, Keys, TurnSteps, Kinds
  <1>5. ReqInv(q)
    BY DEF ReqInv, Shape, FirstInv, ToldInv, TurnSteps, KeysFor
  <1>6. QED
    BY <1>2, <1>4, <1>5, StayStep DEF ResumeTurn

LEMMA InvDoneTurn ==
    ASSUME IInv, NEW r \in Requests, DoneTurn(r)
    PROVE  IInv'
  <1>1. PICK s \in known \cup {Bogus} :
            req' = [req EXCEPT ![r] = [pc |-> "check", kind |-> "done", s |-> s, key |-> NoKey]]
    BY DEF DoneTurn
  <1> DEFINE q == [pc |-> "check", kind |-> "done", s |-> s, key |-> NoKey]
  <1>2. s \in Ids
    BY OneRequest DEF Ids
  <1>3. q \in Request
    BY <1>2 DEF Request, DoneSteps, Kinds
  <1>4. ReqInv(q)
    BY DEF ReqInv, Shape, FirstInv, ToldInv, DoneSteps
  <1>5. QED
    BY <1>1, <1>3, <1>4, StayStep DEF DoneTurn

\* A cached reply tells the client of a session some client was told of before.
LEMMA InvCacheHit ==
    ASSUME IInv, NEW r \in Requests, CacheHit(r)
    PROVE  IInv'
  <1>1. req[r].key \in Keys
    <2>1. req[r].kind \in {"start", "resume"} /\ req[r].s \in Ids
      BY OneRequest DEF CacheHit, TurnSteps, Request
    <2>2. QED
      BY <2>1, OneRequest DEF ReqInv, Shape, Keys, KeyOf
  <1>2. known' = known
    BY <1>1 DEF CacheHit, IInv, CacheInv
  <1>3. QED
    BY <1>2, StayStep, IdleInv, ConstantFacts DEF CacheHit, Leave, ids

LEMMA InvCacheMiss ==
    ASSUME IInv, NEW r \in Requests, CacheMiss(r)
    PROVE  IInv'
  <1>1. PICK q \in Request : /\ q.pc = "load" /\ q.kind = req[r].kind /\ q.s = req[r].s
                             /\ q.key = req[r].key /\ req' = [req EXCEPT ![r] = q]
    BY Moved DEF CacheMiss, TurnSteps, LegSteps
  <1>2. ReqInv(q)
    BY <1>1, OneRequest, ConstantFacts
    DEF CacheMiss, ReqInv, Shape, FirstInv, ToldInv, TurnSteps, LegSteps, DoneSteps
  <1>3. QED
    BY <1>1, <1>2, StayStep DEF CacheMiss

\* The reads before a leg and of /done.
LEMMA InvLook ==
    ASSUME IInv, NEW r \in Requests, Lookup(r) \/ TurnN(r) \/ DoneCheck(r)
    PROVE  IInv'
  <1>1. /\ Touch(req[r].s) /\ Commit /\ UNCHANGED <<stored, count, cache, ids, sweeper>>
    BY DEF Touch, Lookup, TurnN, DoneCheck, GetTuple
  <1>2. CASE Leave(r)
    BY <1>1, <1>2, TouchStep, IdleInv DEF Leave, Onward
  <1>3. CASE ~Leave(r)
    <2>1. \/ req[r].pc = "lookup" /\ req[r].s \in stored /\ Goto(r, "turn_n")
          \/ req[r].pc = "turn_n" /\ Goto(r, "cache")
          \/ req[r].pc = "check" /\ Goto(r, "rows")
      BY <1>3 DEF Lookup, TurnN, DoneCheck
    <2>2. PICK q \in Request :
              /\ q.pc \in {"turn_n", "cache", "rows"} /\ (q.pc = "rows" <=> req[r].pc = "check")
              /\ (q.pc = "turn_n" <=> req[r].pc = "lookup")
              /\ q.kind = req[r].kind /\ q.s = req[r].s
              /\ q.key = req[r].key /\ req' = [req EXCEPT ![r] = q]
      BY <2>1, Moved DEF TurnSteps, DoneSteps
    <2>3. req[r].kind \in {"resume", "done"} /\ (req[r].kind = "done" <=> req[r].pc = "check")
      BY <2>1, OneRequest, ConstantFacts
      DEF ReqInv, Shape, Request, Kinds, TurnSteps, LegSteps, DoneSteps
    <2>4. req[r].pc = "lookup" => req[r].s \in known
      <3>1. SUFFICES ASSUME req[r].pc = "lookup" PROVE req[r].s \in known
        OBVIOUS
      <3>2. req[r].s \in born /\ Bogus \notin born
        BY <2>1, <3>1, OneRequest, ConstantFacts DEF IInv, StoreInv, Sound
      <3>3. QED
        BY <2>3, <3>2, OneRequest DEF ReqInv, ToldInv
    <2>5. ReqInv(q)
      BY <2>2, <2>3, <2>4, OneRequest, ConstantFacts
      DEF ReqInv, Shape, FirstInv, ToldInv, TurnSteps, DoneSteps
    <2>6. ReqInv(q)'
      BY <1>1, <2>2, <2>3, <2>5 DEF ReqInv, FirstInv, ToldInv, ids
    <2>7. QED
      BY <1>1, <2>2, <2>6, TouchStep DEF Onward
  <1>4. QED
    BY <1>2, <1>3

\* The reads and touches of a leg.
LEMMA InvLegTouches ==
    ASSUME IInv, NEW r \in Requests, LegLoad(r) \/ LegTouch(r) \/ Drain(r)
    PROVE  IInv'
  <1>1. Touch(req[r].s) /\ Commit /\ UNCHANGED <<stored, count, cache, ids, sweeper>>
    BY DEF Touch, LegLoad, LegTouch, Drain, GetTuple
  <1>2. PICK q \in Request :
            /\ \/ req[r].pc = "load" /\ q.pc = "leg"
               \/ req[r].pc = "touch" /\ q.pc = "more"
               \/ req[r].pc = "more" /\ q.pc = "reply"
            /\ q.kind = req[r].kind /\ q.s = req[r].s
            /\ q.key = req[r].key /\ req' = [req EXCEPT ![r] = q]
    BY Moved DEF LegLoad, LegTouch, Drain, TurnSteps, LegSteps
  <1>3. req[r].s \in Ids /\ meta'[req[r].s] = "fresh" /\ req[r].s \in Tracked'
    BY <1>1, OneRequest DEF Touch, Tracked, IInv, TypeOK
  <1>4. ReqInv(q)'
    BY <1>1, <1>2, <1>3, OneRequest, ConstantFacts
    DEF ReqInv, Shape, FirstInv, ToldInv, TurnSteps, LegSteps, DoneSteps, ids
  <1>5. QED
    BY <1>1, <1>2, <1>4, TouchStep DEF Onward

\* A leg puts a row under a session that is tracked, or that its client knows of.
LEMMA PutStep ==
    ASSUME IInv, NEW r \in Requests, NEW q \in Request, req' = [req EXCEPT ![r] = q],
           UNCHANGED <<count, cache, ids, sweeper>>, req[r].pc \in {"leg", "more"},
           PutRow(req[r].s), Commit \/ Uncommitted, Onward(r, q)
    PROVE  IInv'
  <1>1. req[r].s \in born /\ req[r].kind \in {"start", "resume"}
    BY OneRequest DEF TurnSteps, LegSteps
  <1>2. stored' = stored \cup {req[r].s} /\ meta' = meta /\ Tracked' = Tracked
    BY DEF PutRow, Tracked
  <1>3. req[r].s \in known \/ (req[r].s \in Tracked /\ (sweeper.pc = "meta" => sweeper.cur # req[r].s))
    BY <1>1, OneRequest DEF ReqInv, FirstInv, ToldInv, LegSteps
  <1>4. QED
    BY <1>1, <1>2, <1>3, GrowStep DEF IInv, TypeOK, StoreInv, Sound, SweepInv

LEMMA InvLegPut ==
    ASSUME IInv, NEW r \in Requests, LegPut(r)
    PROVE  IInv'
  <1>1. PICK q \in Request :
            /\ q.pc = "touch" /\ q.kind = req[r].kind /\ q.s = req[r].s
            /\ q.key = req[r].key /\ req' = [req EXCEPT ![r] = q]
    BY Moved DEF LegPut, TurnSteps, LegSteps
  <1>2. /\ req[r].pc \in {"leg", "more"} /\ req[r].kind \in {"start", "resume"}
        /\ PutRow(req[r].s) /\ Commit /\ UNCHANGED <<count, cache, ids, sweeper>>
    BY OneRequest DEF LegPut, TurnSteps, LegSteps
  <1>3. stored' = stored \cup {req[r].s} /\ meta' = meta /\ Tracked' = Tracked
    BY <1>2 DEF PutRow, Tracked
  <1>4. ReqInv(q)'
    BY <1>1, <1>2, <1>3, OneRequest
    DEF ReqInv, Shape, FirstInv, ToldInv, TurnSteps, LegSteps, ids
  <1>5. QED
    BY <1>1, <1>2, <1>4, PutStep DEF Onward

\* What fails leaves the store alone, or leaves its statement executed.
LEMMA InvLegFails ==
    ASSUME IInv, NEW r \in Requests, LegFails(r) \/ ReadFails(r)
    PROVE  IInv'
  <1>1. /\ req' = [req EXCEPT ![r] = Idle] /\ Uncommitted
        /\ UNCHANGED <<count, cache, ids, sweeper>> /\ Onward(r, Idle)
    BY DEF LegFails, ReadFails, Leave, Onward
  <1>2. CASE UNCHANGED <<stored, meta>>
    BY <1>1, <1>2, StayStep, IdleInv, ConstantFacts DEF Uncommitted, store
  <1>3. CASE Touch(req[r].s)
    BY <1>1, <1>3, TouchStep, IdleInv
  <1>4. CASE req[r].pc \in {"leg", "more"} /\ PutRow(req[r].s)
    BY <1>1, <1>4, PutStep, IdleInv
  <1>5. QED
    BY <1>2, <1>3, <1>4 DEF LegFails, ReadFails

\* A new session is one nobody has heard of.
LEMMA InvStartTurn ==
    ASSUME IInv, NEW r \in Requests, StartTurn(r)
    PROVE  IInv'
  <1>1. PICK s \in Sessions \ born :
            \E k \in KeysFor(s) :
                /\ born' = born \cup {s}
                /\ req' = [req EXCEPT ![r] = [pc |-> "cache", kind |-> "start", s |-> s, key |-> k]]
    BY DEF StartTurn
  <1>2. PICK k \in KeysFor(s) :
            req' = [req EXCEPT ![r] = [pc |-> "cache", kind |-> "start", s |-> s, key |-> k]]
    BY <1>1
  <1>3. PICK q \in Request : /\ q.pc = "cache" /\ q.kind = "start" /\ q.s = s /\ q.key = k
                             /\ req' = [req EXCEPT ![r] = q]
    <2> DEFINE q == [pc |-> "cache", kind |-> "start", s |-> s, key |-> k]
    <2>1. q \in Request
      BY ConstantFacts DEF Request, KeysFor, KeyOf, Keys, TurnSteps, Kinds
    <2>2. QED
      BY <1>2, <2>1
  <1>4. /\ stored' = stored /\ meta' = meta /\ Tracked' = Tracked
        /\ kept' = kept /\ keptMeta' = keptMeta /\ gauge' = gauge /\ slipped' = slipped
        /\ cache' = cache /\ known' = known /\ sweeper' = sweeper
        /\ born' = born \cup {s} /\ known \subseteq born
    BY <1>1 DEF StartTurn, store, count, Tracked, IInv, TypeOK
  <1>5. TypeOK'
    BY <1>3, <1>4 DEF IInv, TypeOK
  <1>6. StoreInv' /\ CacheInv' /\ SweepInv'
    BY <1>4 DEF IInv, StoreInv, Sound, CacheInv, SweepInv, Countable
  <1>7. ReqInv(q)'
    <2>1. s \notin Tracked /\ s \notin sweeper.todo /\ (sweeper.pc = "meta" => sweeper.cur # s)
      BY ConstantFacts DEF IInv, StoreInv, Sound, SweepInv
    <2>2. meta[s] = "none"
      BY <2>1, ConstantFacts DEF Tracked
    <2>3. q.key \in Headers \cup {KeyOf(q.s, m) : m \in Messages}
      BY <1>3 DEF KeysFor
    <2>4. QED
      BY <1>3, <1>4, <2>1, <2>2, <2>3, ConstantFacts DEF ReqInv, Shape, FirstInv, ToldInv, LegSteps
  <1>8. ASSUME NEW p \in Requests \ {r}, NEW o \in Request, req[p] = o
        PROVE  ReqInv(o)' /\ (q.kind = "start" /\ o.kind = "start" => q.s # o.s)
    BY <1>3, <1>4, <1>8 DEF IInv, ReqInv, FirstInv, ToldInv
  <1>9. QED
    BY <1>3, <1>5, <1>6, <1>7, <1>8, Moves

\* The reply of a first turn makes its session countable as the gauge counts it.
LEMMA InvRespond ==
    ASSUME IInv, NEW r \in Requests, Respond(r)
    PROVE  IInv'
  <1> DEFINE s == req[r].s
             k == req[r].key
             e == [s |-> s, state |-> IF req[r].kind = "start" THEN "running" ELSE "done"]
  <1>1. /\ req[r].pc = "reply" /\ s \in born /\ s \in Sessions /\ s \in Ids
        /\ req[r].kind \in {"start", "resume"}
    BY OneRequest, ConstantFacts DEF Respond, TurnSteps, LegSteps
  <1>2. /\ req[r].kind = "start" => s \in Tracked \ known
        /\ req[r].kind = "resume" => s \in known
        /\ k \in Keys /\ (k \notin Headers => k.session = s)
    BY <1>1, OneRequest DEF ReqInv, FirstInv, ToldInv, Shape, LegSteps, Keys, KeyOf
  <1>3. /\ stored' = stored /\ meta' = meta /\ Tracked' = Tracked
        /\ kept' = kept /\ keptMeta' = keptMeta /\ slipped' = slipped
        /\ born' = born /\ sweeper' = sweeper /\ known' = known \cup {s}
        /\ cache' = [cache EXCEPT ![k] = e] /\ req' = [req EXCEPT ![r] = Idle]
        /\ gauge' = IF req[r].kind = "start" THEN gauge + 1 ELSE gauge
    BY DEF Respond, store, Tracked, Leave
  <1>4. e \in Entry /\ e.s = s
    BY <1>1 DEF Entry
  <1> HIDE DEF s, k, e
  <1>5. gauge' <= Cardinality(Countable') /\ Countable' \subseteq Sessions /\ gauge' \in Int
        /\ gauge' >= gauge
    <2>1. CASE req[r].kind = "start"
      <3>1. Countable' = Countable \cup {s} /\ s \notin Countable
        BY <2>1, <1>2, <1>3 DEF Countable
      <3>2. QED
        BY <2>1, <3>1, <1>1, <1>3, CountableFacts, Counting
    <2>2. CASE req[r].kind = "resume"
      <3>1. Countable' = Countable
        BY <2>2, <1>2, <1>3 DEF Countable
      <3>2. QED
        BY <2>2, <3>1, <1>3, CountableFacts
    <2>3. QED
      BY <2>1, <2>2, <1>1
  <1>6. TypeOK'
    <2>1. gauge' \in -GaugeFloor .. Cardinality(Sessions)
      BY <1>5, Counting, ConstantFacts DEF IInv, TypeOK
    <2>2. cache' \in [Keys -> Entry] /\ req' \in [Requests -> Request]
      BY <1>3, <1>4, IdleInv DEF IInv, TypeOK
    <2>3. QED
      BY <1>1, <1>3, <2>1, <2>2 DEF IInv, TypeOK
  <1>7. StoreInv' /\ SweepInv'
    BY <1>1, <1>3, <1>5 DEF IInv, StoreInv, Sound, SweepInv
  <1>8. CacheInv'
    BY <1>2, <1>3, <1>4 DEF IInv, TypeOK, CacheInv
  <1>9. ReqInv(Idle)'
    BY ConstantFacts DEF ReqInv, Shape, FirstInv, ToldInv
  <1>10. ASSUME NEW p \in Requests \ {r}, NEW o \in Request, req[p] = o
         PROVE  ReqInv(o)' /\ (Idle.kind = "start" /\ o.kind = "start" => Idle.s # o.s)
    <2>1. ReqInv(o) /\ (o.kind = "start" => o.s # s)
      BY <1>1, <1>2, <1>10 DEF IInv, StartsApart, ReqInv, FirstInv, s
    <2>2. QED
      BY <2>1, <1>3, ConstantFacts DEF ReqInv, FirstInv, ToldInv
  <1>11. QED
    BY <1>3, <1>6, <1>7, <1>8, <1>9, <1>10, IdleInv, Moves

-----------------------------------------------------------------------------
(* Deletions, by /done and by the sweeper. *)

\* The rows of a session go, but stay to be rolled back; it is not one of a first turn.
LEMMA RowsGo ==
    ASSUME IInv, NEW s \in born \cup {Bogus}, DeleteRows(s), Uncommitted,
           UNCHANGED <<count, cache, ids>>
    PROVE  /\ StoreInv' /\ CacheInv'
           /\ stored' = stored \ {s} /\ meta' = meta /\ kept' = kept /\ keptMeta' = keptMeta
           /\ \A q : ReqInv(q) /\ sweeper' = sweeper /\ (q.kind = "start" => q.s # s) => ReqInv(q)'
  <1>1. /\ stored' = stored \ {s} /\ meta' = meta /\ kept' = kept /\ keptMeta' = keptMeta
        /\ Tracked' = Tracked /\ Countable' = Countable
        /\ gauge' = gauge /\ cache' = cache /\ born' = born /\ known' = known
    BY DEF DeleteRows, Uncommitted, Tracked, Countable, count, ids
  <1>2. StoreInv' /\ CacheInv'
    BY <1>1 DEF IInv, StoreInv, Sound, CacheInv
  <1>3. ASSUME NEW q, ReqInv(q), sweeper' = sweeper, q.kind = "start" => q.s # s
        PROVE ReqInv(q)'
    BY <1>1, <1>3 DEF ReqInv, FirstInv, ToldInv
  <1>4. QED
    BY <1>1, <1>2, <1>3

\* The meta row of a deletion goes, and the gauge goes down with it; or its commit fails.
Gone(s) ==
    /\ DeleteMeta(s)
    /\ \/ Commit /\ Dec(s)
       \/ Uncommitted /\ UNCHANGED gauge /\ slipped' = slipped \cup {s}

LEMMA MetaGoes ==
    ASSUME IInv, NEW s \in born \cup {Bogus}, s \notin stored \ known,
           Gone(s), UNCHANGED <<cache, ids>>
    PROVE  /\ StoreInv' /\ CacheInv'
           /\ stored' = stored /\ meta' \in [Ids -> {"none", "fresh", "stale"}]
           /\ kept' \subseteq Ids /\ keptMeta' \subseteq Ids /\ slipped' \subseteq Ids
           /\ gauge' \in -GaugeFloor .. Cardinality(Sessions)
           /\ Tracked' = Tracked \ {s} /\ \A t \in Ids : meta'[t] = "stale" => meta[t] = "stale"
  <1>1. s \in Ids /\ meta \in [Ids -> {"none", "fresh", "stale"}]
    BY DEF IInv, TypeOK, Ids
  <1>2. /\ stored' = stored /\ meta' = [meta EXCEPT ![s] = "none"]
        /\ cache' = cache /\ born' = born /\ known' = known
    BY DEF Gone, DeleteMeta, ids
  <1>3. Tracked' = Tracked \ {s}
    BY <1>1, <1>2 DEF Tracked
  <1>4. Countable' \subseteq Sessions /\ Cardinality(Countable') \in Nat
    <2>1. Countable' \subseteq Sessions
      BY <1>2 DEF Countable, IInv, TypeOK
    <2>2. QED
      BY <2>1, Counting
  <1>5. gauge' <= Cardinality(Countable') /\ gauge' \in -GaugeFloor .. Cardinality(Sessions)
    <2>1. gauge \in -GaugeFloor .. Cardinality(Sessions)
      BY DEF IInv, TypeOK
    <2>2. CASE Dec(s)
      <3>1. Countable' = Countable \ {s}
        BY <1>2, <1>3, <2>2 DEF Countable, Dec
      <3>2. Cardinality(Countable') >= Cardinality(Countable) - 1
        BY <3>1, CountableFacts, Counting
      <3>3. QED
        BY <1>4, <2>1, <2>2, <3>2, CountableFacts, ConstantFacts DEF Dec
    <2>3. CASE gauge' = gauge /\ slipped' = slipped \cup {s}
      <3>1. Countable \subseteq Countable'
        BY <1>2, <1>3, <2>3 DEF Countable
      <3>2. Cardinality(Countable) <= Cardinality(Countable')
        BY <1>4, <3>1, Counting
      <3>3. QED
        BY <1>4, <2>1, <2>3, <3>2, CountableFacts
    <2>4. QED
      BY <2>2, <2>3 DEF Gone
  <1>6. Sound(stored, Tracked)'
    BY <1>2, <1>3 DEF IInv, StoreInv, Sound
  <1>7. StoreInv' /\ CacheInv'
    <2>1. Sound(kept, keptMeta)'
      BY <1>6, Committed DEF Gone, IInv, StoreInv
    <2>2. CacheInv'
      BY <1>2 DEF IInv, CacheInv
    <2>3. QED
      BY <1>5, <1>6, <2>1, <2>2 DEF StoreInv
  <1>8. kept' \subseteq Ids /\ keptMeta' \subseteq Ids /\ slipped' \subseteq Ids
    BY <1>1, <1>2, <1>3 DEF Gone, Commit, Uncommitted, Dec, IInv, TypeOK, Tracked
  <1>9. QED
    BY <1>1, <1>2, <1>3, <1>5, <1>7, <1>8

\* /done deletes a session that its client knows of.
LEMMA InvDoneRows ==
    ASSUME IInv, NEW r \in Requests, DoneRows(r)
    PROVE  IInv'
  <1>1. PICK q \in Request :
            /\ q.pc = "meta" /\ q.kind = req[r].kind /\ q.s = req[r].s
            /\ q.key = req[r].key /\ req' = [req EXCEPT ![r] = q]
    BY Moved DEF DoneRows, DoneSteps
  <1>2. /\ req[r].s \in born \cup {Bogus} /\ req[r].kind = "done" /\ req[r].s \in known \cup {Bogus}
    BY OneRequest DEF DoneRows, ReqInv, ToldInv
  <1>3. DeleteRows(req[r].s) /\ Uncommitted /\ UNCHANGED <<count, cache, ids, sweeper>>
    BY DEF DoneRows
  <1>4. /\ StoreInv' /\ CacheInv'
        /\ stored' = stored \ {req[r].s} /\ meta' = meta /\ kept' = kept /\ keptMeta' = keptMeta
        /\ \A o : ReqInv(o) /\ (o.kind = "start" => o.s # req[r].s) => ReqInv(o)'
    BY <1>2, <1>3, RowsGo
  <1>5. TypeOK'
    BY <1>1, <1>3, <1>4 DEF IInv, TypeOK, count, ids
  <1>6. SweepInv'
    BY <1>3, <1>4 DEF IInv, SweepInv, ids
  <1>7. ReqInv(q)'
    BY <1>1, <1>2, <1>3 DEF ReqInv, Shape, FirstInv, ToldInv, DoneSteps, ids
  <1>8. ASSUME NEW p \in Requests \ {r}, NEW o \in Request, req[p] = o
        PROVE  ReqInv(o)' /\ (q.kind = "start" /\ o.kind = "start" => q.s # o.s)
    <2>1. ReqInv(o) /\ (o.kind = "start" => o.s # req[r].s)
      BY <1>2, <1>8, ConstantFacts DEF IInv, TypeOK, ReqInv, FirstInv
    <2>2. QED
      BY <2>1, <1>1, <1>2, <1>4
  <1>9. QED
    BY <1>1, <1>4, <1>5, <1>6, <1>7, <1>8, Moves

LEMMA DoneGoes ==
    ASSUME IInv, NEW r \in Requests, req[r].pc = "meta", Gone(req[r].s), Leave(r),
           UNCHANGED <<cache, ids, sweeper>>
    PROVE  IInv'
  <1>1. req[r].s \in born \cup {Bogus} /\ req[r].s \in known \cup {Bogus}
    BY OneRequest DEF ReqInv, ToldInv
  <1>2. req[r].s \notin stored \ known
    BY <1>1, ConstantFacts, OneRequest DEF IInv, StoreInv, Sound
  <1>3. req' = [req EXCEPT ![r] = Idle]
    BY DEF Leave
  <1>4. /\ StoreInv' /\ CacheInv'
        /\ stored' = stored /\ meta' \in [Ids -> {"none", "fresh", "stale"}]
        /\ kept' \subseteq Ids /\ keptMeta' \subseteq Ids /\ slipped' \subseteq Ids
        /\ gauge' \in -GaugeFloor .. Cardinality(Sessions)
        /\ Tracked' = Tracked \ {req[r].s}
        /\ \A t \in Ids : meta'[t] = "stale" => meta[t] = "stale"
    BY <1>1, <1>2, MetaGoes
  <1>5. TypeOK'
    BY <1>3, <1>4, IdleInv DEF IInv, TypeOK, ids
  <1>6. SweepInv'
    BY <1>4 DEF IInv, SweepInv, ids
  <1>7. ReqInv(Idle)'
    BY ConstantFacts DEF ReqInv, Shape, FirstInv, ToldInv
  <1>8. ASSUME NEW p \in Requests \ {r}, NEW o \in Request, req[p] = o
        PROVE  ReqInv(o)' /\ (Idle.kind = "start" /\ o.kind = "start" => Idle.s # o.s)
    <2>1. ReqInv(o) /\ (o.kind = "start" => o.s # req[r].s) /\ o.s \in Ids
      BY <1>1, <1>8, ConstantFacts DEF IInv, TypeOK, ReqInv, FirstInv, Request
    <2>2. ReqInv(o)'
      BY <2>1, <1>4 DEF ReqInv, FirstInv, ToldInv, ids
    <2>3. QED
      BY <2>2, ConstantFacts
  <1>9. QED
    BY <1>3, <1>4, <1>5, <1>6, <1>7, <1>8, IdleInv, Moves

LEMMA InvDoneMeta ==
    ASSUME IInv, NEW r \in Requests, DoneMeta(r)
    PROVE  IInv'
  BY DoneGoes DEF DoneMeta, Gone

LEMMA InvDoneFails ==
    ASSUME IInv, NEW r \in Requests, DoneFails(r)
    PROVE  IInv'
  <1>1. req' = [req EXCEPT ![r] = Idle] /\ Leave(r) /\ UNCHANGED <<cache, ids, sweeper>>
    BY DEF DoneFails, Leave
  <1>2. CASE UNCHANGED <<store, count>>
    BY <1>1, <1>2, StayStep, IdleInv, ConstantFacts
  <1>3. CASE req[r].pc = "meta" /\ Gone(req[r].s)
    BY <1>1, <1>3, DoneGoes
  <1>4. QED
    BY <1>2, <1>3 DEF DoneFails, MetaFails, Gone, Uncommitted, store, count

\* The sweeper moves on: no session of a first turn is in its way.
LEMMA SweeperStep ==
    ASSUME IInv, UNCHANGED <<store, count, cache, ids, req>>, sweeper' \in Sweeper,
           \A s \in sweeper'.todo : s \in sweeper.todo \/ (s \in Ids /\ meta[s] = "stale"),
           sweeper'.pc # "meta"
    PROVE  IInv'
  <1>1. /\ stored' = stored /\ meta' = meta /\ Tracked' = Tracked
        /\ kept' = kept /\ keptMeta' = keptMeta /\ gauge' = gauge /\ slipped' = slipped
        /\ cache' = cache /\ born' = born /\ known' = known /\ req' = req
    BY DEF store, count, ids, Tracked
  <1>2. TypeOK' /\ StoreInv' /\ CacheInv'
    BY <1>1 DEF IInv, TypeOK, StoreInv, Sound, CacheInv, Countable
  <1>3. SweepInv'
    BY <1>1 DEF IInv, SweepInv, StoreInv, Sound, Tracked
  <1>4. ASSUME NEW p \in Requests, NEW o \in Request, req[p] = o PROVE ReqInv(o)'
    <2>1. ReqInv(o)
      BY <1>4 DEF IInv
    <2>2. QED
      BY <2>1, <1>1 DEF ReqInv, FirstInv, ToldInv
  <1>5. QED
    BY <1>1, <1>2, <1>3, <1>4, Beside

LEMMA InvSweeperMoves ==
    ASSUME IInv, SweepList \/ SweepListFails \/ SweepEnd
    PROVE  IInv'
  <1>1. sweeper \in Sweeper
    BY DEF IInv, TypeOK
  <1>2. CASE SweepList
    BY <1>1, <1>2, SweeperStep DEF SweepList, Sweeper
  <1>3. CASE SweepListFails
    BY <1>1, <1>3, SweeperStep DEF SweepListFails, Sweeper
  <1>4. CASE SweepEnd
    BY <1>1, <1>4, SweeperStep, ConstantFacts DEF SweepEnd
  <1>5. QED
    BY <1>2, <1>3, <1>4

LEMMA InvSweepRows ==
    ASSUME IInv, NEW s \in Ids, SweepRows(s)
    PROVE  IInv'
  <1>1. sweeper \in Sweeper /\ s \in sweeper.todo /\ s \in born \cup {Bogus}
    BY DEF IInv, TypeOK, SweepInv, SweepRows
  <1>2. /\ DeleteRows(s) /\ Uncommitted /\ UNCHANGED <<count, cache, ids>> /\ req' = req
        /\ sweeper' = [sweeper EXCEPT !.pc = "meta", !.todo = @ \ {s}, !.cur = s]
    BY DEF SweepRows
  <1>3. /\ StoreInv' /\ CacheInv'
        /\ stored' = stored \ {s} /\ meta' = meta /\ kept' = kept /\ keptMeta' = keptMeta
    BY <1>1, <1>2, RowsGo
  <1>4. /\ sweeper' \in Sweeper /\ sweeper'.pc = "meta" /\ sweeper'.cur = s
        /\ sweeper'.todo = sweeper.todo \ {s}
    BY <1>1, <1>2 DEF Sweeper
  <1>5. TypeOK'
    BY <1>2, <1>3, <1>4 DEF IInv, TypeOK, count, ids
  <1>6. SweepInv'
    BY <1>1, <1>2, <1>3, <1>4 DEF IInv, SweepInv, ids
  <1>7. ASSUME NEW p \in Requests, NEW o \in Request, req[p] = o PROVE ReqInv(o)'
    <2>1. ReqInv(o) /\ (o.kind = "start" => o.s # s)
      BY <1>1, <1>7 DEF IInv, ReqInv, FirstInv
    <2>2. Tracked' = Tracked
      BY <1>3 DEF Tracked
    <2>3. QED
      BY <2>1, <2>2, <1>2, <1>3, <1>4 DEF ReqInv, FirstInv, ToldInv, ids
  <1>8. QED
    BY <1>2, <1>3, <1>5, <1>6, <1>7, Beside

LEMMA SweepGoes ==
    ASSUME IInv, sweeper.pc = "meta", Gone(sweeper.cur), NextSweep, UNCHANGED <<cache, ids, req>>
    PROVE  IInv'
  <1> DEFINE s == sweeper.cur
  <1>1. sweeper \in Sweeper /\ sweeper.pc = "meta" /\ s \in born \cup {Bogus} /\ s \notin stored \ known
    BY DEF IInv, TypeOK, SweepInv
  <1>2. Gone(s) /\ req' = req /\ sweeper' = [sweeper EXCEPT !.pc = "sweep", !.cur = Bogus]
    BY DEF NextSweep
  <1> HIDE DEF s
  <1>3. /\ StoreInv' /\ CacheInv'
        /\ stored' = stored /\ meta' \in [Ids -> {"none", "fresh", "stale"}]
        /\ kept' \subseteq Ids /\ keptMeta' \subseteq Ids /\ slipped' \subseteq Ids
        /\ gauge' \in -GaugeFloor .. Cardinality(Sessions)
        /\ Tracked' = Tracked \ {s} /\ \A t \in Ids : meta'[t] = "stale" => meta[t] = "stale"
    BY <1>1, <1>2, MetaGoes
  <1>4. sweeper' \in Sweeper /\ sweeper'.pc = "sweep" /\ sweeper'.todo = sweeper.todo
    BY <1>1, <1>2, ConstantFacts DEF Sweeper
  <1>5. TypeOK'
    BY <1>2, <1>3, <1>4 DEF IInv, TypeOK, ids
  <1>6. SweepInv'
    BY <1>2, <1>4 DEF IInv, SweepInv, ids
  <1>7. ASSUME NEW p \in Requests, NEW o \in Request, req[p] = o PROVE ReqInv(o)'
    <2>1. ReqInv(o) /\ o.s \in Ids /\ (o.kind = "start" => o.s # s)
      BY <1>1, <1>7 DEF IInv, Request, ReqInv, FirstInv, s
    <2>2. QED
      BY <2>1, <1>2, <1>3, <1>4 DEF ReqInv, FirstInv, ToldInv, ids
  <1>8. QED
    BY <1>2, <1>3, <1>5, <1>6, <1>7, Beside

LEMMA InvSweepMeta ==
    ASSUME IInv, SweepMeta
    PROVE  IInv'
  BY SweepGoes DEF SweepMeta, Gone

LEMMA InvSweepFails ==
    ASSUME IInv, SweepFails
    PROVE  IInv'
  <1>1. sweeper \in Sweeper
    BY DEF IInv, TypeOK
  <1>2. CASE sweeper.pc = "sweep"
    <2>1. PICK s \in sweeper.todo : sweeper' = [sweeper EXCEPT !.todo = @ \ {s}]
      BY <1>2 DEF SweepFails
    <2>2. UNCHANGED <<store, count, cache, ids, req>>
      BY <1>2 DEF SweepFails
    <2>3. QED
      BY <1>1, <1>2, <2>1, <2>2, SweeperStep DEF Sweeper
  <1>3. CASE sweeper.pc = "meta" /\ NextSweep /\ UNCHANGED <<store, count, cache, ids, req>>
    BY <1>1, <1>3, SweeperStep, ConstantFacts DEF NextSweep, Sweeper
  <1>4. CASE sweeper.pc = "meta" /\ NextSweep /\ Gone(sweeper.cur)
    BY <1>4, SweepGoes DEF SweepFails
  <1>5. QED
    BY <1>2, <1>3, <1>4 DEF SweepFails, MetaFails, Gone, Uncommitted, store, count

-----------------------------------------------------------------------------
(* Time and restarts. *)

LEMMA InvAge ==
    ASSUME IInv, NEW s \in Ids, Age(s)
    PROVE  IInv'
  <1>1. /\ stored' = stored /\ kept' = kept /\ keptMeta' = keptMeta
        /\ gauge' = gauge /\ slipped' = slipped /\ cache' = cache
        /\ born' = born /\ known' = known /\ req' = req /\ sweeper' = sweeper
        /\ meta' = [meta EXCEPT ![s] = "stale"] /\ meta[s] = "fresh"
        /\ meta \in [Ids -> {"none", "fresh", "stale"}]
    BY DEF Age, count, ids, IInv, TypeOK
  <1>2. Tracked' = Tracked
    BY <1>1 DEF Tracked
  <1>3. TypeOK' /\ StoreInv' /\ CacheInv' /\ SweepInv'
    BY <1>1, <1>2 DEF IInv, TypeOK, StoreInv, Sound, CacheInv, SweepInv, Countable
  <1>4. ASSUME NEW p \in Requests, NEW o \in Request, req[p] = o PROVE ReqInv(o)'
    <2>1. ReqInv(o) /\ (o.kind = "start" => o.s # s)
      BY <1>4, OneRequest DEF Age, InTurn
    <2>2. QED
      BY <2>1, <1>1, <1>2 DEF ReqInv, FirstInv, ToldInv
  <1>5. QED
    BY <1>1, <1>3, <1>4, Beside

LEMMA InvExpire ==
    ASSUME IInv, NEW k \in Keys, Expire(k)
    PROVE  IInv'
  <1>1. /\ stored' = stored /\ meta' = meta /\ Tracked' = Tracked
        /\ kept' = kept /\ keptMeta' = keptMeta /\ gauge' = gauge /\ slipped' = slipped
        /\ born' = born /\ known' = known /\ req' = req /\ sweeper' = sweeper
        /\ cache' = [cache EXCEPT ![k] = NoEntry]
    BY DEF Expire, store, count, ids, Tracked
  <1>2. TypeOK' /\ StoreInv' /\ SweepInv'
    BY <1>1, ConstantFacts DEF IInv, TypeOK, StoreInv, Sound, SweepInv, Countable
  <1>3. CacheInv'
    BY <1>1 DEF IInv, TypeOK, CacheInv
  <1>4. ASSUME NEW p \in Requests, NEW o \in Request, req[p] = o PROVE ReqInv(o)'
    <2>1. ReqInv(o)
      BY <1>4 DEF IInv
    <2>2. QED
      BY <2>1, <1>1 DEF ReqInv, FirstInv, ToldInv
  <1>5. QED
    BY <1>1, <1>2, <1>3, <1>4, Beside

\* What was committed is back, rows and meta rows; nobody is in flight.
LEMMA InvRestart ==
    ASSUME IInv, Restart
    PROVE  IInv'
  <1>1. /\ stored' = kept /\ kept' = kept /\ keptMeta' = keptMeta /\ slipped' = {}
        /\ gauge' = 0 /\ cache' = [k \in Keys |-> NoEntry]
        /\ born' = born /\ known' = known
        /\ req' = [r \in Requests |-> Idle] /\ sweeper' = Asleep
    BY DEF Restart, ids
  <1>2. Tracked' = keptMeta /\ meta' \in [Ids -> {"none", "fresh", "stale"}]
    BY DEF Restart, Tracked, IInv, TypeOK
  <1>3. gauge' \in -GaugeFloor .. Cardinality(Sessions) /\ gauge' <= Cardinality(Countable')
    <2>1. Countable' \subseteq Sessions
      BY <1>1 DEF Countable, IInv, TypeOK
    <2>2. QED
      BY <1>1, <2>1, Counting, ConstantFacts
  <1>4. TypeOK' /\ StoreInv'
    <2>1. cache' \in [Keys -> Entry] /\ req' \in [Requests -> Request] /\ sweeper' \in Sweeper
      BY <1>1, ConstantFacts
    <2>2. TypeOK'
      BY <1>1, <1>2, <1>3, <2>1 DEF IInv, TypeOK
    <2>3. StoreInv'
      BY <1>1, <1>2, <1>3 DEF IInv, StoreInv, Sound
    <2>4. QED
      BY <2>2, <2>3
  <1>5. CacheInv' /\ SweepInv'
    BY <1>1, ConstantFacts DEF CacheInv, SweepInv
  <1>6. ASSUME NEW r \in Requests PROVE ReqInv(req[r])'
    BY <1>1, ConstantFacts DEF ReqInv, Shape, FirstInv, ToldInv
  <1>7. StartsApart'
    BY <1>1, ConstantFacts DEF StartsApart
  <1>8. QED
    BY <1>4, <1>5, <1>6, <1>7 DEF IInv

-----------------------------------------------------------------------------
(* The invariant is inductive. *)

LEMMA InvInit == Init => IInv
  <1> SUFFICES ASSUME Init PROVE IInv
    OBVIOUS
  <1>1. Tracked = {} /\ Countable = {} /\ Cardinality(Countable) = 0
    BY FS_EmptySet DEF Init, Tracked, Countable
  <1>2. TypeOK
    <2>1. gauge \in -GaugeFloor .. Cardinality(Sessions)
      BY ConstantFacts DEF Init
    <2>2. /\ cache \in [Keys -> Entry] /\ req \in [Requests -> Request] /\ sweeper \in Sweeper
          /\ meta \in [Ids -> {"none", "fresh", "stale"}]
      BY ConstantFacts DEF Init
    <2>3. QED
      BY <2>1, <2>2 DEF Init, TypeOK
  <1>3. StoreInv /\ CacheInv /\ SweepInv
    BY <1>1, ConstantFacts
    DEF Init, StoreInv, Sound, CacheInv, SweepInv
  <1>4. \A r \in Requests : ReqInv(req[r])
    BY ConstantFacts DEF Init, ReqInv, Shape, FirstInv, ToldInv
  <1>5. StartsApart
    BY ConstantFacts DEF Init, StartsApart
  <1>6. QED
    BY <1>2, <1>3, <1>4, <1>5 DEF IInv

LEMMA InvRequest ==
    ASSUME IInv, NEW r \in Requests,
           Arrive(r) \/ Step(r) \/ LegFails(r) \/ ReadFails(r) \/ DoneFails(r)
    PROVE  IInv'
  BY InvStartTurn, InvResumeTurn, InvDoneTurn, InvLook, InvCacheHit, InvCacheMiss, InvLegTouches,
     InvLegPut, InvRespond, InvDoneRows, InvDoneMeta, InvLegFails, InvDoneFails
  DEF Arrive, Step

LEMMA InvStutter ==
    ASSUME IInv, UNCHANGED vars
    PROVE  IInv'
  BY DEF vars, store, count, ids, IInv, TypeOK, StoreInv, Sound, CacheInv, SweepInv, ReqInv, Shape, FirstInv,
         ToldInv, StartsApart, Countable, Tracked

LEMMA InvNext == IInv /\ [Next]_vars => IInv'
  BY InvRequest, InvSweeperMoves, InvSweepRows, InvSweepMeta, InvSweepFails, InvAge, InvExpire,
     InvRestart, InvStutter
  DEF Next, Sweep

LEMMA Inductive == Spec => []IInv
  BY InvInit, InvNext, PTL DEF Spec

-----------------------------------------------------------------------------
(* The properties. *)

\* The variables of the server keep their types; the gauge stays within the number of
\* sessions.
THEOREM TypeCorrect == Spec => []TypeOK
  <1>1. IInv => TypeOK
    BY DEF IInv
  <1>2. QED
    BY <1>1, Inductive, PTL

\* active_sessions never counts a session the sweeper cannot find, unless its deletion
\* failed at its commit, for any number of requests and sessions.
THEOREM GaugeIsTracked == Spec => []CountedSessionsAreTracked
  <1>1. IInv => CountedSessionsAreTracked
    <2> SUFFICES ASSUME IInv PROVE gauge <= Cardinality(Tracked \cup slipped)
      BY DEF CountedSessionsAreTracked
    <2>1. IsFiniteSet(Ids)
      BY ConstantFacts, FS_AddElement DEF Ids
    <2>2. Tracked \cup slipped \subseteq Ids
      BY DEF Tracked, IInv, TypeOK
    <2>3. IsFiniteSet(Tracked \cup slipped) /\ Cardinality(Tracked \cup slipped) \in Nat
      BY <2>1, <2>2, FS_Subset, FS_CardinalityType
    <2>4. Cardinality(Countable) <= Cardinality(Tracked \cup slipped)
      BY <2>3, FS_Subset DEF Countable
    <2>5. QED
      BY <2>3, <2>4, CountableFacts
  <1>2. QED
    BY <1>1, Inductive, PTL

\* A session that no client can close has a row the sweeper will find.
THEOREM OrphansHaveRows == Spec => []OrphansAreTracked
  <1>1. IInv => OrphansAreTracked
    BY DEF IInv, StoreInv, Sound, OrphansAreTracked
  <1>2. QED
    BY <1>1, Inductive, PTL

\* No deletion takes the checkpoint from under a first turn.
THEOREM FirstTurnsKeepTheirRows == Spec => []FirstTurnIsUndisturbed
  <1>1. IInv => FirstTurnIsUndisturbed
    BY DEF IInv, ReqInv, FirstInv, FirstTurnIsUndisturbed
  <1>2. QED
    BY <1>1, Inductive, PTL

-----------------------------------------------------------------------------
(* A session that is gone stays gone. *)

\* A step that stores nothing under s, and lets no request past its lookup with it.
LEMMA DeadMoves ==
    ASSUME IInv, NEW s, Dead(s), NEW r \in Requests, NEW q \in Request,
           req' = [req EXCEPT ![r] = q],
           s \notin stored' \cup kept',
           q.s = s /\ q.pc \in TurnSteps => q.pc = "lookup"
    PROVE  Dead(s)'
  <1>1. req'[r] = q /\ \A p \in Requests \ {r} : req'[p] = req[p]
    BY DEF IInv, TypeOK
  <1>2. QED
    BY <1>1 DEF Dead, InTurn

\* Goto leads a request of s no further, unless it is past its lookup.
LEMMA DeadGoes ==
    ASSUME IInv, NEW s, Dead(s), NEW r \in Requests, NEW p \in TurnSteps \cup DoneSteps,
           Goto(r, p), s \notin stored' \cup kept',
           p \in TurnSteps => req[r].pc \in TurnSteps /\ (req[r].pc = "lookup" => req[r].s # s)
    PROVE  Dead(s)'
  <1>1. PICK q \in Request : /\ q.pc = p /\ q.kind = req[r].kind /\ q.s = req[r].s
                             /\ q.key = req[r].key /\ req' = [req EXCEPT ![r] = q]
    BY Moved
  <1>2. q.s = s /\ q.pc \in TurnSteps => q.pc = "lookup"
    BY <1>1 DEF Dead, InTurn
  <1>3. QED
    BY <1>1, <1>2, DeadMoves

LEMMA DeadLeaves ==
    ASSUME IInv, NEW s, Dead(s), NEW r \in Requests, Leave(r), s \notin stored' \cup kept'
    PROVE  Dead(s)'
  BY DeadMoves, ConstantFacts DEF Leave, TurnSteps, LegSteps

\* A request comes: a first turn has another session, and any other turn looks up first.
LEMMA DeadArrive ==
    ASSUME IInv, NEW s \in born \cup {Bogus}, Dead(s), NEW r \in Requests, Arrive(r)
    PROVE  Dead(s)'
  <1>1. s \notin stored' \cup kept'
    BY DEF Arrive, StartTurn, ResumeTurn, DoneTurn, Dead, store
  <1>2. PICK q : /\ req' = [req EXCEPT ![r] = q] /\ q.pc \in {"cache", "lookup", "check"}
                 /\ q.pc = "cache" => q.s \in Sessions \ born
    BY DEF Arrive, StartTurn, ResumeTurn, DoneTurn
  <1>3. req'[r] = q /\ \A p \in Requests \ {r} : req'[p] = req[p]
    BY <1>2 DEF IInv, TypeOK
  <1>4. q.s = s /\ q.pc \in TurnSteps => q.pc = "lookup"
    BY <1>2, ConstantFacts DEF TurnSteps, LegSteps
  <1>5. QED
    BY <1>1, <1>3, <1>4 DEF Dead, InTurn

LEMMA DeadStep ==
    ASSUME IInv, NEW s \in born \cup {Bogus}, Dead(s), NEW r \in Requests, Step(r)
    PROVE  Dead(s)'
  <1>1. s \notin stored' \cup kept'
    <2>1. req[r].pc \in {"leg", "more"} => req[r].s # s
      BY DEF Dead, InTurn, TurnSteps, LegSteps
    <2>2. QED
      BY <2>1
      DEF Step, Dead, Lookup, TurnN, CacheHit, CacheMiss, LegLoad, LegPut, LegTouch, Drain,
          Respond, DoneCheck, DoneRows, DoneMeta, GetTuple, Touch, PutRow, DeleteRows, DeleteMeta,
          Commit, Uncommitted, store
  <1>2. \/ Leave(r)
        \/ \E p \in TurnSteps \cup DoneSteps :
              /\ Goto(r, p)
              /\ p \in TurnSteps => /\ req[r].pc \in TurnSteps
                                    /\ req[r].pc = "lookup" => req[r].s \in stored
    BY DEF Step, Lookup, TurnN, CacheHit, CacheMiss, LegLoad, LegPut, LegTouch, Drain, Respond,
           DoneCheck, DoneRows, DoneMeta, TurnSteps, LegSteps, DoneSteps
  <1>3. QED
    BY <1>1, <1>2, DeadLeaves, DeadGoes DEF Dead

\* Everything else makes no rows and moves no request.
LEMMA DeadElsewhere ==
    ASSUME IInv, NEW s, Dead(s), UNCHANGED req, stored' \cup kept' \subseteq stored \cup kept
    PROVE  Dead(s)'
  BY DEF Dead, InTurn

LEMMA DeadNext ==
    ASSUME IInv, NEW s \in born \cup {Bogus}, Dead(s), Next
    PROVE  Dead(s)'
  <1>1. ASSUME NEW r \in Requests,
               Arrive(r) \/ Step(r) \/ LegFails(r) \/ ReadFails(r) \/ DoneFails(r)
        PROVE  Dead(s)'
    <2>1. CASE LegFails(r) \/ ReadFails(r) \/ DoneFails(r)
      <3>1. req[r].pc \in {"leg", "more"} => req[r].s # s
        BY DEF Dead, InTurn, TurnSteps, LegSteps
      <3>2. s \notin stored' \cup kept'
        BY <2>1, <3>1
        DEF LegFails, ReadFails, DoneFails, MetaFails, Touch, PutRow, DeleteMeta, Uncommitted,
            store, Dead
      <3>3. QED
        BY <2>1, <3>2, DeadLeaves DEF LegFails, ReadFails, DoneFails
    <2>2. QED
      BY <1>1, <2>1, DeadArrive, DeadStep
  <1>2. CASE Restart
    <2>1. \A r \in Requests : req'[r] = Idle
      BY <1>2 DEF Restart
    <2>2. QED
      BY <1>2, <2>1, ConstantFacts DEF Restart, Dead, InTurn, TurnSteps, LegSteps
  <1>3. CASE Sweep \/ SweepListFails \/ SweepFails
    BY <1>3, DeadElsewhere
    DEF Sweep, SweepList, SweepRows, SweepMeta, SweepEnd, SweepListFails, SweepFails,
        MetaFails, DeleteRows, DeleteMeta, Commit, Uncommitted, store
  <1>4. ASSUME NEW t \in Ids, Age(t) PROVE Dead(s)'
    BY <1>4, DeadElsewhere DEF Age
  <1>5. ASSUME NEW k \in Keys, Expire(k) PROVE Dead(s)'
    BY <1>5, DeadElsewhere DEF Expire, store
  <1>6. QED
    BY <1>1, <1>2, <1>3, <1>4, <1>5 DEF Next

\* A 404 is final: no request, retry, sweep, failed deletion or restart brings a session
\* back that has no rows and no turn past its lookup.
THEOREM DeadSessionsStayDead == Spec => DeadStaysDead
  <1>1. IInv /\ [Next]_vars => [\A s \in born \cup {Bogus} : Dead(s) => Dead(s)']_vars
    BY DeadNext
  <1>2. QED
    BY <1>1, Inductive, PTL DEF Spec, DeadStaysDead

=============================================================================
