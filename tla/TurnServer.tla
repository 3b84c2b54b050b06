----------------------------- MODULE TurnServer -----------------------------
(***************************************************************************)
(* The HTTP server around the graph (src/server): requests to /turn and    *)
(* /done interleave on one event loop with each other and with the         *)
(* sweeper; they share the checkpoint store, the idempotency cache and the *)
(* active_sessions gauge.  An action is what runs between two awaits that  *)
(* can suspend.                                                            *)
(*                                                                         *)
(* What a leg of the graph computes is DecisionGraph's matter: here a leg  *)
(* is its accesses to the store.  All statements go through one SQLite     *)
(* connection: a commit, whoever's it is, commits all that was executed    *)
(* before it, and a statement whose commit fails or is cancelled stays     *)
(* executed.                                                               *)
(***************************************************************************)
EXTENDS Integers, FiniteSets

CONSTANTS Sessions,    \* the uuids new sessions may get
          Bogus,       \* an id no session ever has
          Requests,    \* slots for requests in flight
          Headers,     \* well-formed Idempotency-Key values
          Messages,    \* texts of a turn
          NoKey,       \* stands for the absent key
          Faults,      \* what may fail: "read", "leg", "delete", "list", "crash"
          GaugeFloor   \* bound: the gauge saturates at -GaugeFloor

ASSUME ServerAssumption ==
    /\ Bogus \notin Sessions
    /\ IsFiniteSet(Sessions)
    /\ GaugeFloor \in Nat /\ GaugeFloor >= Cardinality(Sessions)
    /\ Faults \subseteq {"read", "leg", "delete", "list", "crash"}

VARIABLES stored,   \* ids with checkpoint rows, as the connection sees them
          meta,     \* the row of _brainstorm_meta: none, fresh, or past the threshold
          kept,     \* ids with checkpoint rows, as committed
          keptMeta, \* ids with a row of _brainstorm_meta, as committed
          gauge,    \* active_sessions
          slipped,  \* history: ids whose last deletion failed at its commit
          cache,    \* the idempotency cache
          born,     \* uuids drawn
          known,    \* session ids some client was told
          req,      \* the requests in flight
          sweeper   \* the sweeper task

store == <<stored, meta, kept, keptMeta>>
count == <<gauge, slipped>>
ids == <<born, known>>
vars == <<store, count, cache, ids, req, sweeper>>

Ids == Sessions \cup {Bogus}

\* turn_n is not part of it: it is 0 on every turn, because the graph's state has
\* no "messages" channel.
KeyOf(s, m) == [session |-> s, message |-> m]
Keys == Headers \cup [session : Ids, message : Messages]

Entry == [s : Ids, state : {"none", "running", "done"}]
NoEntry == [s |-> Bogus, state |-> "none"]

Kinds == {"none", "start", "resume", "done"}
LegSteps == {"load", "leg", "touch", "more", "reply"}
TurnSteps == {"lookup", "turn_n", "cache"} \cup LegSteps
DoneSteps == {"check", "rows", "meta"}
Request == [pc : {"idle"} \cup TurnSteps \cup DoneSteps, kind : Kinds,
            s : Ids, key : Keys \cup {NoKey}]
Idle == [pc |-> "idle", kind |-> "none", s |-> Bogus, key |-> NoKey]

Sweeper == [pc : {"sleep", "sweep", "meta", "dead"}, todo : SUBSET Ids, cur : Ids]
Asleep == [pc |-> "sleep", todo |-> {}, cur |-> Bogus]

Init ==
    /\ stored = {} /\ meta = [s \in Ids |-> "none"]
    /\ kept = {} /\ keptMeta = {}
    /\ gauge = 0 /\ slipped = {}
    /\ cache = [k \in Keys |-> NoEntry]
    /\ born = {} /\ known = {}
    /\ req = [r \in Requests |-> Idle]
    /\ sweeper = Asleep

InLeg(r) == req[r].pc \in LegSteps
InTurn(r) == req[r].pc \in TurnSteps

-----------------------------------------------------------------------------
(* The store: TouchingCheckpointer.  The steps are SessionStore's: each       *)
(* statement changes what the connection sees; a commit makes it durable.     *)

Tracked == {s \in Ids : meta[s] # "none"}

Commit == kept' = stored' /\ keptMeta' = Tracked'
Uncommitted == UNCHANGED <<kept, keptMeta>>

Touch(s) ==
    /\ meta' = [meta EXCEPT ![s] = "fresh"]
    /\ UNCHANGED stored

\* aget_tuple touches whether or not there is a checkpoint.
GetTuple(s) == Touch(s) /\ Commit

\* aput before its touch.
PutRow(s) ==
    /\ stored' = stored \cup {s}
    /\ UNCHANGED meta

\* adelete_thread: the rows go first, the meta row and the commit last.
DeleteRows(s) ==
    /\ stored' = stored \ {s}
    /\ UNCHANGED meta

DeleteMeta(s) ==
    /\ meta' = [meta EXCEPT ![s] = "none"]
    /\ UNCHANGED stored

\* A deletion has succeeded.
Dec(s) ==
    /\ gauge' = IF gauge > -GaugeFloor THEN gauge - 1 ELSE gauge
    /\ slipped' = slipped \ {s}

Goto(r, pc) == req' = [req EXCEPT ![r].pc = pc]
Leave(r) == req' = [req EXCEPT ![r] = Idle]

-----------------------------------------------------------------------------
(* POST /turn. *)

\* The key is the header's value when there is one, else the one derived from
\* session, message and turn_n.
KeysFor(s) == Headers \cup {KeyOf(s, m) : m \in Messages}

\* Without a session_id a new uuid is drawn, and nothing is looked up.
StartTurn(r) ==
    /\ req[r].pc = "idle"
    /\ \E s \in Sessions \ born : \E k \in KeysFor(s) :
          /\ born' = born \cup {s}
          /\ req' = [req EXCEPT ![r] = [pc |-> "cache", kind |-> "start", s |-> s, key |-> k]]
    /\ UNCHANGED <<store, count, cache, known, sweeper>>

\* A client resumes a session it was told of, or sends an id that never was one.
ResumeTurn(r) ==
    /\ req[r].pc = "idle"
    /\ \E s \in known \cup {Bogus} : \E k \in KeysFor(s) :
          req' = [req EXCEPT ![r] = [pc |-> "lookup", kind |-> "resume", s |-> s, key |-> k]]
    /\ UNCHANGED <<store, count, cache, ids, sweeper>>

\* Mutant: no 404.
MutLookup(r) ==
    /\ req[r].pc = "lookup"
    /\ GetTuple(req[r].s)
    /\ Goto(r, "turn_n")
    /\ UNCHANGED <<count, cache, ids, sweeper>>

\* 404 when there is no checkpoint.
Lookup(r) ==
    /\ req[r].pc = "lookup"
    /\ GetTuple(req[r].s)
    /\ IF req[r].s \in stored THEN Goto(r, "turn_n") ELSE Leave(r)
    /\ UNCHANGED <<count, cache, ids, sweeper>>

TurnN(r) ==
    /\ req[r].pc = "turn_n"
    /\ GetTuple(req[r].s)
    /\ Goto(r, "cache")
    /\ UNCHANGED <<count, cache, ids, sweeper>>

\* The cached reply is returned as it is: it names its own session.
CacheHit(r) ==
    /\ req[r].pc = "cache"
    /\ cache[req[r].key] # NoEntry
    /\ known' = known \cup {cache[req[r].key].s}
    /\ Leave(r)
    /\ UNCHANGED <<store, count, cache, born, sweeper>>

CacheMiss(r) ==
    /\ req[r].pc = "cache"
    /\ cache[req[r].key] = NoEntry
    /\ Goto(r, "load")
    /\ UNCHANGED <<store, count, cache, ids, sweeper>>

\* Mutant: the first read does not touch the session.
MutLegLoad(r) ==
    /\ req[r].pc = "load"
    /\ Goto(r, "leg")
    /\ UNCHANGED <<store, count, cache, ids, sweeper>>

\* The graph reads the latest checkpoint (aupdate_state or astream).
LegLoad(r) ==
    /\ req[r].pc = "load"
    /\ GetTuple(req[r].s)
    /\ Goto(r, "leg")
    /\ UNCHANGED <<count, cache, ids, sweeper>>

\* A leg puts one checkpoint or more; a put makes rows of a deleted session again.
LegPut(r) ==
    /\ req[r].pc \in {"leg", "more"}
    /\ PutRow(req[r].s) /\ Commit
    /\ Goto(r, "touch")
    /\ UNCHANGED <<count, cache, ids, sweeper>>

LegTouch(r) ==
    /\ req[r].pc = "touch"
    /\ Touch(req[r].s) /\ Commit
    /\ Goto(r, "more")
    /\ UNCHANGED <<count, cache, ids, sweeper>>

\* The stream is over: aget_state reads the checkpoint for the sentinel.
Drain(r) ==
    /\ req[r].pc = "more"
    /\ GetTuple(req[r].s)
    /\ Goto(r, "reply")
    /\ UNCHANGED <<count, cache, ids, sweeper>>

\* The gauge counts a new session, the reply is cached and returned.
Respond(r) ==
    /\ req[r].pc = "reply"
    /\ gauge' = IF req[r].kind = "start" THEN gauge + 1 ELSE gauge
    /\ cache' = [cache EXCEPT ![req[r].key] =
                    [s |-> req[r].s,
                     state |-> IF req[r].kind = "start" THEN "running" ELSE "done"]]
    /\ known' = known \cup {req[r].s}
    /\ Leave(r)
    /\ UNCHANGED <<store, slipped, born, sweeper>>

\* wait_for times out (408), or a node or the saver raises: the leg stops where it is.
\* The statement it was at may have been executed, without its commit.
LegFails(r) ==
    /\ "leg" \in Faults
    /\ InLeg(r)
    /\ \/ UNCHANGED <<stored, meta>>
       \/ req[r].pc \in {"leg", "more"} /\ PutRow(req[r].s)
       \/ req[r].pc \in {"load", "touch", "more"} /\ Touch(req[r].s)
    /\ Uncommitted
    /\ Leave(r)
    /\ UNCHANGED <<count, cache, ids, sweeper>>

\* A read outside of a leg, of a turn or of /done, fails before its touch or at the
\* commit of it.
ReadFails(r) ==
    /\ "read" \in Faults
    /\ req[r].pc \in {"lookup", "turn_n", "check"}
    /\ UNCHANGED <<stored, meta>> \/ Touch(req[r].s)
    /\ Uncommitted
    /\ Leave(r)
    /\ UNCHANGED <<count, cache, ids, sweeper>>

-----------------------------------------------------------------------------
(* POST /done. *)

DoneTurn(r) ==
    /\ req[r].pc = "idle"
    /\ \E s \in known \cup {Bogus} :
          req' = [req EXCEPT ![r] = [pc |-> "check", kind |-> "done", s |-> s, key |-> NoKey]]
    /\ UNCHANGED <<store, count, cache, ids, sweeper>>

DoneCheck(r) ==
    /\ req[r].pc = "check"
    /\ GetTuple(req[r].s)
    /\ IF req[r].s \in stored THEN Goto(r, "rows") ELSE Leave(r)
    /\ UNCHANGED <<count, cache, ids, sweeper>>

DoneRows(r) ==
    /\ req[r].pc = "rows"
    /\ DeleteRows(req[r].s) /\ Uncommitted
    /\ Goto(r, "meta")
    /\ UNCHANGED <<count, cache, ids, sweeper>>

DoneMeta(r) ==
    /\ req[r].pc = "meta"
    /\ DeleteMeta(req[r].s) /\ Commit
    /\ Dec(req[r].s)
    /\ Leave(r)
    /\ UNCHANGED <<cache, ids, sweeper>>

\* A deletion of s fails at its last statement, or at the commit of it.
MetaFails(s) ==
    /\ \/ UNCHANGED <<stored, meta, slipped>>
       \/ DeleteMeta(s) /\ slipped' = slipped \cup {s}
    /\ Uncommitted /\ UNCHANGED gauge

\* The error is logged and swallowed; nothing is rolled back.
DoneFails(r) ==
    /\ "delete" \in Faults
    /\ \/ req[r].pc = "rows" /\ UNCHANGED <<store, count>>
       \/ req[r].pc = "meta" /\ MetaFails(req[r].s)
    /\ Leave(r)
    /\ UNCHANGED <<cache, ids, sweeper>>

-----------------------------------------------------------------------------
(* The sweeper and the passing of time. *)

SweepList ==
    /\ sweeper.pc = "sleep"
    /\ \E s \in Ids : meta[s] = "stale"
    /\ sweeper' = [sweeper EXCEPT !.pc = "sweep", !.todo = {s \in Ids : meta[s] = "stale"}]
    /\ UNCHANGED <<store, count, cache, ids, req>>

\* list_stale is called outside the try block: its error ends run().
SweepListFails ==
    /\ "list" \in Faults
    /\ sweeper.pc = "sleep"
    /\ sweeper' = [sweeper EXCEPT !.pc = "dead"]
    /\ UNCHANGED <<store, count, cache, ids, req>>

\* Mutant: the meta row is left when there were no rows.
MutSweepRows(s) ==
    /\ sweeper.pc = "sweep" /\ s \in sweeper.todo
    /\ DeleteRows(s) /\ Uncommitted
    /\ sweeper' = IF s \in stored THEN [sweeper EXCEPT !.pc = "meta", !.todo = @ \ {s}, !.cur = s]
                  ELSE [sweeper EXCEPT !.todo = @ \ {s}]
    /\ UNCHANGED <<count, cache, ids, req>>

SweepRows(s) ==
    /\ sweeper.pc = "sweep" /\ s \in sweeper.todo
    /\ DeleteRows(s) /\ Uncommitted
    /\ sweeper' = [sweeper EXCEPT !.pc = "meta", !.todo = @ \ {s}, !.cur = s]
    /\ UNCHANGED <<count, cache, ids, req>>

NextSweep == sweeper' = [sweeper EXCEPT !.pc = "sweep", !.cur = Bogus]

\* Mutant: the sweeper does not decrement.
MutSweepMeta ==
    /\ sweeper.pc = "meta"
    /\ DeleteMeta(sweeper.cur) /\ Commit
    /\ NextSweep
    /\ UNCHANGED <<count, cache, ids, req>>

SweepMeta ==
    /\ sweeper.pc = "meta"
    /\ DeleteMeta(sweeper.cur) /\ Commit
    /\ Dec(sweeper.cur)
    /\ NextSweep
    /\ UNCHANGED <<cache, ids, req>>

\* One failing deletion does not stop the sweep, whichever statement fails.
SweepFails ==
    /\ "delete" \in Faults
    /\ \/ /\ sweeper.pc = "sweep"
          /\ \E s \in sweeper.todo : sweeper' = [sweeper EXCEPT !.todo = @ \ {s}]
          /\ UNCHANGED <<store, count>>
       \/ sweeper.pc = "meta" /\ MetaFails(sweeper.cur) /\ NextSweep
    /\ UNCHANGED <<cache, ids, req>>

SweepEnd ==
    /\ sweeper.pc = "sweep" /\ sweeper.todo = {}
    /\ sweeper' = Asleep
    /\ UNCHANGED <<store, count, cache, ids, req>>

\* Mutant: a threshold shorter than a turn.
MutAge(s) ==
    /\ meta[s] = "fresh"
    /\ meta' = [meta EXCEPT ![s] = "stale"]
    /\ UNCHANGED <<stored, kept, keptMeta, count, cache, ids, req, sweeper>>

\* Config keeps the threshold at five turn timeouts or more, and a turn touches
\* its session when it begins: a row never ages under a turn.
Age(s) ==
    /\ meta[s] = "fresh"
    /\ \A r \in Requests : req[r].s = s => ~InTurn(r)
    /\ meta' = [meta EXCEPT ![s] = "stale"]
    /\ UNCHANGED <<stored, kept, keptMeta, count, cache, ids, req, sweeper>>

Expire(k) ==
    /\ cache[k] # NoEntry
    /\ cache' = [cache EXCEPT ![k] = NoEntry]
    /\ UNCHANGED <<store, count, ids, req, sweeper>>

\* The process restarts with what was committed; what lived in memory is gone.  A row
\* that was past the threshold still is.
Restart ==
    /\ "crash" \in Faults
    /\ stored' = kept
    /\ meta' = [s \in Ids |-> IF s \notin keptMeta THEN "none"
                             ELSE IF meta[s] = "stale" THEN "stale" ELSE "fresh"]
    /\ gauge' = 0 /\ slipped' = {}
    /\ cache' = [k \in Keys |-> NoEntry]
    /\ req' = [r \in Requests |-> Idle]
    /\ sweeper' = Asleep
    /\ UNCHANGED <<kept, keptMeta, ids>>

-----------------------------------------------------------------------------

Arrive(r) == StartTurn(r) \/ ResumeTurn(r) \/ DoneTurn(r)

Step(r) ==
    \/ Lookup(r) \/ TurnN(r) \/ CacheHit(r) \/ CacheMiss(r)
    \/ LegLoad(r) \/ LegPut(r) \/ LegTouch(r) \/ Drain(r) \/ Respond(r)
    \/ DoneCheck(r) \/ DoneRows(r) \/ DoneMeta(r)

Sweep == SweepList \/ (\E s \in Ids : SweepRows(s)) \/ SweepMeta \/ SweepEnd

Next ==
    \/ \E r \in Requests : Arrive(r) \/ Step(r) \/ LegFails(r) \/ ReadFails(r) \/ DoneFails(r)
    \/ Sweep \/ SweepListFails \/ SweepFails
    \/ \E s \in Ids : Age(s)
    \/ \E k \in Keys : Expire(k)
    \/ Restart

Spec == Init /\ [][Next]_vars

\* The loop runs the sweeper, and a database error is not repeated for ever.
FairSpec ==
    /\ Spec
    /\ WF_vars(Sweep)
    /\ \A s \in Ids : SF_vars(SweepRows(s)) /\ SF_vars(sweeper.cur = s /\ SweepMeta)

-----------------------------------------------------------------------------
(* Properties. *)

\* Every variable keeps its type; the gauge stays within what the ids allow.
TypeOK ==
    /\ stored \subseteq Ids
    /\ meta \in [Ids -> {"none", "fresh", "stale"}]
    /\ kept \subseteq Ids /\ keptMeta \subseteq Ids /\ slipped \subseteq Ids
    /\ gauge \in -GaugeFloor .. Cardinality(Sessions)
    /\ cache \in [Keys -> Entry]
    /\ born \subseteq Sessions
    /\ known \subseteq born
    /\ req \in [Requests -> Request]
    /\ sweeper \in Sweeper

\* A deletion that fails at its commit is the only one that leaves the gauge counting a
\* session the sweeper cannot find: however requests, timeouts, deletions that fail
\* elsewhere and restarts interleave, the gauge is at most the number of rows of
\* _brainstorm_meta and of such sessions.
CountedSessionsAreTracked == gauge <= Cardinality(Tracked \cup slipped)

\* A session left behind by a first turn that failed, which no client can ever
\* close, always has a row the sweeper will find.
OrphansAreTracked == stored \ known \subseteq Tracked

\* Nothing takes the checkpoint from under a first turn.
FirstTurnIsUndisturbed ==
    \A r \in Requests :
        req[r].kind = "start" /\ req[r].pc \in {"touch", "more", "reply"} => req[r].s \in stored

\* Without rows, committed or not, and without a turn that has passed its lookup.
Dead(s) ==
    /\ s \notin stored \cup kept
    /\ \A r \in Requests : req[r].s = s /\ InTurn(r) => req[r].pc = "lookup"

\* A session that is gone stays gone, whatever clients send, time out or retry and
\* wherever the process restarts: a 404 is final.
DeadStaysDead == [][\A s \in born \cup {Bogus} : Dead(s) => Dead(s)']_vars

\* A row past the threshold is swept, ghost rows included, unless a client comes
\* back to it.
StaleEventuallySwept == \A s \in Ids : meta[s] = "stale" ~> meta[s] # "stale"

(* What the comments say and the code does not do. *)

\* README.md: requests with the same key do not invoke the LLM twice.
NoDuplicateRuns ==
    \A r1, r2 \in Requests :
        r1 # r2 /\ InLeg(r1) /\ InLeg(r2) => req[r1].key # req[r2].key

=============================================================================
