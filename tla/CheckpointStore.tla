--------------------------- MODULE CheckpointStore ---------------------------
(***************************************************************************)
(* TouchingCheckpointer (src/server/checkpoint_factory.py) statement by    *)
(* statement, and the lifespan that opens and closes it                    *)
(* (src/server/app_factory.py).                                            *)
(*                                                                         *)
(* Every operation of every request and of the sweeper goes through one    *)
(* SQLite connection, whose thread executes the statements in the order    *)
(* they were issued.  So a statement takes effect where it is issued, even *)
(* when its await is cancelled; it is durable from the next commit on,     *)
(* whoever commits; closing the connection or losing the process rolls     *)
(* back the rest.  The lock of AsyncSqliteSaver covers its own statements, *)
(* not those of the adapter.                                               *)
(***************************************************************************)
EXTENDS Naturals

CONSTANTS Threads,    \* thread_ids
          Clients,    \* requests in flight
          Sweeper,    \* the sweeper task
          NoThread,   \* stands for no thread
          MaxPuts     \* bound: rows put in a behaviour

ASSUME StoreAssumption ==
    /\ Sweeper \notin Clients /\ NoThread \notin Threads
    /\ MaxPuts \in Nat

VARIABLES phase,    \* where the lifespan is
          conn,     \* the connection is open
          view,     \* the rows the connection sees
          disk,     \* the rows committed
          op,       \* what each request and the sweeper are doing
          made,     \* number of rows put so far
          acked,    \* history: rows whose put has returned
          wiped,    \* history: rows a DELETE has removed
          buried,   \* history: rows whose adelete_thread has returned
          crossed   \* history: threads deleted under a request that uses them

rows == <<view, disk>>
history == <<acked, wiped, buried, crossed>>
vars == <<phase, conn, rows, op, made, history>>

Actors == Clients \cup {Sweeper}
DataTables == {"checkpoints", "writes"}
DataRow == [tbl : DataTables, t : Threads, n : 1 .. MaxPuts]
MetaRow(t) == [tbl |-> "meta", t |-> t, n |-> 0]
Row == DataRow \cup {MetaRow(t) : t \in Threads}

Of(tbl, t) == {r \in view : r.tbl = tbl /\ r.t = t}

\* pc is the statement to be issued next; after the touch the actor goes to "then".
\* put holds the row of the put in progress.
Op == [pc : {"off", "idle", "open", "ready", "put", "touch", "touched",
             "checkpoints", "writes", "meta", "deleted"},
       t : Threads \cup {NoThread},
       kind : {"none", "leg", "done", "sweep"},
       then : {"idle", "ready", "checkpoints"},
       put : SUBSET DataRow]
Idle == [pc |-> "idle", t |-> NoThread, kind |-> "none", then |-> "idle", put |-> {}]
Off == [Idle EXCEPT !.pc = "off"]
Asleep == [Idle EXCEPT !.kind = "sweep"]

Init ==
    /\ phase = "down" /\ conn = FALSE
    /\ view = {} /\ disk = {}
    /\ op = [a \in Actors |-> IF a = Sweeper THEN Off ELSE Idle]
    /\ made = 0
    /\ acked = {} /\ wiped = {} /\ buried = {} /\ crossed = {}

Locked == \E a \in Actors : op[a].pc = "put"
Goto(a, pc) == op' = [op EXCEPT ![a].pc = pc]
Commit == disk' = view /\ UNCHANGED view

-----------------------------------------------------------------------------
(* The lifespan. *)

OpenConnection ==
    /\ phase = "down"
    /\ phase' = "setup" /\ conn' = TRUE
    /\ UNCHANGED <<rows, op, made, history>>

\* setup() creates the tables that are missing; the LLM client, the metrics and the
\* cache are built; then the sweeper starts and requests are served.
Serve ==
    /\ phase = "setup"
    /\ phase' = "serving"
    /\ op' = [op EXCEPT ![Sweeper] = Asleep]
    /\ UNCHANGED <<conn, rows, made, history>>

\* setup() or one of the builders raises: the finally clause runs.
StartFails ==
    /\ phase = "setup"
    /\ phase' = "closing"
    /\ UNCHANGED <<conn, rows, op, made, history>>

\* The HTTP server lets the requests in flight end first.
ShutDown ==
    /\ phase = "serving"
    /\ \A c \in Clients : op[c] = Idle
    /\ phase' = "stopping"
    /\ UNCHANGED <<conn, rows, op, made, history>>

\* Mutant: the sweeper is not cancelled.
MutStopSweeper ==
    /\ phase = "stopping"
    /\ phase' = "closing"
    /\ UNCHANGED <<conn, rows, op, made, history>>

\* cancel() and the await of the task: whatever it was waiting for, it issues no
\* further statement.
StopSweeper ==
    /\ phase = "stopping"
    /\ phase' = "closing"
    /\ op' = [op EXCEPT ![Sweeper] = Off]
    /\ UNCHANGED <<conn, rows, made, history>>

Rollback ==
    /\ view' = disk
    /\ wiped' = wiped \ disk
    /\ UNCHANGED <<disk, acked, buried, crossed>>

CloseConnection ==
    /\ phase = "closing"
    /\ phase' = "down" /\ conn' = FALSE
    /\ Rollback
    /\ UNCHANGED <<op, made>>

\* The process is killed; the next start finds what was committed.
Crash ==
    /\ phase # "down"
    /\ phase' = "down" /\ conn' = FALSE
    /\ Rollback
    /\ op' = [a \in Actors |-> IF a = Sweeper THEN Off ELSE Idle]
    /\ UNCHANGED made

-----------------------------------------------------------------------------
(* Requests: a leg reads its thread first and then reads and puts as it       *)
(* pleases; /done reads, and deletes what it has found.                       *)

Deleting(a, t) == op[a].t = t /\ op[a].pc \in DataTables \cup {"meta", "deleted"}

Begin(c, k, t) ==
    /\ phase = "serving"
    /\ op[c] = Idle
    /\ op' = [op EXCEPT ![c] = [Idle EXCEPT !.pc = "open", !.t = t, !.kind = k]]
    /\ crossed' = IF \E a \in Actors : Deleting(a, t) THEN crossed \cup {t} ELSE crossed
    /\ UNCHANGED <<phase, conn, rows, made, acked, wiped, buried>>

Found(c) == Of("checkpoints", op[c].t) # {}

\* What follows the read: a leg goes on; handle_done deletes what it has found.
After(c) == IF op[c].kind = "leg" THEN "ready" ELSE IF Found(c) THEN "checkpoints" ELSE "idle"

\* Mutant: only a thread that has a checkpoint is touched.
MutSelect(c) ==
    /\ op[c].pc \in {"open", "ready"}
    /\ ~Locked
    /\ op' = [op EXCEPT ![c].pc = IF Found(c) \/ op[c].kind = "done" THEN "touch" ELSE "ready",
                        ![c].then = After(c)]
    /\ UNCHANGED <<phase, conn, rows, made, history>>

\* aget and aget_tuple: the saver's SELECTs, then a touch whatever they found.
Select(c) ==
    /\ op[c].pc \in {"open", "ready"}
    /\ ~Locked
    /\ op' = [op EXCEPT ![c].pc = "touch", ![c].then = After(c)]
    /\ UNCHANGED <<phase, conn, rows, made, history>>

\* aput and aput_writes: the saver's INSERT, with the lock held until its commit.
Insert(c, tbl) ==
    /\ op[c].pc = "ready"
    /\ ~Locked
    /\ made < MaxPuts
    /\ LET r == [tbl |-> tbl, t |-> op[c].t, n |-> made + 1]
       IN /\ view' = view \cup {r}
          /\ op' = [op EXCEPT ![c].pc = "put", ![c].then = "ready", ![c].put = {r}]
    /\ made' = made + 1
    /\ UNCHANGED <<phase, conn, disk, history>>

CommitPut(c) ==
    /\ op[c].pc = "put"
    /\ Commit
    /\ Goto(c, "touch")
    /\ UNCHANGED <<phase, conn, made, history>>

\* Mutant: the thread_id is not found in the config.
MutTouch(c) ==
    /\ op[c].pc = "touch"
    /\ view' = view \cup {MetaRow(NoThread)}
    /\ Goto(c, "touched")
    /\ UNCHANGED <<phase, conn, disk, made, history>>

\* _touch: INSERT OR REPLACE of the meta row ...
Touch(c) ==
    /\ op[c].pc = "touch"
    /\ view' = view \cup {MetaRow(op[c].t)}
    /\ Goto(c, "touched")
    /\ UNCHANGED <<phase, conn, disk, made, history>>

Returned(o) == IF o.then = "idle" THEN Idle ELSE [o EXCEPT !.pc = o.then, !.put = {}]

\* Mutant: the touch has a transaction of its own.
MutCommitTouch(c) ==
    /\ op[c].pc = "touched"
    /\ disk' = disk \cup {MetaRow(op[c].t)}
    /\ acked' = acked \cup (op[c].put \ buried)
    /\ op' = [op EXCEPT ![c] = Returned(op[c])]
    /\ UNCHANGED <<phase, conn, view, made, wiped, buried, crossed>>

\* ... and its commit.  The operation returns.
CommitTouch(c) ==
    /\ op[c].pc = "touched"
    /\ Commit
    /\ acked' = acked \cup (op[c].put \ buried)
    /\ crossed' = IF MetaRow(op[c].t) \notin view \/ (\E a \in Actors : Deleting(a, op[c].t))
                  THEN crossed ELSE crossed \ {op[c].t}
    /\ op' = [op EXCEPT ![c] = Returned(op[c])]
    /\ UNCHANGED <<phase, conn, made, wiped, buried>>

EndLeg(c) ==
    /\ op[c].pc = "ready"
    /\ op' = [op EXCEPT ![c] = Idle]
    /\ UNCHANGED <<phase, conn, rows, made, history>>

\* Mutant: the connection is rolled back.
MutAbandon(c) ==
    /\ op[c] # Idle
    /\ op' = [op EXCEPT ![c] = Idle]
    /\ view' = disk
    /\ wiped' = wiped \ disk
    /\ UNCHANGED <<phase, conn, disk, made, acked, buried, crossed>>

\* A timeout cancels the request, or a statement raises: what it has issued stays,
\* uncommitted until someone commits.
Abandon(c) ==
    /\ op[c] # Idle
    /\ op' = [op EXCEPT ![c] = Idle]
    /\ UNCHANGED <<phase, conn, rows, made, history>>

-----------------------------------------------------------------------------
(* adelete_thread, called by /done and by the sweeper. *)

Following == [checkpoints |-> "writes", writes |-> "meta", meta |-> "deleted"]

\* One DELETE; the table it is from is the pc.
Delete(a) ==
    /\ op[a].pc \in DataTables \cup {"meta"}
    /\ LET gone == Of(op[a].pc, op[a].t)
       IN /\ view' = view \ gone
          /\ wiped' = wiped \cup (gone \cap DataRow)
    /\ crossed' = IF \E c \in Clients \ {a} : op[c].t = op[a].t
                  THEN crossed \cup {op[a].t} ELSE crossed
    /\ Goto(a, Following[op[a].pc])
    /\ UNCHANGED <<phase, conn, disk, made, acked, buried>>

Finished(a) == IF a = Sweeper THEN Asleep ELSE Idle

\* Mutant: no commit.
MutCommitDelete(a) ==
    /\ op[a].pc = "deleted"
    /\ buried' = buried \cup {r \in wiped : r.t = op[a].t}
    /\ op' = [op EXCEPT ![a] = Finished(a)]
    /\ UNCHANGED <<phase, conn, rows, made, acked, wiped, crossed>>

CommitDelete(a) ==
    /\ op[a].pc = "deleted"
    /\ Commit
    /\ buried' = buried \cup {r \in wiped : r.t = op[a].t}
    /\ acked' = acked \ buried' /\ wiped' = wiped \ buried'
    /\ op' = [op EXCEPT ![a] = Finished(a)]
    /\ UNCHANGED <<phase, conn, made, crossed>>

-----------------------------------------------------------------------------
(* The sweeper. *)

\* _tick: list_stale, a SELECT, finds a row past the threshold, whichever these are by
\* now.  A list of several rows is as good as several ticks, as time is not modelled.
ListStale(t) ==
    /\ op[Sweeper] = Asleep
    /\ MetaRow(t) \in view
    /\ op' = [op EXCEPT ![Sweeper].pc = "checkpoints", ![Sweeper].t = t]
    /\ UNCHANGED <<phase, conn, rows, made, history>>

\* One failing deletion is logged and the tick goes on.
SkipDelete ==
    /\ Deleting(Sweeper, op[Sweeper].t)
    /\ op' = [op EXCEPT ![Sweeper] = Finished(Sweeper)]
    /\ UNCHANGED <<phase, conn, rows, made, history>>

\* An error of list_stale ends the task.
SweeperDies ==
    /\ op[Sweeper] = Asleep
    /\ op' = [op EXCEPT ![Sweeper] = Off]
    /\ UNCHANGED <<phase, conn, rows, made, history>>

-----------------------------------------------------------------------------

Lifespan ==
    \/ OpenConnection \/ Serve \/ StartFails
    \/ ShutDown \/ StopSweeper \/ CloseConnection \/ Crash

Request(c) ==
    \/ \E t \in Threads, k \in {"leg", "done"} : Begin(c, k, t)
    \/ Select(c) \/ CommitPut(c) \/ Touch(c) \/ CommitTouch(c)
    \/ \E tbl \in DataTables : Insert(c, tbl)
    \/ EndLeg(c) \/ Abandon(c)

Sweep == (\E t \in Threads : ListStale(t)) \/ SkipDelete \/ SweeperDies

Next ==
    \/ Lifespan
    \/ \E c \in Clients : Request(c)
    \/ \E a \in Actors : Delete(a) \/ CommitDelete(a)
    \/ Sweep

Spec == Init /\ [][Next]_vars

-----------------------------------------------------------------------------
(* Properties. *)

\* Every variable keeps its type.
TypeOK ==
    /\ phase \in {"down", "setup", "serving", "stopping", "closing"}
    /\ conn \in BOOLEAN
    /\ view \subseteq Row /\ disk \subseteq Row
    /\ op \in [Actors -> Op]
    /\ made \in 0 .. MaxPuts
    /\ acked \subseteq DataRow /\ wiped \subseteq DataRow /\ buried \subseteq DataRow
    /\ crossed \subseteq Threads

\* A put that has returned survives every crash, and every timeout, error or deletion
\* on another thread that shares its connection; only a DELETE on its own thread takes
\* the row away.
AckedIsDurable == acked \ wiped \subseteq disk

\* What an adelete_thread that returned has removed never comes back, although its
\* statements lie open to the commits and the crashes of others.
DeletedStaysDeleted == buried \cap (view \cup disk) = {}

\* A thread's data never outlives its meta row, by which alone the sweeper finds it,
\* wherever the process stops, unless the thread was deleted under a request.
TrackedUnlessCrossed ==
    \A r \in (disk \cup view) \cap DataRow :
        MetaRow(r.t) \in disk \/ r.t \in crossed

\* What SessionStore abstracts from the rows: which threads have which.
WithCheckpoints(rs) == {t \in Threads : \E r \in rs : r.tbl = "checkpoints" /\ r.t = t}
WithMeta(rs) == {t \in Threads : MetaRow(t) \in rs}

Store == INSTANCE SessionStore
    WITH Ids <- Threads, stored <- WithCheckpoints(view), tracked <- WithMeta(view),
         kept <- WithCheckpoints(disk), keptMeta <- WithMeta(disk)

\* The statements of all requests and of the sweeper, however they interleave, are one
\* transaction after the other: what is durable is all that was seen at some commit.
ImplementsStore == Store!Spec

\* The lifespan closes the connection on every way out, and never under someone who
\* would still use it.
ClosedWhenUnused == conn = (phase # "down") /\ (~conn => \A a \in Actors : op[a] \in {Idle, Off})

=============================================================================
