---------------------------- MODULE SessionStore ----------------------------
(***************************************************************************)
(* What the SQLite file behind TouchingCheckpointer                        *)
(* (src/server/checkpoint_factory.py) promises those who share it, with    *)
(* the tables, the requests and their statements hidden.  There is one     *)
(* transaction for everyone: a statement changes what all of them see, and *)
(* whoever commits makes durable all that is seen, never a part of it.  A  *)
(* restart finds what the last commit left.                                *)
(***************************************************************************)

CONSTANT Ids        \* thread_ids

VARIABLES stored,   \* ids with checkpoint rows, as the connection sees them
          tracked,  \* ids with a row of _brainstorm_meta, as the connection sees them
          kept,     \* ids with checkpoint rows, as committed
          keptMeta  \* ids with a row of _brainstorm_meta, as committed

seen == <<stored, tracked>>
durable == <<kept, keptMeta>>
vars == <<seen, durable>>

Init == stored = {} /\ tracked = {} /\ kept = {} /\ keptMeta = {}

Put(s) == stored' = stored \cup {s} /\ UNCHANGED tracked
Track(s) == tracked' = tracked \cup {s} /\ UNCHANGED stored
DropRows(s) == stored' = stored \ {s} /\ UNCHANGED tracked
Forget(s) == tracked' = tracked \ {s} /\ UNCHANGED stored

Statement == \E s \in Ids : Put(s) \/ Track(s) \/ DropRows(s) \/ Forget(s)

Commit == kept' = stored' /\ keptMeta' = tracked'

Rollback == stored' = kept /\ tracked' = keptMeta /\ UNCHANGED durable

Next ==
    \/ /\ Statement \/ UNCHANGED seen
       /\ Commit \/ UNCHANGED durable
    \/ Rollback

Spec == Init /\ [][Next]_vars

=============================================================================
