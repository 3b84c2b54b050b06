------------------------ MODULE CheckpointStoreProofs ------------------------
(***************************************************************************)
(* TLAPS proofs about CheckpointStore: the inductive invariant of the      *)
(* statements that share one connection, and the safety properties it      *)
(* implies.                                                                *)
(***************************************************************************)
EXTENDS CheckpointStore, TLAPS

-----------------------------------------------------------------------------
(* The inductive invariant. *)

\* What operation o of actor a may be.
OpShape(a, o) ==
    /\ a \in Clients => o.pc # "off" /\ o.kind # "sweep"
    /\ a \in Clients /\ o.pc = "idle" => o = Idle
    /\ a \in Clients /\ o.pc # "idle" => o.t \in Threads
    /\ a = Sweeper /\ o \notin {Off, Asleep} =>
           o.pc \in DataTables \cup {"meta", "deleted"} /\ o.t \in Threads

\* Requests are served in one phase of the lifespan, the sweeper runs in two.
LifespanInv ==
    /\ conn = (phase # "down")
    /\ phase # "serving" => \A c \in Clients : op[c] = Idle
    /\ phase \notin {"serving", "stopping"} => op[Sweeper] = Off

\* A row is put once: the next one is new to the store and to the histories.
RowsAreOld == \A r \in view \cup disk \cup acked \cup wiped \cup buried : r.n <= made

\* What a returned put has written is in the view, unless a DELETE took it.
AckedIsSeen == acked \ wiped \subseteq view

WipedIsUnseen == wiped \cap view = {}

\* Data in the view has its meta row there too.
SeenIsTracked == \A r \in view \cap DataRow : MetaRow(r.t) \in view \/ r.t \in crossed

StoreInv ==
    /\ RowsAreOld /\ AckedIsSeen /\ WipedIsUnseen /\ SeenIsTracked
    /\ AckedIsDurable /\ DeletedStaysDeleted /\ TrackedUnlessCrossed

\* What a request has put is in the view, unless a DELETE took it; its thread's meta
\* row is there from its Touch on, and on the disk when the Touch is committed.
RequestInv(o) ==
    /\ \A r \in o.put : r.n <= made
    /\ o.put \ (wiped \cup buried) \subseteq view
    /\ o.pc = "touched" => MetaRow(o.t) \in view \/ o.t \in crossed
    /\ o.pc \in {"ready", "put"} => MetaRow(o.t) \in view \cap disk \/ o.t \in crossed

\* What a deletion has left of its thread in the view.
DeletionInv(o) ==
    o.t \in crossed \/
        \A r \in view \cap DataRow :
            r.t = o.t =>
                /\ o.pc = "writes" => r.tbl # "checkpoints"
                /\ o.pc \notin {"meta", "deleted"}

\* A deletion under way shares its thread with a request only when the thread is crossed.
CrossInv(o, q) ==
    o.t = q.t /\ o.pc \in {"writes", "meta", "deleted"} => o.t \in crossed

IInv ==
    /\ TypeOK /\ LifespanInv /\ StoreInv
    /\ \A a \in Actors : OpShape(a, op[a]) /\ DeletionInv(op[a])
    /\ \A c \in Clients : RequestInv(op[c])
    /\ \A a \in Actors, c \in Clients : a # c => CrossInv(op[a], op[c])

-----------------------------------------------------------------------------
(* Rows and operations. *)

\* The meta row of a thread is none of its data, and no other thread's.
LEMMA RowFacts ==
    /\ DataRow \subseteq Row
    /\ \A t \in Threads : MetaRow(t) \in Row /\ MetaRow(t) \notin DataRow
    /\ \A t, u \in Threads : MetaRow(t) = MetaRow(u) => t = u
    /\ \A r \in DataRow : r.tbl \in DataTables /\ r.t \in Threads /\ r.n \in Nat
    /\ \A t \in Threads : MetaRow(t).n = 0 /\ MetaRow(t).t = t /\ MetaRow(t).tbl = "meta"
    /\ \A r \in Row \ DataRow : \E t \in Threads : r = MetaRow(t)
  BY DEF Row, MetaRow, DataRow, DataTables

\* The operations at rest, which have nothing to keep.
LEMMA OpFacts ==
    /\ Idle \in Op /\ Off \in Op /\ Asleep \in Op
    /\ Idle.pc = "idle" /\ Idle.t = NoThread /\ Idle.kind = "none" /\ Idle.put = {}
    /\ Off.pc = "off" /\ Off.t = NoThread /\ Off.kind = "none" /\ Off.put = {}
    /\ Asleep.pc = "idle" /\ Asleep.t = NoThread /\ Asleep.kind = "sweep" /\ Asleep.put = {}
    /\ NoThread \notin Threads
  BY StoreAssumption DEF Idle, Off, Asleep, Op

\* An actor at rest satisfies what the invariant asks of it.
LEMMA AtRest ==
    /\ \A c \in Clients : OpShape(c, Idle)
    /\ OpShape(Sweeper, Off) /\ OpShape(Sweeper, Asleep)
    /\ DeletionInv(Idle) /\ DeletionInv(Off) /\ DeletionInv(Asleep)
    /\ RequestInv(Idle)
    /\ \A q : CrossInv(Idle, q) /\ CrossInv(Off, q) /\ CrossInv(Asleep, q)
  <1>1. \A c \in Clients : c # Sweeper
    BY StoreAssumption
  <1>2. QED
    BY <1>1, OpFacts, RowFacts DEF OpShape, DeletionInv, RequestInv, CrossInv

-----------------------------------------------------------------------------
(* Steps of one actor. *)

\* One operation moves on: the invariant holds again if it does of the new operation,
\* if the step keeps what it says of each of the others, and if no thread is uncrossed
\* while one of them deletes it.
LEMMA Moves ==
    ASSUME IInv, NEW a \in Actors, NEW o \in Op, op' = [op EXCEPT ![a] = o],
           TypeOK', LifespanInv', StoreInv',
           OpShape(a, o), DeletionInv(o)', a \in Clients => RequestInv(o)',
           \A b \in Actors \ {a}, q \in Op :
               op[b] = q =>
                   /\ DeletionInv(q)'
                   /\ b \in Clients => RequestInv(q)' /\ CrossInv(o, q)'
                   /\ a \in Clients => CrossInv(q, o)'
                   /\ q.pc \in {"writes", "meta", "deleted"} /\ q.t \in crossed => q.t \in crossed'
    PROVE  IInv'
  <1>1. op'[a] = o /\ \A b \in Actors \ {a} : op'[b] = op[b] /\ op[b] \in Op
    BY DEF IInv, TypeOK
  <1>2. ASSUME NEW b \in Actors PROVE (OpShape(b, op[b]) /\ DeletionInv(op[b]))'
    <2>1. CASE b = a
      BY <2>1, <1>1 DEF OpShape, DeletionInv
    <2>2. CASE b # a
      <3>1. OpShape(b, op[b])
        BY DEF IInv
      <3>2. QED
        BY <2>2, <3>1, <1>1 DEF OpShape, DeletionInv
    <2>3. QED
      BY <2>1, <2>2
  <1>3. ASSUME NEW c \in Clients PROVE RequestInv(op[c])'
    <2>1. c \in Actors
      BY DEF Actors
    <2>2. QED
      BY <2>1, <1>1 DEF RequestInv
  <1>4. ASSUME NEW b \in Actors, NEW c \in Clients, b # c PROVE CrossInv(op[b], op[c])'
    <2>1. c \in Actors /\ CrossInv(op[b], op[c])
      BY <1>4 DEF IInv, Actors
    <2>2. CASE b = a
      BY <2>1, <2>2, <1>1, <1>4 DEF CrossInv
    <2>3. CASE c = a
      BY <2>1, <2>3, <1>1, <1>4 DEF CrossInv
    <2>4. CASE b # a /\ c # a
      BY <2>1, <2>4, <1>1 DEF CrossInv
    <2>5. QED
      BY <2>2, <2>3, <2>4
  <1>5. QED
    BY <1>2, <1>3, <1>4 DEF IInv

\* One operation moves on and executes no statement on the rows; a thread may become
\* crossed.
LEMMA OpStep ==
    ASSUME IInv, NEW a \in Actors, NEW o \in Op, op' = [op EXCEPT ![a] = o],
           UNCHANGED <<phase, conn, rows, made, acked, wiped, buried>>,
           crossed \subseteq crossed', crossed' \subseteq Threads,
           OpShape(a, o), DeletionInv(o), a \in Clients => RequestInv(o),
           \A b \in Actors \ {a} :
               /\ b \in Clients => CrossInv(o, op[b])
               /\ a \in Clients /\ op[b].t = o.t /\ op[b].pc \in {"writes", "meta", "deleted"} =>
                      o.t \in crossed',
           LifespanInv'
    PROVE  IInv'
  <1>1. /\ phase' = phase /\ conn' = conn /\ view' = view /\ disk' = disk /\ made' = made
        /\ acked' = acked /\ wiped' = wiped /\ buried' = buried
    BY DEF rows
  <1>2. TypeOK'
    BY <1>1 DEF IInv, TypeOK
  <1>3. StoreInv'
    BY <1>1 DEF IInv, StoreInv, RowsAreOld, AckedIsSeen, WipedIsUnseen, SeenIsTracked,
                AckedIsDurable, DeletedStaysDeleted, TrackedUnlessCrossed
  <1>4. ASSUME NEW q, DeletionInv(q) PROVE DeletionInv(q)'
    BY <1>1, <1>4 DEF DeletionInv
  <1>5. ASSUME NEW q, RequestInv(q) PROVE RequestInv(q)'
    BY <1>1, <1>5 DEF RequestInv
  <1>6. DeletionInv(o)' /\ (a \in Clients => RequestInv(o)')
    BY <1>4, <1>5
  <1>7. ASSUME NEW b \in Actors \ {a}, NEW q \in Op, op[b] = q
        PROVE  /\ DeletionInv(q)'
               /\ b \in Clients => RequestInv(q)' /\ CrossInv(o, q)'
               /\ a \in Clients => CrossInv(q, o)'
               /\ q.pc \in {"writes", "meta", "deleted"} /\ q.t \in crossed => q.t \in crossed'
    <2>1. DeletionInv(q) /\ (b \in Clients => RequestInv(q))
      BY <1>7 DEF IInv
    <2>2. b \in Clients => CrossInv(o, q)'
      BY <1>7 DEF CrossInv
    <2>3. a \in Clients => CrossInv(q, o)'
      BY <1>7 DEF CrossInv
    <2>4. QED
      BY <2>1, <2>2, <2>3, <1>4, <1>5
  <1>8. QED
    BY <1>2, <1>3, <1>6, <1>7, Moves

\* What the invariant says of one request.
LEMMA OneRequest ==
    ASSUME IInv, NEW c \in Clients
    PROVE  /\ c \in Actors /\ c # Sweeper /\ op[c] \in Op
           /\ op[c].kind # "sweep" /\ op[c].pc # "off"
           /\ op[c] # Idle => op[c].pc # "idle" /\ op[c].t \in Threads /\ phase = "serving"
           /\ OpShape(c, op[c]) /\ DeletionInv(op[c]) /\ RequestInv(op[c])
           /\ \A b \in Actors \ {c} :
                  CrossInv(op[b], op[c]) /\ (b \in Clients => CrossInv(op[c], op[b]))
  <1>1. c \in Actors /\ c # Sweeper
    BY StoreAssumption DEF Actors
  <1>2. op[c] \in Op
    BY <1>1 DEF IInv, TypeOK
  <1>3. OpShape(c, op[c]) /\ DeletionInv(op[c]) /\ RequestInv(op[c])
    BY <1>1 DEF IInv
  <1>4. phase # "serving" => op[c] = Idle
    BY DEF IInv, LifespanInv
  <1>5. ASSUME NEW b \in Actors \ {c}
        PROVE CrossInv(op[b], op[c]) /\ (b \in Clients => CrossInv(op[c], op[b]))
    BY <1>1 DEF IInv
  <1>6. QED
    BY <1>1, <1>2, <1>3, <1>4, <1>5, OpFacts DEF OpShape

\* Whoever deletes is deleting a thread.
LEMMA DeletesThread ==
    ASSUME IInv, NEW b \in Actors, op[b].pc \in DataTables \cup {"meta", "deleted"}
    PROVE  op[b].t \in Threads
  <1>1. OpShape(b, op[b])
    BY DEF IInv
  <1>2. QED
    BY <1>1, OpFacts DEF OpShape, Actors, DataTables

\* A request that ends leaves nothing behind.
LEMMA Ends ==
    ASSUME IInv, NEW c \in Clients, op' = [op EXCEPT ![c] = Idle],
           UNCHANGED <<phase, conn, rows, made, history>>
    PROVE  IInv'
  <1>1. LifespanInv'
    BY OneRequest DEF IInv, LifespanInv, TypeOK, Actors
  <1>2. \A b \in Actors \ {c} : op[b].t = Idle.t => op[b].pc \notin {"writes", "meta", "deleted"}
    BY DeletesThread, OpFacts DEF DataTables
  <1>3. c \in Actors /\ Idle \in Op
    BY OneRequest, OpFacts
  <1>4. crossed \subseteq Threads
    BY DEF IInv, TypeOK
  <1>5. QED
    BY <1>1, <1>2, <1>3, <1>4, AtRest, OpStep DEF history

LEMMA InvSelect ==
    ASSUME IInv, NEW c \in Clients, Select(c)
    PROVE  IInv'
  <1> DEFINE o == [op[c] EXCEPT !.pc = "touch", !.then = After(c)]
  <1>1. op[c] # Idle /\ op[c] \in Op
    BY OneRequest, OpFacts DEF Select
  <1>2. o \in Op /\ o.pc = "touch" /\ o.t = op[c].t /\ o.put = op[c].put /\ o.kind = op[c].kind
    BY <1>1 DEF Op, After
  <1>3. op' = [op EXCEPT ![c] = o]
    BY <1>1 DEF Select, Op
  <1> HIDE DEF o
  <1>4. OpShape(c, o) /\ DeletionInv(o) /\ RequestInv(o)
    BY <1>1, <1>2, OneRequest DEF OpShape, DeletionInv, RequestInv
  <1>5. \A b \in Actors \ {c} : CrossInv(o, op[b])
    BY <1>2 DEF CrossInv
  <1>6. \A b \in Actors \ {c} :
            op[b].t = o.t /\ op[b].pc \in {"writes", "meta", "deleted"} => o.t \in crossed
    BY <1>2, OneRequest DEF CrossInv
  <1>7. LifespanInv'
    BY <1>1, <1>3, OneRequest DEF Select, IInv, LifespanInv, TypeOK, Actors
  <1>8. crossed \subseteq Threads
    BY DEF IInv, TypeOK
  <1>9. QED
    BY <1>2, <1>3, <1>4, <1>5, <1>6, <1>7, <1>8, OneRequest, OpStep DEF Select, history

LEMMA InvEnds ==
    ASSUME IInv, NEW c \in Clients, EndLeg(c) \/ Abandon(c)
    PROVE  IInv'
  BY Ends DEF EndLeg, Abandon

LEMMA InvBegin ==
    ASSUME IInv, NEW c \in Clients, NEW k \in {"leg", "done"}, NEW t \in Threads, Begin(c, k, t)
    PROVE  IInv'
  <1> DEFINE o == [Idle EXCEPT !.pc = "open", !.t = t, !.kind = k]
  <1>1. o \in Op /\ o.pc = "open" /\ o.t = t /\ o.put = {} /\ o.kind = k
    BY OpFacts DEF Op, Idle
  <1>2. op' = [op EXCEPT ![c] = o] /\ phase = "serving" /\ op[c] = Idle
    BY DEF Begin
  <1> HIDE DEF o
  <1>3. crossed \subseteq crossed' /\ crossed' \subseteq Threads
    BY DEF Begin, IInv, TypeOK
  <1>4. OpShape(c, o) /\ DeletionInv(o) /\ RequestInv(o)
    BY <1>1, OneRequest DEF OpShape, DeletionInv, RequestInv
  <1>5. \A b \in Actors \ {c} : CrossInv(o, op[b])
    BY <1>1 DEF CrossInv
  <1>6. \A b \in Actors \ {c} :
            op[b].t = o.t /\ op[b].pc \in {"writes", "meta", "deleted"} => o.t \in crossed'
    BY <1>1 DEF Begin, Deleting, DataTables
  <1>7. LifespanInv'
    BY <1>2, OneRequest DEF Begin, IInv, LifespanInv, TypeOK, Actors
  <1>8. QED
    BY <1>1, <1>2, <1>3, <1>4, <1>5, <1>6, <1>7, OneRequest, OpStep DEF Begin

-----------------------------------------------------------------------------
(* The sweeper. *)

\* The sweeper moves on.
LEMMA SweepStep ==
    ASSUME IInv, NEW o \in Op, op' = [op EXCEPT ![Sweeper] = o],
           UNCHANGED <<phase, conn, rows, made, history>>,
           OpShape(Sweeper, o), DeletionInv(o), o.pc \notin {"writes", "meta", "deleted"},
           o = Off \/ op[Sweeper] # Off
    PROVE  IInv'
  <1>1. Sweeper \in Actors /\ Sweeper \notin Clients /\ crossed \subseteq Threads
    BY StoreAssumption DEF Actors, IInv, TypeOK
  <1>2. \A b \in Actors \ {Sweeper} : CrossInv(o, op[b])
    BY DEF CrossInv
  <1>3. LifespanInv'
    BY <1>1 DEF IInv, LifespanInv, TypeOK, Actors
  <1>4. QED
    BY <1>1, <1>2, <1>3, OpStep DEF history

LEMMA InvSweep ==
    ASSUME IInv, Sweep
    PROVE  IInv'
  <1>1. Asleep # Off
    BY OpFacts
  <1>2. ASSUME NEW t \in Threads, ListStale(t) PROVE IInv'
    <2> DEFINE o == [Asleep EXCEPT !.pc = "checkpoints", !.t = t]
    <2>1. o \in Op /\ o.pc = "checkpoints" /\ o.t = t
      BY OpFacts DEF Op, Asleep, Idle
    <2>2. op' = [op EXCEPT ![Sweeper] = o] /\ op[Sweeper] # Off
      BY <1>1, <1>2 DEF ListStale, IInv, TypeOK, Actors, Asleep, Idle
    <2> HIDE DEF o
    <2>3. OpShape(Sweeper, o) /\ DeletionInv(o)
      BY <2>1, StoreAssumption DEF OpShape, DeletionInv, DataTables
    <2>4. QED
      BY <1>2, <2>1, <2>2, <2>3, SweepStep DEF ListStale
  <1>3. ASSUME SkipDelete PROVE IInv'
    BY <1>3, OpFacts, AtRest, SweepStep DEF SkipDelete, Finished, Deleting, DataTables
  <1>4. ASSUME SweeperDies PROVE IInv'
    BY <1>4, OpFacts, AtRest, SweepStep DEF SweeperDies
  <1>5. QED
    BY <1>2, <1>3, <1>4 DEF Sweep

-----------------------------------------------------------------------------
(* The statements of a put and of a touch. *)

\* The lifespan is where it was, and whoever is moving was not at rest.
LEMMA StillServing ==
    ASSUME IInv, NEW c \in Clients, op[c] # Idle, NEW o, op' = [op EXCEPT ![c] = o],
           UNCHANGED <<phase, conn>>
    PROVE  LifespanInv'
  BY OneRequest DEF IInv, LifespanInv, TypeOK, Actors

\* Goto moves the pc alone.
LEMMA Moved ==
    ASSUME IInv, NEW a \in Actors,
           NEW p \in {"touch", "touched", "writes", "meta", "deleted"}, Goto(a, p)
    PROVE  \E o \in Op : /\ o.pc = p /\ o.t = op[a].t /\ o.put = op[a].put
                         /\ o.kind = op[a].kind /\ op' = [op EXCEPT ![a] = o]
  <1>1. op[a] \in Op
    BY DEF IInv, TypeOK
  <1> DEFINE o == [op[a] EXCEPT !.pc = p]
  <1>2. op' = [op EXCEPT ![a] = o]
    BY <1>1 DEF Goto
  <1>3. o \in Op /\ o.pc = p /\ o.t = op[a].t /\ o.put = op[a].put /\ o.kind = op[a].kind
    BY <1>1 DEF Op
  <1>4. QED
    BY <1>2, <1>3

LEMMA InvInsert ==
    ASSUME IInv, NEW c \in Clients, NEW tbl \in DataTables, Insert(c, tbl)
    PROVE  IInv'
  <1>1. /\ op[c] # Idle /\ op[c] \in Op /\ op[c].pc = "ready" /\ op[c].t \in Threads
        /\ made \in Nat /\ made < MaxPuts /\ made' = made + 1 /\ made' \in 0 .. MaxPuts
    BY OneRequest, OpFacts, StoreAssumption DEF Insert, IInv, TypeOK
  <1>2. PICK r \in DataRow : /\ r.t = op[c].t /\ r.n = made + 1
                             /\ r = [tbl |-> tbl, t |-> op[c].t, n |-> made + 1]
    <2> DEFINE r == [tbl |-> tbl, t |-> op[c].t, n |-> made + 1]
    <2>1. made + 1 \in 1 .. MaxPuts
      BY <1>1, StoreAssumption
    <2>2. r \in DataRow
      BY <1>1, <2>1 DEF DataRow
    <2>3. QED
      BY <2>2
  <1>3. view' = view \cup {r}
    BY <1>2 DEF Insert
  <1>4. PICK o \in Op : /\ o.pc = "put" /\ o.t = op[c].t /\ o.put = {r} /\ o.kind = op[c].kind
                        /\ op' = [op EXCEPT ![c] = o]
    <2> DEFINE o == [op[c] EXCEPT !.pc = "put", !.then = "ready", !.put = {r}]
    <2>1. o \in Op /\ o.pc = "put" /\ o.t = op[c].t /\ o.put = {r} /\ o.kind = op[c].kind
      BY <1>1 DEF Op
    <2>2. op' = [op EXCEPT ![c] = o]
      BY <1>1, <1>2 DEF Insert, Op
    <2>3. QED
      BY <2>1, <2>2
  <1>5. /\ phase' = phase /\ conn' = conn /\ disk' = disk
        /\ acked' = acked /\ wiped' = wiped /\ buried' = buried /\ crossed' = crossed
    BY DEF Insert, history
  <1>6. MetaRow(op[c].t) \in view \cap disk \/ op[c].t \in crossed
    BY <1>1, OneRequest DEF RequestInv
  <1>7. TypeOK'
    BY <1>1, <1>3, <1>4, <1>5, RowFacts, OneRequest DEF IInv, TypeOK
  <1>8. /\ \A q \in view \cup disk \cup acked \cup wiped \cup buried : q.n \in Nat /\ q.n <= made
        /\ r \notin view \cup disk \cup acked \cup wiped \cup buried
    <2>1. \A q \in Row : q.n \in Nat
      BY DEF Row, DataRow, MetaRow
    <2>2. \A q \in view \cup disk \cup acked \cup wiped \cup buried : q \in Row
      BY RowFacts DEF IInv, TypeOK
    <2>3. QED
      BY <1>1, <1>2, <2>1, <2>2 DEF IInv, StoreInv, RowsAreOld
  <1>9. StoreInv'
    <2>1. RowsAreOld'
      BY <1>1, <1>2, <1>3, <1>5, <1>8 DEF RowsAreOld
    <2>2. AckedIsSeen' /\ WipedIsUnseen' /\ AckedIsDurable' /\ DeletedStaysDeleted'
      BY <1>3, <1>5, <1>8 DEF IInv, StoreInv, AckedIsSeen, WipedIsUnseen, AckedIsDurable,
                              DeletedStaysDeleted
    <2>3. SeenIsTracked' /\ TrackedUnlessCrossed'
      BY <1>2, <1>3, <1>5, <1>6 DEF IInv, StoreInv, SeenIsTracked, TrackedUnlessCrossed
    <2>4. QED
      BY <2>1, <2>2, <2>3 DEF StoreInv
  <1>10. OpShape(c, o) /\ DeletionInv(o)'
    BY <1>1, <1>4, OneRequest DEF OpShape, DeletionInv
  <1>11. RequestInv(o)'
    BY <1>1, <1>2, <1>3, <1>4, <1>5, <1>6 DEF RequestInv
  <1>12. ASSUME NEW b \in Actors \ {c}, NEW q \in Op, op[b] = q
         PROVE  /\ DeletionInv(q)'
                /\ b \in Clients => RequestInv(q)' /\ CrossInv(o, q)'
                /\ CrossInv(q, o)'
                /\ q.pc \in {"writes", "meta", "deleted"} /\ q.t \in crossed => q.t \in crossed'
    <2>1. CrossInv(q, op[c]) /\ DeletionInv(q)
      BY <1>12, OneRequest DEF IInv
    <2>2. DeletionInv(q)'
      BY <2>1, <1>2, <1>3, <1>5 DEF DeletionInv, CrossInv
    <2>3. b \in Clients => RequestInv(q)'
      <3>1. SUFFICES ASSUME b \in Clients PROVE RequestInv(q)'
        OBVIOUS
      <3>2. RequestInv(q)
        BY <1>12, <3>1 DEF IInv
      <3>3. \A x \in q.put : x.n \in Nat
        BY DEF Op, DataRow
      <3>4. QED
        BY <3>2, <3>3, <1>1, <1>3, <1>5 DEF RequestInv
    <2>4. CrossInv(o, q)' /\ CrossInv(q, o)'
      BY <2>1, <1>4, <1>5 DEF CrossInv
    <2>5. QED
      BY <2>2, <2>3, <2>4, <1>5
  <1>13. LifespanInv'
    BY <1>1, <1>4, <1>5, StillServing
  <1>14. QED
    BY <1>4, <1>7, <1>9, <1>10, <1>11, <1>12, <1>13, OneRequest, Moves

LEMMA InvCommitPut ==
    ASSUME IInv, NEW c \in Clients, CommitPut(c)
    PROVE  IInv'
  <1>1. op[c] # Idle /\ op[c] \in Op /\ op[c].pc = "put"
    BY OneRequest, OpFacts DEF CommitPut
  <1>2. PICK o \in Op : /\ o.pc = "touch" /\ o.t = op[c].t /\ o.put = op[c].put
                        /\ o.kind = op[c].kind /\ op' = [op EXCEPT ![c] = o]
    BY <1>1, OneRequest, Moved DEF CommitPut
  <1>3. /\ phase' = phase /\ conn' = conn /\ view' = view /\ disk' = view /\ made' = made
        /\ acked' = acked /\ wiped' = wiped /\ buried' = buried /\ crossed' = crossed
    BY DEF CommitPut, Commit, history
  <1>4. TypeOK'
    BY <1>2, <1>3, OneRequest DEF IInv, TypeOK
  <1>5. StoreInv'
    BY <1>3 DEF IInv, StoreInv, RowsAreOld, AckedIsSeen, WipedIsUnseen, SeenIsTracked,
                AckedIsDurable, DeletedStaysDeleted, TrackedUnlessCrossed
  <1>6. OpShape(c, o) /\ DeletionInv(o)' /\ RequestInv(o)'
    BY <1>1, <1>2, <1>3, OneRequest DEF OpShape, DeletionInv, RequestInv
  <1>7. ASSUME NEW b \in Actors \ {c}, NEW q \in Op, op[b] = q
        PROVE  /\ DeletionInv(q)'
               /\ b \in Clients => RequestInv(q)' /\ CrossInv(o, q)'
               /\ CrossInv(q, o)'
               /\ q.pc \in {"writes", "meta", "deleted"} /\ q.t \in crossed => q.t \in crossed'
    <2>1. CrossInv(q, op[c]) /\ DeletionInv(q) /\ (b \in Clients => RequestInv(q))
      BY <1>7, OneRequest DEF IInv
    <2>2. DeletionInv(q)' /\ (b \in Clients => RequestInv(q)')
      BY <2>1, <1>3 DEF DeletionInv, RequestInv
    <2>3. CrossInv(o, q)' /\ CrossInv(q, o)'
      BY <2>1, <1>2, <1>3 DEF CrossInv
    <2>4. QED
      BY <2>2, <2>3, <1>3
  <1>8. LifespanInv'
    BY <1>1, <1>2, <1>3, StillServing
  <1>9. QED
    BY <1>2, <1>4, <1>5, <1>6, <1>7, <1>8, OneRequest, Moves

LEMMA InvTouch ==
    ASSUME IInv, NEW c \in Clients, Touch(c)
    PROVE  IInv'
  <1>1. op[c] # Idle /\ op[c] \in Op /\ op[c].pc = "touch" /\ op[c].t \in Threads
    BY OneRequest, OpFacts DEF Touch
  <1>2. PICK o \in Op : /\ o.pc = "touched" /\ o.t = op[c].t /\ o.put = op[c].put
                        /\ o.kind = op[c].kind /\ op' = [op EXCEPT ![c] = o]
    BY <1>1, OneRequest, Moved DEF Touch
  <1>3. PICK m \in Row : m = MetaRow(op[c].t) /\ view' = view \cup {m} /\ m \notin DataRow /\ m.n = 0
    BY <1>1, RowFacts DEF Touch
  <1>4. /\ phase' = phase /\ conn' = conn /\ disk' = disk /\ made' = made
        /\ acked' = acked /\ wiped' = wiped /\ buried' = buried /\ crossed' = crossed
    BY DEF Touch, history
  <1>5. TypeOK'
    BY <1>2, <1>3, <1>4, OneRequest DEF IInv, TypeOK
  <1>6. StoreInv'
    <2>1. made \in Nat /\ wiped \subseteq DataRow /\ buried \subseteq DataRow
      BY StoreAssumption DEF IInv, TypeOK
    <2>2. QED
      BY <1>3, <1>4, <2>1 DEF IInv, StoreInv, RowsAreOld, AckedIsSeen, WipedIsUnseen,
            SeenIsTracked, AckedIsDurable, DeletedStaysDeleted, TrackedUnlessCrossed
  <1>7. OpShape(c, o) /\ DeletionInv(o)' /\ RequestInv(o)'
    BY <1>1, <1>2, <1>3, <1>4, OneRequest DEF OpShape, DeletionInv, RequestInv
  <1>8. ASSUME NEW b \in Actors \ {c}, NEW q \in Op, op[b] = q
        PROVE  /\ DeletionInv(q)'
               /\ b \in Clients => RequestInv(q)' /\ CrossInv(o, q)'
               /\ CrossInv(q, o)'
               /\ q.pc \in {"writes", "meta", "deleted"} /\ q.t \in crossed => q.t \in crossed'
    <2>1. CrossInv(q, op[c]) /\ DeletionInv(q) /\ (b \in Clients => RequestInv(q))
      BY <1>8, OneRequest DEF IInv
    <2>2. DeletionInv(q)' /\ (b \in Clients => RequestInv(q)')
      BY <2>1, <1>3, <1>4 DEF DeletionInv, RequestInv
    <2>3. CrossInv(o, q)' /\ CrossInv(q, o)'
      BY <2>1, <1>2, <1>4 DEF CrossInv
    <2>4. QED
      BY <2>2, <2>3, <1>4
  <1>9. LifespanInv'
    BY <1>1, <1>2, <1>4, StillServing
  <1>10. QED
    BY <1>2, <1>5, <1>6, <1>7, <1>8, <1>9, OneRequest, Moves

\* The commit of a touch may uncross its thread: the meta row is then committed, and
\* nobody is deleting the thread.
LEMMA InvCommitTouch ==
    ASSUME IInv, NEW c \in Clients, CommitTouch(c)
    PROVE  IInv'
  <1>1. op[c] # Idle /\ op[c] \in Op /\ op[c].pc = "touched" /\ op[c].t \in Threads
    BY OneRequest, OpFacts DEF CommitTouch
  <1>2. PICK o \in Op : /\ o = Idle \/ (o.pc \in {"ready", "checkpoints"} /\ o.t = op[c].t
                                          /\ o.put = {} /\ o.kind = op[c].kind)
                        /\ op' = [op EXCEPT ![c] = o]
    <2> DEFINE o == Returned(op[c])
    <2>1. /\ o \in Op
          /\ o = Idle \/ (o.pc \in {"ready", "checkpoints"} /\ o.t = op[c].t
                            /\ o.put = {} /\ o.kind = op[c].kind)
      BY <1>1, OpFacts DEF Op, Returned
    <2>2. QED
      BY <2>1 DEF CommitTouch
  <1>3. /\ phase' = phase /\ conn' = conn /\ view' = view /\ disk' = view /\ made' = made
        /\ wiped' = wiped /\ buried' = buried /\ acked' = acked \cup (op[c].put \ buried)
    BY DEF CommitTouch, Commit
  <1>4. /\ crossed' \subseteq crossed
        /\ \A t \in crossed \ crossed' :
               MetaRow(t) \in view /\ \A a \in Actors : ~Deleting(a, t)
    BY DEF CommitTouch
  <1>5. MetaRow(op[c].t) \in view \/ op[c].t \in crossed'
    BY <1>1, OneRequest DEF CommitTouch, RequestInv
  <1>6. /\ \A x \in op[c].put : x.n <= made
        /\ op[c].put \ (wiped \cup buried) \subseteq view /\ op[c].put \subseteq DataRow
    BY <1>1, OneRequest DEF RequestInv, Op
  <1>7. TypeOK'
    BY <1>2, <1>3, <1>4, <1>6, OneRequest DEF IInv, TypeOK
  <1>8. StoreInv'
    <2>1. RowsAreOld'
      BY <1>3, <1>6 DEF IInv, StoreInv, RowsAreOld
    <2>2. AckedIsSeen' /\ WipedIsUnseen' /\ AckedIsDurable' /\ DeletedStaysDeleted'
      BY <1>3, <1>6 DEF IInv, StoreInv, AckedIsSeen, WipedIsUnseen, AckedIsDurable,
                        DeletedStaysDeleted
    <2>3. SeenIsTracked' /\ TrackedUnlessCrossed'
      BY <1>3, <1>4 DEF IInv, StoreInv, SeenIsTracked, TrackedUnlessCrossed
    <2>4. QED
      BY <2>1, <2>2, <2>3 DEF StoreInv
  <1>9. OpShape(c, o) /\ DeletionInv(o)' /\ RequestInv(o)'
    <2>1. CASE o = Idle
      BY <2>1, OpFacts, OneRequest DEF OpShape, DeletionInv, RequestInv
    <2>2. CASE o # Idle
      BY <2>2, <1>1, <1>2, <1>3, <1>5, OneRequest DEF OpShape, DeletionInv, RequestInv
    <2>3. QED
      BY <2>1, <2>2
  <1>10. ASSUME NEW b \in Actors \ {c}, NEW q \in Op, op[b] = q
         PROVE  /\ DeletionInv(q)'
                /\ b \in Clients => RequestInv(q)' /\ CrossInv(o, q)'
                /\ CrossInv(q, o)'
                /\ q.pc \in {"writes", "meta", "deleted"} /\ q.t \in crossed => q.t \in crossed'
    <2>1. CrossInv(q, op[c]) /\ DeletionInv(q) /\ (b \in Clients => RequestInv(q))
      BY <1>10, OneRequest DEF IInv
    <2>2. q.pc \in {"writes", "meta", "deleted"} /\ q.t \in crossed => q.t \in crossed'
      BY <1>4, <1>10 DEF Deleting, DataTables
    <2>3. DeletionInv(q)'
      BY <2>1, <2>2, <1>3 DEF DeletionInv
    <2>4. b \in Clients => RequestInv(q)'
      BY <2>1, <1>3, <1>4 DEF RequestInv
    <2>5. CrossInv(o, q)'
      BY <1>2, OpFacts DEF CrossInv
    <2>6. CrossInv(q, o)'
      <3>1. q.pc \in {"writes", "meta", "deleted"} => q.t \in Threads
        BY <1>10, DeletesThread DEF DataTables
      <3>2. QED
        BY <3>1, <2>1, <2>2, <1>2, OpFacts DEF CrossInv
    <2>7. QED
      BY <2>2, <2>3, <2>4, <2>5, <2>6
  <1>11. LifespanInv'
    BY <1>1, <1>2, <1>3, StillServing
  <1>12. QED
    BY <1>2, <1>7, <1>8, <1>9, <1>10, <1>11, OneRequest, Moves

-----------------------------------------------------------------------------
(* The statements of a deletion. *)

\* Whoever is deleting is not at rest: it stays in its phase of the lifespan.
LEMMA StillDeleting ==
    ASSUME IInv, NEW a \in Actors, op[a].pc \in DataTables \cup {"meta", "deleted"},
           NEW o, op' = [op EXCEPT ![a] = o], UNCHANGED <<phase, conn>>
    PROVE  LifespanInv'
  <1>1. op[a] # Idle /\ op[a] # Off
    BY OpFacts DEF DataTables
  <1>2. QED
    BY <1>1, StoreAssumption DEF IInv, LifespanInv, TypeOK, Actors

LEMMA InvDelete ==
    ASSUME IInv, NEW a \in Actors, Delete(a)
    PROVE  IInv'
  <1>1. /\ op[a] \in Op /\ op[a].pc \in {"checkpoints", "writes", "meta"} /\ op[a].t \in Threads
        /\ OpShape(a, op[a]) /\ DeletionInv(op[a])
        /\ a \in Clients => RequestInv(op[a])
    BY DeletesThread DEF Delete, DataTables, IInv, TypeOK
  <1>2. PICK o \in Op : /\ o.pc = Following[op[a].pc] /\ o.t = op[a].t /\ o.put = op[a].put
                        /\ o.kind = op[a].kind /\ op' = [op EXCEPT ![a] = o]
    <2>1. Following[op[a].pc] \in {"writes", "meta", "deleted"}
      BY <1>1 DEF Following
    <2>2. Goto(a, Following[op[a].pc])
      BY DEF Delete
    <2>3. QED
      BY <2>1, <2>2, Moved
  <1>3. PICK gone : /\ \A r : r \in gone <=> r \in view /\ r.tbl = op[a].pc /\ r.t = op[a].t
                    /\ view' = view \ gone
                    /\ wiped' = wiped \cup (gone \cap DataRow)
    BY DEF Delete, Of
  <1>4. /\ phase' = phase /\ conn' = conn /\ disk' = disk /\ made' = made
        /\ acked' = acked /\ buried' = buried
    BY DEF Delete
  <1>5. /\ crossed \subseteq crossed' /\ crossed' \subseteq Threads
        /\ \A c \in Clients \ {a} : op[c].t = op[a].t => op[a].t \in crossed'
    BY <1>1 DEF Delete, IInv, TypeOK
  <1>6. TypeOK'
    BY <1>2, <1>3, <1>4, <1>5 DEF IInv, TypeOK
  <1>7. \A t \in Threads : MetaRow(t) \in view =>
            MetaRow(t) \in view' \/ (t = op[a].t /\ op[a].pc = "meta")
    BY <1>3, RowFacts
  <1>8. StoreInv'
    <2>1. RowsAreOld' /\ AckedIsSeen' /\ WipedIsUnseen' /\ AckedIsDurable' /\ DeletedStaysDeleted'
      BY <1>3, <1>4 DEF IInv, TypeOK, StoreInv, RowsAreOld, AckedIsSeen, WipedIsUnseen,
                        AckedIsDurable, DeletedStaysDeleted
    <2>2. SeenIsTracked'
      <3>1. SUFFICES ASSUME NEW r \in view' \cap DataRow, r.t \notin crossed'
                     PROVE  MetaRow(r.t) \in view'
        BY DEF SeenIsTracked
      <3>2. r \in view /\ r.t \in Threads /\ MetaRow(r.t) \in view
        BY <3>1, <1>3, <1>5, RowFacts DEF IInv, StoreInv, SeenIsTracked
      <3>3. ~(r.t = op[a].t /\ op[a].pc = "meta")
        BY <3>1, <3>2, <1>1, <1>5 DEF DeletionInv
      <3>4. QED
        BY <3>2, <3>3, <1>7
    <2>3. TrackedUnlessCrossed'
      BY <1>3, <1>4, <1>5 DEF IInv, StoreInv, TrackedUnlessCrossed
    <2>4. QED
      BY <2>1, <2>2, <2>3 DEF StoreInv
  <1>9. OpShape(a, o)
    BY <1>1, <1>2, OpFacts DEF OpShape, Following, DataTables
  <1>10. DeletionInv(o)'
    <2>1. SUFFICES ASSUME o.t \notin crossed', NEW r \in view' \cap DataRow, r.t = o.t
                   PROVE  o.pc = "writes" /\ r.tbl # "checkpoints"
      BY DEF DeletionInv
    <2>2. r \in view /\ r.tbl # op[a].pc /\ r.tbl \in DataTables
      BY <2>1, <1>2, <1>3, RowFacts
    <2>3. /\ op[a].pc = "writes" => r.tbl # "checkpoints"
          /\ op[a].pc # "meta"
      BY <2>1, <2>2, <1>1, <1>2, <1>5 DEF DeletionInv
    <2>4. QED
      BY <2>2, <2>3, <1>1, <1>2 DEF Following, DataTables
  <1>11. a \in Clients => RequestInv(o)'
    BY <1>1, <1>2, <1>3, <1>4 DEF RequestInv, Following, Op
  <1>12. ASSUME NEW b \in Actors \ {a}, NEW q \in Op, op[b] = q
         PROVE  /\ DeletionInv(q)'
                /\ b \in Clients => RequestInv(q)' /\ CrossInv(o, q)'
                /\ a \in Clients => CrossInv(q, o)'
                /\ q.pc \in {"writes", "meta", "deleted"} /\ q.t \in crossed => q.t \in crossed'
    <2>1. DeletionInv(q) /\ (b \in Clients => RequestInv(q)) /\ (a \in Clients => CrossInv(q, op[a]))
      BY <1>12 DEF IInv
    <2>2. DeletionInv(q)'
      BY <2>1, <1>3, <1>5 DEF DeletionInv
    <2>3. ASSUME b \in Clients PROVE RequestInv(q)'
      <3>1. RequestInv(q) /\ q.put \subseteq DataRow
        BY <2>1, <2>3 DEF Op
      <3>2. q.t = op[a].t => q.t \in crossed'
        BY <2>3, <1>5, <1>12
      <3>3. q.pc \in {"touched", "ready", "put"} => q.t \in Threads
        BY <2>3, <1>12, OneRequest, OpFacts
      <3>4. MetaRow(q.t) \in view /\ q.pc \in {"touched", "ready", "put"} =>
                MetaRow(q.t) \in view' \/ q.t \in crossed'
        BY <3>2, <3>3, <1>7
      <3>5. QED
        BY <3>1, <3>4, <1>3, <1>4, <1>5 DEF RequestInv
    <2>4. b \in Clients => CrossInv(o, q)'
      BY <1>2, <1>5, <1>12 DEF CrossInv
    <2>5. a \in Clients => CrossInv(q, o)'
      BY <2>1, <1>2, <1>5 DEF CrossInv
    <2>6. QED
      BY <2>2, <2>3, <2>4, <2>5, <1>5
  <1>13. LifespanInv'
    BY <1>1, <1>2, <1>4, StillDeleting DEF DataTables
  <1>14. QED
    BY <1>2, <1>6, <1>8, <1>9, <1>10, <1>11, <1>12, <1>13, Moves

LEMMA InvCommitDelete ==
    ASSUME IInv, NEW a \in Actors, CommitDelete(a)
    PROVE  IInv'
  <1>1. /\ op[a] \in Op /\ op[a].pc = "deleted" /\ op[a].t \in Threads
    BY DeletesThread DEF CommitDelete, DataTables, IInv, TypeOK
  <1>2. PICK o \in Op : /\ op' = [op EXCEPT ![a] = o]
                        /\ (o = Idle /\ a \in Clients) \/ (o = Asleep /\ a = Sweeper)
    BY OpFacts DEF CommitDelete, Finished, Actors
  <1>3. PICK gone \in SUBSET wiped : /\ buried' = buried \cup gone
                                     /\ acked' = acked \ (buried \cup gone)
                                     /\ wiped' = wiped \ (buried \cup gone)
    BY DEF CommitDelete
  <1>4. /\ phase' = phase /\ conn' = conn /\ view' = view /\ disk' = view /\ made' = made
        /\ crossed' = crossed
    BY DEF CommitDelete, Commit
  <1>5. TypeOK'
    BY <1>2, <1>3, <1>4 DEF IInv, TypeOK
  <1>6. StoreInv'
    BY <1>3, <1>4 DEF IInv, StoreInv, RowsAreOld, AckedIsSeen, WipedIsUnseen, SeenIsTracked,
                AckedIsDurable, DeletedStaysDeleted, TrackedUnlessCrossed
  <1>7. OpShape(a, o) /\ DeletionInv(o)' /\ (a \in Clients => RequestInv(o)')
    BY <1>2, AtRest, OpFacts, StoreAssumption DEF OpShape, DeletionInv, RequestInv
  <1>8. ASSUME NEW b \in Actors \ {a}, NEW q \in Op, op[b] = q
        PROVE  /\ DeletionInv(q)'
               /\ b \in Clients => RequestInv(q)' /\ CrossInv(o, q)'
               /\ a \in Clients => CrossInv(q, o)'
               /\ q.pc \in {"writes", "meta", "deleted"} /\ q.t \in crossed => q.t \in crossed'
    <2>1. DeletionInv(q) /\ (b \in Clients => RequestInv(q))
      BY <1>8 DEF IInv
    <2>2. DeletionInv(q)' /\ (b \in Clients => RequestInv(q)')
      BY <2>1, <1>3, <1>4 DEF DeletionInv, RequestInv
    <2>3. CrossInv(o, q)'
      BY <1>2, OpFacts DEF CrossInv
    <2>4. CrossInv(q, o)'
      BY <1>2, <1>8, DeletesThread, OpFacts DEF CrossInv, DataTables
    <2>5. QED
      BY <2>2, <2>3, <2>4, <1>4
  <1>9. LifespanInv'
    BY <1>1, <1>2, <1>4, StillDeleting
  <1>10. QED
    BY <1>2, <1>5, <1>6, <1>7, <1>8, <1>9, Moves

-----------------------------------------------------------------------------
(* The lifespan. *)

\* A phase ends, and with it perhaps the sweeper.
LEMMA PhaseStep ==
    ASSUME IInv, NEW o \in {op[Sweeper], Off, Asleep}, op' = [op EXCEPT ![Sweeper] = o],
           UNCHANGED <<rows, made, history>>,
           phase' \in {"setup", "serving", "stopping", "closing"}, conn' = TRUE,
           phase' # "serving" => \A c \in Clients : op[c] = Idle,
           phase' \notin {"serving", "stopping"} => o = Off
    PROVE  IInv'
  <1>1. Sweeper \in Actors /\ Sweeper \notin Clients
    BY StoreAssumption DEF Actors
  <1>2. /\ view' = view /\ disk' = disk /\ made' = made
        /\ acked' = acked /\ wiped' = wiped /\ buried' = buried /\ crossed' = crossed
    BY DEF rows, history
  <1>3. /\ o \in Op /\ OpShape(Sweeper, o) /\ DeletionInv(o)
        /\ \A c \in Clients : CrossInv(o, op[c])
    <2>1. CASE o = op[Sweeper]
      BY <2>1, <1>1 DEF IInv, TypeOK
    <2>2. CASE o # op[Sweeper]
      BY <2>2, AtRest, OpFacts
    <2>3. QED
      BY <2>1, <2>2
  <1>4. TypeOK'
    BY <1>2, <1>3 DEF IInv, TypeOK
  <1>5. LifespanInv'
    BY <1>1 DEF IInv, TypeOK, LifespanInv, Actors
  <1>6. StoreInv'
    BY <1>2 DEF IInv, StoreInv, RowsAreOld, AckedIsSeen, WipedIsUnseen, SeenIsTracked,
                AckedIsDurable, DeletedStaysDeleted, TrackedUnlessCrossed
  <1>7. DeletionInv(o)'
    BY <1>2, <1>3 DEF DeletionInv
  <1>8. ASSUME NEW b \in Actors \ {Sweeper}, NEW q \in Op, op[b] = q
        PROVE  DeletionInv(q)' /\ RequestInv(q)' /\ CrossInv(o, q)'
    <2>1. DeletionInv(q) /\ RequestInv(q) /\ CrossInv(o, q)
      BY <1>3, <1>8 DEF IInv, Actors
    <2>2. QED
      BY <2>1, <1>2 DEF DeletionInv, RequestInv, CrossInv
  <1>9. QED
    BY <1>1, <1>2, <1>3, <1>4, <1>5, <1>6, <1>7, <1>8, Moves

\* The rows that were not committed are gone, and with them everyone who wrote them.
LEMMA RollbackStep ==
    ASSUME IInv, Rollback, phase' = "down", conn' = FALSE, made' = made,
           op' = [a \in Actors |-> IF a = Sweeper THEN Off ELSE Idle]
    PROVE  IInv'
  <1>1. /\ view' = disk /\ disk' = disk /\ wiped' = wiped \ disk
        /\ acked' = acked /\ buried' = buried /\ crossed' = crossed
    BY DEF Rollback
  <1>2. op'[Sweeper] = Off /\ \A c \in Clients : op'[c] = Idle
    BY StoreAssumption DEF Actors
  <1>3. TypeOK'
    BY <1>1, OpFacts DEF IInv, TypeOK
  <1>4. LifespanInv'
    BY <1>2 DEF LifespanInv
  <1>5. StoreInv'
    BY <1>1 DEF IInv, StoreInv, RowsAreOld, AckedIsSeen, WipedIsUnseen, SeenIsTracked,
                AckedIsDurable, DeletedStaysDeleted, TrackedUnlessCrossed
  <1>6. ASSUME NEW a \in Actors PROVE (OpShape(a, op[a]) /\ DeletionInv(op[a]))'
    <2>1. op'[a] \in {Idle, Off} /\ (op'[a] = Idle => a # Sweeper) /\ (op'[a] = Off => a = Sweeper)
      BY <1>2, OpFacts DEF Actors
    <2>2. QED
      BY <2>1, OpFacts, RowFacts, StoreAssumption DEF OpShape, DeletionInv, Actors
  <1>7. ASSUME NEW c \in Clients PROVE RequestInv(op[c])'
    BY <1>2, OpFacts DEF RequestInv
  <1>8. ASSUME NEW a \in Actors, NEW c \in Clients PROVE CrossInv(op[a], op[c])'
    <2>1. op'[a] \in {Idle, Off}
      BY <1>2 DEF Actors
    <2>2. QED
      BY <2>1, OpFacts DEF CrossInv
  <1>9. QED
    BY <1>3, <1>4, <1>5, <1>6, <1>7, <1>8 DEF IInv

LEMMA InvLifespan ==
    ASSUME IInv, Lifespan
    PROVE  IInv'
  <1>1. /\ op = [op EXCEPT ![Sweeper] = op[Sweeper]]
        /\ LifespanInv /\ phase \in {"down", "setup", "serving", "stopping", "closing"}
    BY DEF IInv, TypeOK
  <1>2. CASE OpenConnection
    BY <1>1, <1>2, PhaseStep DEF OpenConnection, LifespanInv
  <1>3. CASE Serve
    BY <1>1, <1>3, PhaseStep DEF Serve, LifespanInv
  <1>4. CASE StartFails
    BY <1>1, <1>4, PhaseStep DEF StartFails, LifespanInv
  <1>5. CASE ShutDown
    BY <1>1, <1>5, PhaseStep DEF ShutDown, LifespanInv
  <1>6. CASE StopSweeper
    BY <1>1, <1>6, PhaseStep DEF StopSweeper, LifespanInv
  <1>7. CASE CloseConnection
    <2>1. op \in [Actors -> Op] /\ op[Sweeper] = Off /\ \A c \in Clients : op[c] = Idle
      BY <1>1, <1>7 DEF CloseConnection, LifespanInv, IInv, TypeOK
    <2>2. op = [a \in Actors |-> IF a = Sweeper THEN Off ELSE Idle]
      BY <2>1 DEF Actors
    <2>3. QED
      BY <1>7, <2>2, RollbackStep DEF CloseConnection
  <1>8. CASE Crash
    BY <1>8, RollbackStep DEF Crash
  <1>9. QED
    BY <1>2, <1>3, <1>4, <1>5, <1>6, <1>7, <1>8 DEF Lifespan

-----------------------------------------------------------------------------
(* The invariant is inductive. *)

LEMMA InvInit == Init => IInv
  <1> SUFFICES ASSUME Init PROVE IInv
    OBVIOUS
  <1>1. op[Sweeper] = Off /\ \A c \in Clients : op[c] = Idle
    BY StoreAssumption DEF Init, Actors
  <1>2. TypeOK
    <2>1. op \in [Actors -> Op]
      BY OpFacts DEF Init
    <2>2. made \in 0 .. MaxPuts
      BY StoreAssumption DEF Init
    <2>3. QED
      BY <2>1, <2>2 DEF Init, TypeOK
  <1>3. LifespanInv
    BY <1>1 DEF Init, LifespanInv
  <1>4. StoreInv
    BY DEF Init, StoreInv, RowsAreOld, AckedIsSeen, WipedIsUnseen, SeenIsTracked,
           AckedIsDurable, DeletedStaysDeleted, TrackedUnlessCrossed
  <1>5. \A a \in Actors : OpShape(a, op[a]) /\ DeletionInv(op[a])
    BY <1>1, AtRest DEF Actors
  <1>6. \A c \in Clients : RequestInv(op[c])
    BY <1>1, AtRest
  <1>7. \A a \in Actors, c \in Clients : CrossInv(op[a], op[c])
    BY <1>1, AtRest DEF Actors
  <1>8. QED
    BY <1>2, <1>3, <1>4, <1>5, <1>6, <1>7 DEF IInv

LEMMA InvRequest ==
    ASSUME IInv, NEW c \in Clients, Request(c)
    PROVE  IInv'
  BY InvBegin, InvSelect, InvInsert, InvCommitPut, InvTouch, InvCommitTouch, InvEnds DEF Request

\* A step that changes nothing keeps everything.
LEMMA InvStutter ==
    ASSUME IInv, UNCHANGED vars
    PROVE  IInv'
  BY DEF IInv, vars, rows, history, TypeOK, LifespanInv, StoreInv, RowsAreOld, AckedIsSeen,
         WipedIsUnseen, SeenIsTracked, AckedIsDurable, DeletedStaysDeleted,
         TrackedUnlessCrossed, OpShape, DeletionInv, RequestInv, CrossInv

LEMMA InvNext == IInv /\ [Next]_vars => IInv'
  BY InvLifespan, InvRequest, InvDelete, InvCommitDelete, InvSweep, InvStutter DEF Next

LEMMA Inductive == Spec => []IInv
  BY InvInit, InvNext, PTL DEF Spec

-----------------------------------------------------------------------------
(* The properties. *)

\* The variables of the store keep their types (TouchingCheckpointer and its connection).
THEOREM TypeCorrect == Spec => []TypeOK
  <1>1. IInv => TypeOK
    BY DEF IInv
  <1>2. QED
    BY <1>1, Inductive, PTL

\* A put that aput or aput_writes has returned is on the disk until a DELETE on its own
\* thread takes it, whatever the others do to the connection they share and wherever the
\* process stops.
THEOREM ReturnedPutsAreDurable == Spec => []AckedIsDurable
  <1>1. IInv => AckedIsDurable
    BY DEF IInv, StoreInv
  <1>2. QED
    BY <1>1, Inductive, PTL

\* Once adelete_thread has returned, no crash and no commit of another brings a row back.
THEOREM DeletionsAreFinal == Spec => []DeletedStaysDeleted
  <1>1. IInv => DeletedStaysDeleted
    BY DEF IInv, StoreInv
  <1>2. QED
    BY <1>1, Inductive, PTL

\* The sweeper can find every thread that has data, on the disk and in the view, unless the
\* thread was deleted under a request: _touch commits the meta row before a leg's first put,
\* and adelete_thread deletes it last.
THEOREM DataIsTracked == Spec => []TrackedUnlessCrossed
  <1>1. IInv => TrackedUnlessCrossed
    BY DEF IInv, StoreInv
  <1>2. QED
    BY <1>1, Inductive, PTL

\* The connection is open in every phase of the lifespan but "down", and nobody is in
\* the middle of anything while it is closed.
THEOREM NobodyUsesAClosedConnection == Spec => []ClosedWhenUnused
  <1>1. IInv => ClosedWhenUnused
    BY DEF IInv, LifespanInv, ClosedWhenUnused, Actors
  <1>2. QED
    BY <1>1, Inductive, PTL

-----------------------------------------------------------------------------
(* The statements on the three tables implement SessionStore. *)

\* A row more, or the rows of a table and a thread fewer, is a statement there, or none.
LEMMA StatementView ==
    ASSUME IInv, NEW t \in Threads,
           \/ \E tbl \in DataTables, n \in Nat : view' = view \cup {[tbl |-> tbl, t |-> t, n |-> n]}
           \/ view' = view \cup {MetaRow(t)}
           \/ \E tbl \in DataTables \cup {"meta"} : view' = view \ Of(tbl, t)
    PROVE  Store!Statement \/ UNCHANGED Store!seen
  <1>1. view \subseteq Row
    BY DEF IInv, TypeOK
  <1>2. ASSUME NEW tbl \in DataTables, NEW n \in Nat,
               view' = view \cup {[tbl |-> tbl, t |-> t, n |-> n]}
        PROVE  Store!Statement \/ UNCHANGED Store!seen
    <2> DEFINE r == [tbl |-> tbl, t |-> t, n |-> n]
    <2>1. WithMeta(view') = WithMeta(view)
      BY <1>2 DEF WithMeta, MetaRow, DataTables
    <2>2. r.tbl = tbl /\ r.t = t /\ view' = view \cup {r}
      BY <1>2
    <2> HIDE DEF r
    <2>3. CASE tbl = "checkpoints"
      <3>1. WithCheckpoints(view') = WithCheckpoints(view) \cup {t}
        BY <2>2, <2>3 DEF WithCheckpoints
      <3>2. QED
        BY <2>1, <3>1 DEF Store!Statement, Store!Put
    <2>4. CASE tbl # "checkpoints"
      <3>1. WithCheckpoints(view') = WithCheckpoints(view)
        BY <2>2, <2>4 DEF WithCheckpoints
      <3>2. QED
        BY <2>1, <3>1 DEF Store!seen
    <2>5. QED
      BY <2>3, <2>4
  <1>3. CASE view' = view \cup {MetaRow(t)}
    <2>1. WithMeta(view') = WithMeta(view) \cup {t}
      BY <1>3 DEF WithMeta, MetaRow
    <2>2. WithCheckpoints(view') = WithCheckpoints(view)
      BY <1>3 DEF WithCheckpoints, MetaRow
    <2>3. QED
      BY <2>1, <2>2 DEF Store!Statement, Store!Track
  <1>4. CASE view' = view \ Of("meta", t)
    <2>1. WithMeta(view') = WithMeta(view) \ {t}
      BY <1>1, <1>4, RowFacts DEF WithMeta, Of, MetaRow
    <2>2. WithCheckpoints(view') = WithCheckpoints(view)
      BY <1>4 DEF WithCheckpoints, Of
    <2>3. QED
      BY <2>1, <2>2 DEF Store!Statement, Store!Forget
  <1>5. ASSUME NEW tbl \in DataTables, view' = view \ Of(tbl, t)
        PROVE  Store!Statement \/ UNCHANGED Store!seen
    <2>1. WithMeta(view') = WithMeta(view)
      BY <1>5 DEF WithMeta, Of, MetaRow, DataTables
    <2>2. WithCheckpoints(view') = WithCheckpoints(view) \ (IF tbl = "checkpoints" THEN {t} ELSE {})
      BY <1>5 DEF WithCheckpoints, Of, DataTables
    <2>3. QED
      BY <2>1, <2>2 DEF Store!Statement, Store!DropRows, Store!seen
  <1>6. QED
    BY <1>2, <1>3, <1>4, <1>5

\* A statement is pending until someone commits.
LEMMA StoreStatement ==
    ASSUME IInv,
           \/ \E c \in Clients : Touch(c) \/ \E tbl \in DataTables : Insert(c, tbl)
           \/ \E a \in Actors : Delete(a)
    PROVE  Store!Next
  <1>1. disk' = disk
    BY DEF Touch, Insert, Delete
  <1>2. UNCHANGED Store!durable
    BY <1>1 DEF Store!durable, WithCheckpoints, WithMeta
  <1>3. Store!Statement \/ UNCHANGED Store!seen
    <2>1. ASSUME NEW c \in Clients, Touch(c) PROVE Store!Statement \/ UNCHANGED Store!seen
      <3>1. op[c].t \in Threads /\ view' = view \cup {MetaRow(op[c].t)}
        BY <2>1, OneRequest, OpFacts DEF Touch
      <3>2. QED
        BY <3>1, StatementView
    <2>2. ASSUME NEW c \in Clients, NEW tbl \in DataTables, Insert(c, tbl)
          PROVE  Store!Statement \/ UNCHANGED Store!seen
      <3>1. op[c].t \in Threads /\ made + 1 \in Nat
        <4>1. op[c].t \in Threads
          BY <2>2, OneRequest, OpFacts DEF Insert
        <4>2. made \in Nat
          BY StoreAssumption DEF IInv, TypeOK
        <4>3. QED
          BY <4>1, <4>2
      <3>2. view' = view \cup {[tbl |-> tbl, t |-> op[c].t, n |-> made + 1]}
        BY <2>2 DEF Insert
      <3>3. QED
        BY <3>1, <3>2, StatementView
    <2>3. ASSUME NEW a \in Actors, Delete(a) PROVE Store!Statement \/ UNCHANGED Store!seen
      <3>1. op[a].t \in Threads /\ op[a].pc \in DataTables \cup {"meta"}
        BY <2>3, DeletesThread DEF Delete
      <3>2. view' = view \ Of(op[a].pc, op[a].t)
        BY <2>3 DEF Delete
      <3>3. QED
        BY <3>1, <3>2, StatementView
    <2>4. QED
      BY <2>1, <2>2, <2>3
  <1>4. QED
    BY <1>2, <1>3 DEF Store!Next

\* Every commit is of all that is seen.
LEMMA StoreCommit ==
    ASSUME Commit
    PROVE  Store!Next
  <1>1. disk' = view /\ view' = view
    BY DEF Commit
  <1>2. Store!Commit /\ UNCHANGED Store!seen
    BY <1>1 DEF Store!Commit, Store!seen, WithCheckpoints, WithMeta
  <1>3. QED
    BY <1>2 DEF Store!Next

\* Closing the connection and losing the process give back what is on the disk.
LEMMA StoreRollback ==
    ASSUME Rollback
    PROVE  Store!Next
  <1>1. view' = disk /\ disk' = disk
    BY DEF Rollback
  <1>2. Store!Rollback
    BY <1>1 DEF Store!Rollback, Store!durable, WithCheckpoints, WithMeta
  <1>3. QED
    BY <1>2 DEF Store!Next

LEMMA StoreStays ==
    ASSUME UNCHANGED rows
    PROVE  UNCHANGED Store!vars
  BY DEF rows, Store!vars, Store!seen, Store!durable, WithCheckpoints, WithMeta

LEMMA StoreInit == Init => Store!Init
  BY DEF Init, Store!Init, WithCheckpoints, WithMeta

LEMMA StoreNext == IInv /\ [Next]_vars => [Store!Next]_(Store!vars)
  <1> SUFFICES ASSUME IInv, Next, ~UNCHANGED rows PROVE Store!Next
    BY StoreStays DEF vars
  <1>1. CASE Lifespan
    BY <1>1, StoreRollback
    DEF Lifespan, OpenConnection, Serve, StartFails, ShutDown, StopSweeper, CloseConnection, Crash
  <1>2. ASSUME NEW c \in Clients, Request(c) PROVE Store!Next
    <2>1. \/ Commit \/ Touch(c) \/ \E tbl \in DataTables : Insert(c, tbl)
      BY <1>2 DEF Request, Begin, Select, CommitPut, CommitTouch, EndLeg, Abandon
    <2>2. QED
      BY <2>1, StoreCommit, StoreStatement
  <1>3. ASSUME NEW a \in Actors, Delete(a) \/ CommitDelete(a) PROVE Store!Next
    BY <1>3, StoreCommit, StoreStatement DEF CommitDelete
  <1>4. ~Sweep
    BY DEF Sweep, ListStale, SkipDelete, SweeperDies
  <1>5. QED
    BY <1>1, <1>2, <1>3, <1>4 DEF Next

\* However the statements of the requests and of the sweeper interleave, the rows are
\* SessionStore's: the store TurnServer takes for granted.
THEOREM RowsAreTheStore == Spec => ImplementsStore
  BY StoreInit, StoreNext, Inductive, PTL DEF Spec, ImplementsStore, Store!Spec

=============================================================================
