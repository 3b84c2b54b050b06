------------------------- MODULE DecisionLegsProofs -------------------------
(***************************************************************************)
(* TLAPS proofs about DecisionLegs: the inductive invariant of overlapping *)
(* legs, the safety properties it implies, and the refinement of           *)
(* DecisionRound by the threads that have one leg at a time.               *)
(***************************************************************************)
EXTENDS DecisionLegs, TLAPS

-----------------------------------------------------------------------------
(* The inductive invariant. *)

\* What every checkpoint satisfies, in the store and in a leg's memory: weights are
\* committed from an answer, and a decision is made from the weights beside it.
Sound(m) ==
    /\ m.phase = "deciding" => m.basis # NoAnswer
    /\ m.phase = "decided" => m.decision = m.basis /\ m.basis # NoAnswer

\* Where leg l is and what it holds there.
Shape(l) ==
    /\ Sound(l.mem)
    /\ l.pc = "idle" => l = Idle
    /\ l.pc # "idle" => l.t \in Threads /\ l.kind # "none"
    /\ l.kind = "start" => l.pc \in {"load", "node", "call", "drain"}
    /\ l.kind = "resume" => l.answer \in Answers
    /\ l.pc \in {"node", "call"} => l.mem.phase \in {"framing", "asked", "deciding"}
    /\ l.kind = "start" /\ l.pc \in {"node", "call"} => l.mem.phase = "framing"

\* Once a resume has saved its answer its thread, whose checkpoint is s, holds an
\* answer, until it is deleted.
Answered(l, s) ==
    l.kind = "resume" =>
        /\ l.pc \in {"load", "node", "call", "drain"} => s = Gone \/ s.answer # NoAnswer
        /\ l.pc \in {"node", "call"} => l.mem.answer # NoAnswer

\* The leg of an exclusive thread works on what is saved.
Private(l, s) ==
    l.t \in Exclusive =>
        /\ l.pc \in {"update", "node", "call", "drain"} => l.mem = s
        /\ l.kind = "start" /\ l.pc = "load" => s = NoCheckpoint
        /\ l.kind = "resume" => s.input = 1 /\ s.phase \in {"asked", "deciding", "decided"}
        /\ l.kind = "resume" /\ l.pc = "drain" => s.phase = "decided"

Fits(l, s) == Shape(l) /\ Answered(l, s) /\ Private(l, s)

\* A thread has one first leg or any number of resumes, an exclusive one a single leg.
Apart(l, k) == l.t = k.t => l.kind # "start" /\ l.t \notin Exclusive

\* An exclusive thread is never deleted and never loses its dilemma.
Kept(s) == s # NoCheckpoint => s.input = 1 /\ s.phase \in Phases \ {"empty"}

LegsFit == \A c \in Callers : Fits(leg[c], saved[leg[c].t])
LegsApart == \A c, d \in Callers : c # d => Apart(leg[c], leg[d])
StoreInv == \A t \in Threads : Sound(saved[t]) /\ (t \in Exclusive => Kept(saved[t]))

IInv ==
    /\ TypeOK /\ StoreInv /\ LegsFit /\ LegsApart
    /\ OverrideNeverLeaks /\ DoneHoldsDecision

-----------------------------------------------------------------------------
(* Checkpoints and legs. *)

\* The values that stand for "nothing yet" have their types, and fit anything.
LEMMA Blanks ==
    /\ NoCheckpoint \in Checkpoint /\ Sound(NoCheckpoint) /\ Kept(NoCheckpoint)
    /\ Idle \in Leg /\ Idle.t = NoThread /\ Idle.kind = "none" /\ Idle.pc = "idle"
    /\ Sound(Gone) /\ Gone \notin Checkpoint /\ ~Kept(Gone) /\ Gone # NoCheckpoint
    /\ NoThread \notin Exclusive
    /\ \A s : Fits(Idle, s)
  <1>1. NoCheckpoint \in Checkpoint /\ Gone.phase = "gone"
    BY DEF NoCheckpoint, Gone, Checkpoint, Phases, AnswerOrNone
  <1>2. Idle \in Leg
    BY <1>1 DEF Idle, Leg, AnswerOrNone
  <1>3. Gone \notin Checkpoint /\ Gone # NoCheckpoint
    BY <1>1 DEF Checkpoint, Phases
  <1>4. NoThread \notin Exclusive
    BY LegsAssumption
  <1>5. Sound(NoCheckpoint) /\ Kept(NoCheckpoint) /\ Sound(Gone) /\ ~Kept(Gone)
    BY <1>1, <1>3 DEF Sound, Kept, NoCheckpoint, Phases
  <1>6. \A s : Fits(Idle, s)
    BY <1>4, <1>5 DEF Fits, Shape, Answered, Private, Idle
  <1>7. QED
    BY <1>1, <1>2, <1>3, <1>4, <1>5, <1>6 DEF Idle

\* What a deleted thread is read as.
LEMMA ReadType ==
    ASSUME IInv, NEW t \in Threads
    PROVE  /\ Read(t) \in Checkpoint /\ Sound(Read(t))
           /\ Read(t) = IF saved[t] = Gone THEN NoCheckpoint ELSE saved[t]
           /\ t \in Exclusive => Read(t) = saved[t]
  BY Blanks DEF IInv, TypeOK, StoreInv, Read

\* What the nodes make of a sound checkpoint.
LEMMA ResultsAreSound ==
    ASSUME NEW m \in Checkpoint, Sound(m), m.phase \in {"framing", "asked", "deciding"},
           m.phase = "asked" => m.answer # NoAnswer,
           NEW r \in Results(m)
    PROVE  /\ r \in Checkpoint /\ Sound(r)
           /\ r.input = m.input /\ r.answer = m.answer
           /\ r.phase # "empty"
           /\ m.phase = "framing" => r.phase \in {"framing", "asked"}
           /\ m.phase # "framing" => r.phase \in {"deciding", "decided"}
  <1>1. CASE m.phase = "framing"
    BY <1>1 DEF Results, Checkpoint, Phases, Sound
  <1>2. CASE m.phase = "asked"
    BY <1>2 DEF Results, Checkpoint, Phases, Sound
  <1>3. CASE m.phase = "deciding"
    BY <1>3 DEF Results, Checkpoint, Phases, Sound
  <1>4. QED
    BY <1>1, <1>2, <1>3

-----------------------------------------------------------------------------
(* Steps. *)

\* A step of leg c that leaves checkpoint m on its thread keeps the invariant when
\* the leg still fits and no resume on the thread loses its answer.
LEMMA LegStep ==
    ASSUME IInv, NEW c \in Callers, Active(c), NEW l \in Leg,
           NEW m \in Checkpoint \cup {Gone},
           leg' = [leg EXCEPT ![c] = l],
           saved' = [saved EXCEPT ![leg[c].t] = m],
           UNCHANGED <<override, reply>>,
           l.pc # "idle", l.t = leg[c].t, l.kind = leg[c].kind,
           Fits(l, m), Sound(m),
           leg[c].t \in Exclusive => Kept(m),
           leg[c].kind = "resume" => m = saved[leg[c].t] \/ m.answer # NoAnswer
    PROVE  IInv'
  <1>1. leg[c].t \in Threads
    BY DEF IInv, LegsFit, Fits, Shape, Active
  <1>2. /\ leg'[c] = l /\ \A d \in Callers \ {c} : leg'[d] = leg[d]
        /\ saved'[leg[c].t] = m /\ \A t \in Threads \ {leg[c].t} : saved'[t] = saved[t]
    BY <1>1 DEF IInv, TypeOK
  <1>3. TypeOK'
    BY <1>1 DEF IInv, TypeOK
  <1>4. StoreInv'
    BY <1>1, <1>2 DEF IInv, StoreInv
  <1>5. LegsFit'
    <2> SUFFICES ASSUME NEW d \in Callers PROVE Fits(leg'[d], saved'[leg'[d].t])
      BY DEF LegsFit
    <2>1. CASE d = c
      BY <2>1, <1>2
    <2>2. CASE d # c /\ leg[d].t = leg[c].t
      <3>1. /\ Fits(leg[d], saved[leg[d].t]) /\ leg'[d] = leg[d]
            /\ Apart(leg[c], leg[d]) /\ Apart(leg[d], leg[c])
        BY <2>2, <1>2 DEF IInv, LegsFit, LegsApart
      <3>2. leg[c].kind = "resume" /\ leg[d].t \notin Exclusive
        BY <2>2, <3>1 DEF IInv, TypeOK, Leg, LegsFit, Fits, Shape, Active, Apart
      <3>3. m = saved[leg[d].t] \/ m.answer # NoAnswer
        BY <2>2, <3>2
      <3>4. QED
        BY <2>2, <3>1, <3>2, <3>3, <1>2 DEF Fits, Answered, Private
    <2>3. CASE d # c /\ leg[d].t # leg[c].t
      <3>1. Fits(leg[d], saved[leg[d].t]) /\ leg'[d] = leg[d]
        BY <2>3, <1>2 DEF IInv, LegsFit
      <3>2. CASE leg[d].t \in Threads
        BY <2>3, <3>1, <3>2, <1>2
      <3>3. CASE leg[d].t \notin Threads
        BY <3>1, <3>3, Blanks DEF Fits, Shape
      <3>4. QED
        BY <3>2, <3>3
    <2>4. QED
      BY <2>1, <2>2, <2>3
  <1>6. LegsApart'
    BY <1>2 DEF IInv, LegsApart, Apart
  <1>7. OverrideNeverLeaks'
    BY <1>2 DEF OverrideNeverLeaks, Active
  <1>8. DoneHoldsDecision'
    BY DEF IInv, DoneHoldsDecision
  <1>9. QED
    BY <1>3, <1>4, <1>5, <1>6, <1>7, <1>8 DEF IInv

\* aupdate_state reads.
LEMMA InvInject == ASSUME IInv, NEW c \in Callers, Inject(c) PROVE IInv'
  <1> DEFINE m == Read(leg[c].t)
             l == [leg[c] EXCEPT !.pc = "update", !.mem = m]
  <1>1. /\ leg[c] \in Leg /\ leg[c].t \in Threads /\ leg[c].kind = "resume"
        /\ Fits(leg[c], saved[leg[c].t]) /\ Active(c)
    BY DEF IInv, TypeOK, LegsFit, Fits, Shape, Inject, Leg, Active
  <1>2. /\ m \in Checkpoint /\ Sound(m)
        /\ leg[c].t \in Exclusive => m = saved[leg[c].t]
    BY <1>1, ReadType
  <1>3. l \in Leg /\ leg' = [leg EXCEPT ![c] = l] /\ UNCHANGED <<override, reply>>
    BY <1>1, <1>2 DEF Inject, Set, Leg
  <1>4. Fits(l, saved[leg[c].t])
    BY <1>1, <1>2 DEF Inject, Fits, Shape, Answered, Private, Leg
  <1>5. /\ saved' = [saved EXCEPT ![leg[c].t] = saved[leg[c].t]]
        /\ saved[leg[c].t] \in Checkpoint \cup {Gone}
    BY <1>1 DEF Inject, IInv, TypeOK
  <1>6. Sound(saved[leg[c].t]) /\ (leg[c].t \in Exclusive => Kept(saved[leg[c].t]))
    BY <1>1 DEF IInv, StoreInv
  <1>7. l.pc # "idle" /\ l.t = leg[c].t /\ l.kind = leg[c].kind
    BY <1>1 DEF Leg
  <1>8. QED
    <2> HIDE DEF l, m
    <2>1. QED
      BY <1>1, <1>3, <1>4, <1>5, <1>6, <1>7, LegStep

\* aupdate_state saves the answer.
LEMMA InvUpdate == ASSUME IInv, NEW c \in Callers, Update(c) PROVE IInv'
  <1> DEFINE m == [leg[c].mem EXCEPT !.answer = leg[c].answer,
                                     !.phase = IF @ = "empty" THEN "framing" ELSE @]
             l == [leg[c] EXCEPT !.pc = "load"]
  <1>1. /\ leg[c] \in Leg /\ leg[c].t \in Threads /\ leg[c].kind = "resume"
        /\ Fits(leg[c], saved[leg[c].t]) /\ Active(c)
        /\ leg[c].answer \in Answers
    BY DEF IInv, TypeOK, LegsFit, Fits, Shape, Update, Leg, Active
  <1>2. m \in Checkpoint /\ m.answer # NoAnswer /\ m.input = leg[c].mem.input
        /\ m.phase = IF leg[c].mem.phase = "empty" THEN "framing" ELSE leg[c].mem.phase
    BY <1>1, LegsAssumption DEF Leg, Checkpoint, Phases, AnswerOrNone
  <1>3. l \in Leg /\ leg' = [leg EXCEPT ![c] = l] /\ UNCHANGED <<override, reply>>
        /\ saved' = [saved EXCEPT ![leg[c].t] = m]
    BY <1>1 DEF Update, Set, Leg
  <1>4. Sound(m)
    BY <1>1 DEF Fits, Shape, Sound, Leg, Checkpoint
  <1>5. leg[c].t \in Exclusive => Kept(m)
    BY <1>1, <1>2 DEF Update, Fits, Private, Kept, Leg, Checkpoint, Phases
  <1>6. l.pc # "idle" /\ l.t = leg[c].t /\ l.kind = leg[c].kind
    BY <1>1 DEF Leg
  <1>7. Fits(l, m)
    <2> HIDE DEF m
    <2>1. QED
      BY <1>1, <1>2 DEF Update, Fits, Shape, Answered, Private, Leg
  <1>8. QED
    <2> HIDE DEF l, m
    <2>1. QED
      BY <1>1, <1>2, <1>3, <1>4, <1>5, <1>6, <1>7, LegStep

\* astream(None) loads what is saved.
LEMMA InvLoad == ASSUME IInv, NEW c \in Callers, Load(c) PROVE IInv'
  <1> DEFINE m == Read(leg[c].t)
             l == [leg[c] EXCEPT !.pc = IF m.phase \in {"empty", "decided"} THEN "drain" ELSE "node",
                                 !.mem = m]
  <1>1. /\ leg[c] \in Leg /\ leg[c].t \in Threads /\ leg[c].kind = "resume"
        /\ Fits(leg[c], saved[leg[c].t]) /\ Active(c)
    BY DEF IInv, TypeOK, LegsFit, Fits, Shape, Load, Leg, Active
  <1>2. /\ m \in Checkpoint /\ Sound(m)
        /\ m = IF saved[leg[c].t] = Gone THEN NoCheckpoint ELSE saved[leg[c].t]
        /\ leg[c].t \in Exclusive => m = saved[leg[c].t]
    BY <1>1, ReadType
  <1>3. l \in Leg /\ leg' = [leg EXCEPT ![c] = l] /\ UNCHANGED <<override, reply>>
    BY <1>1, <1>2 DEF Load, Set, Leg
  <1>4. NoCheckpoint.phase = "empty"
    BY DEF NoCheckpoint
  <1>5. /\ l.pc = IF m.phase \in {"empty", "decided"} THEN "drain" ELSE "node"
        /\ l.t = leg[c].t /\ l.kind = leg[c].kind /\ l.mem = m /\ l.answer = leg[c].answer
    BY <1>1 DEF Leg
  <1>6. Fits(l, saved[leg[c].t])
    <2>1. Shape(l)
      BY <1>1, <1>2, <1>5 DEF Load, Fits, Shape, Checkpoint, Phases
    <2>2. Answered(l, saved[leg[c].t])
      BY <1>1, <1>2, <1>4, <1>5 DEF Load, Fits, Answered
    <2>3. Private(l, saved[leg[c].t])
      BY <1>1, <1>2, <1>5 DEF Load, Fits, Private
    <2>4. QED
      BY <2>1, <2>2, <2>3 DEF Fits
  <1>7. /\ saved' = [saved EXCEPT ![leg[c].t] = saved[leg[c].t]]
        /\ saved[leg[c].t] \in Checkpoint \cup {Gone}
    BY <1>1 DEF Load, IInv, TypeOK
  <1>8. Sound(saved[leg[c].t]) /\ (leg[c].t \in Exclusive => Kept(saved[leg[c].t]))
    BY <1>1 DEF IInv, StoreInv
  <1>9. QED
    <2> HIDE DEF l, m
    <2>1. QED
      BY <1>1, <1>3, <1>5, <1>6, <1>7, <1>8, LegStep

\* astream(initial_state) saves the input.
LEMMA InvSeed == ASSUME IInv, NEW c \in Callers, Seed(c) PROVE IInv'
  <1> DEFINE m == [NoCheckpoint EXCEPT !.phase = "framing", !.input = 1]
             l == [leg[c] EXCEPT !.pc = "node", !.mem = m]
  <1>1. /\ leg[c] \in Leg /\ leg[c].t \in Threads /\ leg[c].kind = "start"
        /\ Fits(leg[c], saved[leg[c].t]) /\ Active(c)
    BY DEF IInv, TypeOK, LegsFit, Fits, Shape, Seed, Leg, Active
  <1>2. m \in Checkpoint /\ m.phase = "framing" /\ m.input = 1
    <2>1. NoCheckpoint \in Checkpoint
      BY Blanks
    <2>a. 1 \in 0 .. 1 /\ "framing" \in Phases
      BY DEF Phases
    <2>2. m \in Checkpoint
      BY <2>1, <2>a DEF Checkpoint
    <2>3. m.phase = "framing" /\ m.input = 1
      BY <2>1 DEF Checkpoint
    <2>4. QED
      BY <2>2, <2>3
  <1>3. l \in Leg /\ leg' = [leg EXCEPT ![c] = l] /\ UNCHANGED <<override, reply>>
        /\ saved' = [saved EXCEPT ![leg[c].t] = m]
    BY <1>1, <1>2 DEF Seed, Set, Leg
  <1>4. Sound(m) /\ Kept(m)
    BY <1>2 DEF Sound, Kept, Phases
  <1>5. l.pc = "node" /\ l.t = leg[c].t /\ l.kind = "start" /\ l.mem = m
    BY <1>1 DEF Leg
  <1>6. Fits(l, m)
    <2> HIDE DEF l, m
    <2>1. QED
      BY <1>1, <1>2, <1>4, <1>5 DEF Fits, Shape, Answered, Private
  <1>7. QED
    <2> HIDE DEF l, m
    <2>1. QED
      BY <1>1, <1>2, <1>3, <1>4, <1>5, <1>6, LegStep

\* A node resolves its LLM.
LEMMA InvEnter == ASSUME IInv, NEW c \in Callers, Enter(c) PROVE IInv'
  <1> DEFINE l == [leg[c] EXCEPT !.pc = "call", !.llm = IF override THEN "injected" ELSE "env"]
  <1>1. /\ leg[c] \in Leg /\ leg[c].t \in Threads /\ leg[c].pc = "node"
        /\ Fits(leg[c], saved[leg[c].t]) /\ Active(c)
    BY DEF IInv, TypeOK, LegsFit, Fits, Shape, Enter, Leg, Active
  <1>2. l \in Leg /\ leg' = [leg EXCEPT ![c] = l] /\ UNCHANGED <<override, reply>>
    BY <1>1 DEF Enter, Set, Leg
  <1>3. /\ l.pc = "call" /\ l.t = leg[c].t /\ l.kind = leg[c].kind /\ l.mem = leg[c].mem
        /\ l.answer = leg[c].answer
    BY <1>1 DEF Leg
  <1>4. Fits(l, saved[leg[c].t])
    <2> HIDE DEF l
    <2>1. QED
      BY <1>1, <1>3 DEF Fits, Shape, Answered, Private
  <1>5. /\ saved' = [saved EXCEPT ![leg[c].t] = saved[leg[c].t]]
        /\ saved[leg[c].t] \in Checkpoint \cup {Gone}
    BY <1>1 DEF Enter, IInv, TypeOK
  <1>6. Sound(saved[leg[c].t]) /\ (leg[c].t \in Exclusive => Kept(saved[leg[c].t]))
    BY <1>1 DEF IInv, StoreInv
  <1>7. QED
    <2> HIDE DEF l
    <2>1. QED
      BY <1>1, <1>2, <1>3, <1>4, <1>5, <1>6, LegStep

\* A node returns and its leg saves.
LEMMA InvSave == ASSUME IInv, NEW c \in Callers, Save(c) PROVE IInv'
  <1>1. /\ leg[c] \in Leg /\ leg[c].t \in Threads /\ leg[c].pc = "call"
        /\ Fits(leg[c], saved[leg[c].t]) /\ Active(c)
        /\ leg[c].mem \in Checkpoint /\ Sound(leg[c].mem)
        /\ leg[c].mem.phase \in {"framing", "asked", "deciding"}
        /\ leg[c].kind \in {"start", "resume"}
    BY DEF IInv, TypeOK, LegsFit, Fits, Shape, Save, Leg, Active
  <1> DEFINE L(m) == [leg[c] EXCEPT !.pc = IF m.phase \in {"asked", "decided"} THEN "drain" ELSE "node",
                                    !.mem = m, !.llm = "none"]
  <1>2. PICK m \in Results(leg[c].mem) :
           /\ saved' = [saved EXCEPT ![leg[c].t] = m]
           /\ leg' = [leg EXCEPT ![c] = L(m)]
           /\ UNCHANGED <<override, reply>>
    BY DEF Save, Set
  <1>3. leg[c].mem.phase = "asked" => leg[c].mem.answer # NoAnswer
    BY <1>1 DEF Fits, Shape, Answered
  <1>4. /\ m \in Checkpoint /\ Sound(m)
        /\ m.input = leg[c].mem.input /\ m.answer = leg[c].mem.answer
        /\ m.phase # "empty"
        /\ leg[c].mem.phase = "framing" => m.phase \in {"framing", "asked"}
        /\ leg[c].mem.phase # "framing" => m.phase \in {"deciding", "decided"}
    BY <1>1, <1>3, ResultsAreSound
  <1> DEFINE l == L(m)
  <1>5. l \in Leg
    BY <1>1, <1>4 DEF Leg
  <1>6. /\ l.pc = IF m.phase \in {"asked", "decided"} THEN "drain" ELSE "node"
        /\ l.t = leg[c].t /\ l.kind = leg[c].kind /\ l.mem = m
        /\ l.answer = leg[c].answer
    BY <1>1 DEF Leg
  <1>7. leg' = [leg EXCEPT ![c] = l]
    BY <1>2
  <1> HIDE DEF l, L
  <1>8. Shape(l)
    BY <1>1, <1>4, <1>6 DEF Fits, Shape
  <1>9. leg[c].kind = "resume" => m.answer # NoAnswer
    BY <1>1, <1>4 DEF Fits, Answered
  <1>10. Answered(l, m)
    BY <1>6, <1>9 DEF Answered
  <1>11. leg[c].t \in Exclusive => Kept(m)
    <2> SUFFICES ASSUME leg[c].t \in Exclusive PROVE Kept(m)
      OBVIOUS
    <2>1. leg[c].mem = saved[leg[c].t] /\ Kept(saved[leg[c].t])
      BY <1>1 DEF Fits, Private, IInv, StoreInv
    <2>2. leg[c].mem.input = 1
      BY <1>1, <2>1 DEF Kept, NoCheckpoint
    <2>3. QED
      BY <1>4, <2>2 DEF Kept, Checkpoint
  <1>12. Private(l, m)
    <2> SUFFICES ASSUME leg[c].t \in Exclusive PROVE Private(l, m)
      BY <1>6 DEF Private
    <2>1. CASE leg[c].kind = "start"
      BY <1>6, <2>1 DEF Private
    <2>2. CASE leg[c].kind = "resume"
      <3>1. /\ leg[c].mem.input = 1
            /\ leg[c].mem.phase \in {"asked", "deciding"}
        BY <1>1, <2>2 DEF Fits, Private
      <3>2. m.input = 1 /\ m.phase \in {"deciding", "decided"}
        BY <1>4, <3>1
      <3>3. QED
        BY <1>6, <3>2 DEF Private
    <2>3. QED
      BY <1>1, <2>1, <2>2
  <1>13. QED
    BY <1>1, <1>2, <1>4, <1>5, <1>6, <1>7, <1>8, <1>9, <1>10, <1>11, <1>12, LegStep DEF Fits

\* A call begins.
LEMMA InvBegin ==
    ASSUME IInv, NEW c \in Callers, NEW l \in Leg, Begin(c, l),
           Fits(l, saved[l.t]), l.pc # "idle",
           \A d \in Callers : Apart(l, leg[d]) /\ Apart(leg[d], l)
    PROVE  IInv'
  <1>1. /\ leg'[c] = l /\ \A d \in Callers \ {c} : leg'[d] = leg[d]
        /\ saved' = saved /\ override' = TRUE
    BY DEF Begin, IInv, TypeOK
  <1>2. TypeOK'
    BY DEF Begin, IInv, TypeOK, NoReply, AnswerOrNone
  <1>3. LegsFit' /\ StoreInv'
    BY <1>1 DEF IInv, LegsFit, StoreInv
  <1>4. LegsApart'
    BY <1>1 DEF IInv, LegsApart
  <1>5. OverrideNeverLeaks'
    BY <1>1 DEF OverrideNeverLeaks, Active
  <1>6. DoneHoldsDecision'
    BY DEF Begin, IInv, TypeOK, DoneHoldsDecision, NoReply
  <1>7. QED
    BY <1>2, <1>3, <1>4, <1>5, <1>6 DEF IInv

\* A new thread.
LEMMA InvStart ==
    ASSUME IInv, NEW c \in Callers, NEW t \in Threads, stream_session(c, t)
    PROVE  IInv'
  <1> DEFINE l == [Idle EXCEPT !.pc = "load", !.kind = "start", !.t = t]
  <1>1. l \in Leg /\ l.pc = "load" /\ l.kind = "start" /\ l.t = t /\ l.mem = NoCheckpoint
    BY Blanks DEF Idle, Leg
  <1>2. /\ saved[t] = NoCheckpoint /\ Begin(c, l)
        /\ \A d \in Callers : leg[d].t # t
    BY DEF stream_session
  <1> HIDE DEF l
  <1>3. Fits(l, saved[l.t])
    BY <1>1, <1>2, Blanks DEF Fits, Shape, Answered, Private
  <1>4. \A d \in Callers : Apart(l, leg[d]) /\ Apart(leg[d], l)
    BY <1>1, <1>2 DEF Apart
  <1>5. QED
    BY <1>1, <1>2, <1>3, <1>4, InvBegin

\* An answer.
LEMMA InvResume ==
    ASSUME IInv, NEW c \in Callers, NEW t \in Threads, NEW a \in Answers,
           stream_resume_session(c, t, a)
    PROVE  IInv'
  <1> DEFINE l == [Idle EXCEPT !.pc = "inject", !.kind = "resume", !.t = t, !.answer = a]
  <1>1. /\ l \in Leg /\ l.pc = "inject" /\ l.kind = "resume" /\ l.t = t
        /\ l.mem = NoCheckpoint /\ l.answer = a
    BY Blanks DEF Idle, Leg, AnswerOrNone
  <1>2. /\ saved[t] \notin {NoCheckpoint, Gone} /\ Known(t) /\ Begin(c, l)
        /\ \A d \in Callers : leg[d].t = t => leg[d].kind = "resume" /\ t \notin Exclusive
    BY DEF stream_resume_session
  <1> HIDE DEF l
  <1>3. t \in Exclusive => saved[t].input = 1 /\ saved[t].phase \in {"asked", "deciding", "decided"}
    BY <1>2 DEF IInv, StoreInv, Kept, Known, Phases
  <1>4. Fits(l, saved[l.t])
    BY <1>1, <1>3, Blanks DEF Fits, Shape, Answered, Private
  <1>5. \A d \in Callers : Apart(l, leg[d]) /\ Apart(leg[d], l)
    BY <1>1, <1>2 DEF Apart
  <1>6. QED
    BY <1>1, <1>2, <1>4, <1>5, InvBegin

\* A call is over, with or without a reply.
LEMMA InvIdle ==
    ASSUME IInv, NEW c \in Callers,
           leg' = [leg EXCEPT ![c] = Idle], saved' = saved, override' = FALSE
    PROVE  /\ StoreInv' /\ LegsFit' /\ LegsApart' /\ OverrideNeverLeaks'
           /\ leg' \in [Callers -> Leg] /\ override' \in BOOLEAN
  <1>1. leg'[c] = Idle /\ \A d \in Callers \ {c} : leg'[d] = leg[d]
    BY DEF IInv, TypeOK
  <1>2. LegsFit' /\ StoreInv'
    BY <1>1, Blanks DEF IInv, LegsFit, StoreInv
  <1>3. LegsApart'
    <2> SUFFICES ASSUME NEW d \in Callers, NEW e \in Callers, d # e
                 PROVE  Apart(leg'[d], leg'[e])
      BY DEF LegsApart
    <2>1. CASE d = c
      BY <2>1, <1>1, Blanks DEF Apart
    <2>2. CASE e = c
      BY <2>2, <1>1, Blanks, LegsAssumption DEF Apart, IInv, LegsFit, Fits, Shape
    <2>3. CASE d # c /\ e # c
      BY <2>3, <1>1 DEF IInv, LegsApart
    <2>4. QED
      BY <2>1, <2>2, <2>3
  <1>4. QED
    BY <1>2, <1>3, Blanks DEF IInv, TypeOK, OverrideNeverLeaks

\* The stream is over: on an exclusive thread a done reply holds its decision.
LEMMA InvDrain == ASSUME IInv, NEW c \in Callers, Drain(c) PROVE IInv'
  <1>1. /\ leg[c] \in Leg /\ leg[c].t \in Threads /\ leg[c].kind \in {"start", "resume"}
        /\ Fits(leg[c], saved[leg[c].t]) /\ leg[c].pc = "drain"
    BY DEF IInv, TypeOK, LegsFit, Fits, Shape, Drain, Leg
  <1>2. /\ Read(leg[c].t) \in Checkpoint
        /\ leg[c].t \in Exclusive => Read(leg[c].t) = saved[leg[c].t]
    BY <1>1, ReadType
  <1> DEFINE r == [kind |-> IF leg[c].kind = "start" THEN "awaiting_user" ELSE "done",
                   t |-> leg[c].t, decision |-> Read(leg[c].t).decision]
  <1>3. r \in [kind : {"none", "awaiting_user", "done"},
               t : Threads \cup {NoThread}, decision : AnswerOrNone]
    BY <1>1, <1>2 DEF Checkpoint
  <1>4. /\ reply' = [reply EXCEPT ![c] = r]
        /\ leg' = [leg EXCEPT ![c] = Idle] /\ saved' = saved /\ override' = FALSE
    BY DEF Drain
  <1>5. r.kind = "done" /\ r.t \in Exclusive => r.decision # NoAnswer
    <2> SUFFICES ASSUME leg[c].kind = "resume", leg[c].t \in Exclusive
                 PROVE  Read(leg[c].t).decision # NoAnswer
      BY <1>1
    <2>1. saved[leg[c].t].phase = "decided"
      BY <1>1 DEF Fits, Private
    <2>2. Sound(saved[leg[c].t])
      BY <1>1 DEF IInv, StoreInv
    <2>3. QED
      BY <1>2, <2>1, <2>2 DEF Sound
  <1> HIDE DEF r
  <1>6. TypeOK'
    BY <1>3, <1>4, InvIdle DEF IInv, TypeOK
  <1>7. DoneHoldsDecision'
    BY <1>4, <1>5 DEF IInv, TypeOK, DoneHoldsDecision
  <1>8. QED
    BY <1>4, <1>6, <1>7, InvIdle DEF IInv

\* A leg fails or is cancelled.
LEMMA InvFail == ASSUME IInv, NEW c \in Callers, Fail(c) PROVE IInv'
  <1>1. /\ leg' = [leg EXCEPT ![c] = Idle] /\ override' = FALSE
        /\ saved' = saved /\ reply' = reply
    BY DEF Fail
  <1>2. TypeOK' /\ DoneHoldsDecision'
    BY <1>1, InvIdle DEF IInv, TypeOK, DoneHoldsDecision
  <1>3. QED
    BY <1>1, <1>2, InvIdle DEF IInv

\* A deletion under whatever legs the thread has.
LEMMA InvDelete == ASSUME IInv, NEW t \in Threads, Delete(t) PROVE IInv'
  <1>1. /\ t \notin Exclusive /\ saved' = [saved EXCEPT ![t] = Gone]
        /\ override' = override /\ leg' = leg /\ reply' = reply
    BY DEF Delete
  <1>2. saved'[t] = Gone /\ \A u \in Threads \ {t} : saved'[u] = saved[u]
    BY <1>1 DEF IInv, TypeOK
  <1>3. TypeOK'
    BY <1>1 DEF IInv, TypeOK
  <1>4. StoreInv'
    BY <1>1, <1>2, Blanks DEF IInv, StoreInv
  <1>5. LegsFit'
    <2> SUFFICES ASSUME NEW c \in Callers PROVE Fits(leg[c], saved'[leg[c].t])
      BY <1>1 DEF LegsFit
    <2>0. Fits(leg[c], saved[leg[c].t])
      BY DEF IInv, LegsFit
    <2>1. CASE leg[c].t = t
      BY <1>1, <1>2, <2>0, <2>1 DEF Fits, Answered, Private
    <2>2. CASE leg[c].t \in Threads \ {t}
      BY <1>2, <2>0, <2>2
    <2>3. CASE leg[c].t \notin Threads
      BY <2>0, <2>3, Blanks DEF Fits, Shape
    <2>4. QED
      BY <2>1, <2>2, <2>3
  <1>6. LegsApart' /\ OverrideNeverLeaks' /\ DoneHoldsDecision'
    BY <1>1 DEF IInv, LegsApart, OverrideNeverLeaks, DoneHoldsDecision, Active
  <1>7. QED
    BY <1>3, <1>4, <1>5, <1>6 DEF IInv

\* The idle server satisfies the invariant.
LEMMA InvInit == Init => IInv
  <1> SUFFICES ASSUME Init PROVE IInv
    OBVIOUS
  <1>1. TypeOK
    BY Blanks DEF Init, TypeOK, NoReply, AnswerOrNone
  <1>2. StoreInv /\ LegsFit /\ LegsApart
    BY Blanks DEF Init, StoreInv, LegsFit, LegsApart, Apart
  <1>3. OverrideNeverLeaks /\ DoneHoldsDecision
    BY DEF Init, OverrideNeverLeaks, DoneHoldsDecision, NoReply
  <1>4. QED
    BY <1>1, <1>2, <1>3 DEF IInv

\* Every step keeps it.
LEMMA InvNext == IInv /\ [Next]_vars => IInv'
  <1> SUFFICES ASSUME IInv, [Next]_vars PROVE IInv'
    OBVIOUS
  <1>1. ASSUME NEW c \in Callers, Step(c) PROVE IInv'
    BY <1>1, InvInject, InvUpdate, InvLoad, InvSeed, InvEnter, InvSave, InvDrain DEF Step
  <1>2. CASE UNCHANGED vars
    BY <1>2 DEF vars, IInv, TypeOK, StoreInv, LegsFit, LegsApart, OverrideNeverLeaks,
                DoneHoldsDecision, Active
  <1>3. QED
    BY <1>1, <1>2, InvStart, InvResume, InvFail, InvDelete DEF Next

LEMMA Inductive == Spec => []IInv
  BY InvInit, InvNext, PTL DEF Spec

-----------------------------------------------------------------------------
(* The safety properties. *)

\* A deleted thread never gets into a leg's memory, nor does any value lose its type.
THEOREM TypeCorrect == Spec => []TypeOK
  <1>1. IInv => TypeOK
    BY DEF IInv
  <1>2. QED
    BY <1>1, Inductive, PTL

\* However many callers overlap, with no leg in progress the override is clear.
THEOREM OverrideIsCleared == Spec => []OverrideNeverLeaks
  <1>1. IInv => OverrideNeverLeaks
    BY DEF IInv
  <1>2. QED
    BY <1>1, Inductive, PTL

\* No interleaving of legs and deletions mixes two of them into a decision from
\* other weights than those beside it.
THEOREM DecisionsMatch == Spec => []DecisionMatchesBasis
  <1>1. IInv => DecisionMatchesBasis
    BY DEF IInv, StoreInv, Sound, DecisionMatchesBasis
  <1>2. QED
    BY <1>1, Inductive, PTL

\* One leg at a time on a thread is enough for its done replies to hold a decision.
THEOREM DoneRepliesDecide == Spec => []DoneHoldsDecision
  <1>1. IInv => DoneHoldsDecision
    BY DEF IInv
  <1>2. QED
    BY <1>1, Inductive, PTL

-----------------------------------------------------------------------------
(* Exclusive threads implement DecisionRound. *)

\* A thread without a checkpoint is an empty round.
LEMMA RefineInit ==
    ASSUME Init, NEW t \in Exclusive
    PROVE  Round(t)!Init
  <1>1. saved[t] = NoCheckpoint
    BY LegsAssumption DEF Init
  <1>2. QED
    BY <1>1 DEF Round!Init, Round!NoWeights, Round!NoDecision, NoCheckpoint, BasisOf, DecisionOf

\* Steps on other threads are invisible.
LEMMA RefineStutter ==
    ASSUME NEW t \in Exclusive, saved'[t] = saved[t]
    PROVE  UNCHANGED Round(t)!vars
  BY DEF Round!vars

\* The answer that is injected is not yet committed.
LEMMA RefineUpdate ==
    ASSUME IInv, NEW t \in Exclusive, NEW c \in Callers, Update(c), leg[c].t = t
    PROVE  UNCHANGED Round(t)!vars
  <1>1. /\ t \in Threads /\ saved \in [Threads -> Checkpoint \cup {Gone}]
        /\ leg[c] \in Leg /\ leg[c].pc = "update" /\ leg[c].kind = "resume"
        /\ Fits(leg[c], saved[t])
    BY LegsAssumption DEF IInv, TypeOK, LegsFit, Fits, Shape, Update, Leg
  <1>2. /\ leg[c].mem = saved[t] /\ leg[c].mem \in Checkpoint
        /\ saved[t].phase \in {"asked", "deciding", "decided"}
    BY <1>1 DEF Fits, Private, Leg
  <1>3. saved'[t] = [leg[c].mem EXCEPT !.answer = leg[c].answer,
                                       !.phase = IF @ = "empty" THEN "framing" ELSE @]
    BY <1>1 DEF Update
  <1>4. /\ saved'[t].phase = saved[t].phase /\ saved'[t].input = saved[t].input
        /\ saved'[t].basis = saved[t].basis /\ saved'[t].decision = saved[t].decision
    BY <1>2, <1>3 DEF Checkpoint
  <1>5. QED
    BY <1>4 DEF Round!vars

\* The dilemma.
LEMMA RefineSeed ==
    ASSUME IInv, NEW t \in Exclusive, NEW c \in Callers, Seed(c), leg[c].t = t
    PROVE  Round(t)!Frame
  <1>1. /\ t \in Threads /\ saved \in [Threads -> Checkpoint \cup {Gone}]
        /\ leg[c].pc = "load" /\ leg[c].kind = "start" /\ Fits(leg[c], saved[t])
    BY LegsAssumption DEF IInv, TypeOK, LegsFit, Seed
  <1>2. saved[t] = NoCheckpoint
    BY <1>1 DEF Fits, Private
  <1>3. saved'[t] = [NoCheckpoint EXCEPT !.phase = "framing", !.input = 1]
    BY <1>1 DEF Seed
  <1>4. /\ saved[t].input = 0 /\ saved'[t].phase = "framing" /\ saved'[t].input = 1
        /\ saved'[t].basis = saved[t].basis /\ saved'[t].decision = saved[t].decision
    BY <1>2, <1>3 DEF NoCheckpoint
  <1>5. QED
    BY <1>4 DEF Round!Frame

\* The nodes: node 3 asks, node 3.5 commits what it reads in the leg's memory, node 6
\* decides.
LEMMA RefineSave ==
    ASSUME IInv, NEW t \in Exclusive, NEW c \in Callers, Save(c), leg[c].t = t
    PROVE  [Round(t)!Next]_(Round(t)!vars)
  <1>1. /\ t \in Threads /\ saved \in [Threads -> Checkpoint \cup {Gone}]
        /\ leg[c] \in Leg /\ leg[c].pc = "call" /\ Fits(leg[c], saved[t])
    BY LegsAssumption DEF IInv, TypeOK, LegsFit, Save
  <1>2. /\ leg[c].mem = saved[t] /\ saved[t] \in Checkpoint /\ Sound(saved[t])
        /\ saved[t].phase \in {"framing", "asked", "deciding"}
        /\ saved[t].phase = "asked" => saved[t].answer # NoAnswer
    BY <1>1 DEF Fits, Shape, Answered, Private, Leg
  <1>3. PICK m \in Results(saved[t]) : saved'[t] = m
    BY <1>1, <1>2 DEF Save
  <1>4. saved[t].input = 1
    BY <1>1, <1>2 DEF IInv, StoreInv, Kept, NoCheckpoint
  <1>5. CASE saved[t].phase = "framing"
    <2>1. m \in {saved[t], [saved[t] EXCEPT !.phase = "asked"]}
      BY <1>5, <1>3 DEF Results
    <2>2. CASE m = saved[t]
      BY <2>2, <1>3, RefineStutter
    <2>3. CASE m = [saved[t] EXCEPT !.phase = "asked"]
      <3>1. /\ saved'[t].phase = "asked" /\ saved'[t].input = saved[t].input
            /\ saved'[t].basis = saved[t].basis /\ saved'[t].decision = saved[t].decision
        BY <2>3, <1>2, <1>3 DEF Checkpoint
      <3>2. Round(t)!Ask
        BY <3>1, <1>5 DEF Round!Ask
      <3>3. QED
        BY <3>2 DEF Round!Next
    <2>4. QED
      BY <2>1, <2>2, <2>3
  <1>6. CASE saved[t].phase = "asked"
    <2>1. m = [saved[t] EXCEPT !.phase = "deciding", !.basis = saved[t].answer]
      BY <1>6, <1>3 DEF Results
    <2>2. /\ saved'[t].phase = "deciding" /\ saved'[t].input = saved[t].input
          /\ saved'[t].basis = saved[t].answer /\ saved'[t].decision = saved[t].decision
      BY <2>1, <1>2, <1>3 DEF Checkpoint
    <2>3. saved[t].answer \in Answers
      BY <1>2, <1>6 DEF Checkpoint, AnswerOrNone
    <2>4. BasisOf(saved'[t].basis) = [question |-> saved[t].input, answer |-> saved[t].answer]
      BY <2>2, <1>2, <1>4, <1>6 DEF BasisOf
    <2>5. BasisOf(saved'[t].basis) \in Round(t)!Commitments
      BY <2>3, <2>4 DEF Round!Commitments
    <2>6. Round(t)!Commit(BasisOf(saved'[t].basis))
      BY <2>2, <1>6 DEF Round!Commit
    <2>7. QED
      BY <2>5, <2>6 DEF Round!Next
  <1>7. CASE saved[t].phase = "deciding"
    <2>1. m \in {saved[t], [saved[t] EXCEPT !.phase = "decided", !.decision = saved[t].basis]}
      BY <1>7, <1>3 DEF Results
    <2>2. CASE m = saved[t]
      BY <2>2, <1>3, RefineStutter
    <2>3. CASE m = [saved[t] EXCEPT !.phase = "decided", !.decision = saved[t].basis]
      <3>1. /\ saved'[t].phase = "decided" /\ saved'[t].input = saved[t].input
            /\ saved'[t].basis = saved[t].basis /\ saved'[t].decision = saved[t].basis
        BY <2>3, <1>2, <1>3 DEF Checkpoint
      <3>2. saved[t].basis # NoAnswer
        BY <1>2, <1>7 DEF Sound
      <3>3. DecisionOf(saved'[t].decision)
                = [input |-> saved[t].input, weights |-> BasisOf(saved[t].basis)]
        BY <3>1, <3>2, <1>4 DEF DecisionOf, BasisOf
      <3>4. Round(t)!Decide
        BY <3>1, <3>3, <1>7 DEF Round!Decide
      <3>5. QED
        BY <3>4 DEF Round!Next
    <2>4. QED
      BY <2>1, <2>2, <2>3
  <1>8. QED
    BY <1>2, <1>5, <1>6, <1>7

\* Whatever step is taken, on this thread or on another.
LEMMA RefineNext ==
    ASSUME IInv, [Next]_vars, NEW t \in Exclusive
    PROVE  [Round(t)!Next]_(Round(t)!vars)
  <1>1. t \in Threads /\ saved \in [Threads -> Checkpoint \cup {Gone}]
    BY LegsAssumption DEF IInv, TypeOK
  <1>2. CASE saved'[t] = saved[t]
    BY <1>2, RefineStutter
  <1>3. CASE saved'[t] # saved[t]
    <2>1. saved' # saved
      BY <1>3
    <2>2. ~ \E u \in Threads : Delete(u)
      BY <1>1, <1>3 DEF Delete
    <2>3. PICK c \in Callers : Update(c) \/ Seed(c) \/ Save(c)
      BY <2>1, <2>2 DEF Next, vars, Step, stream_session, stream_resume_session, Begin,
                        Inject, Load, Enter, Drain, Fail
    <2>4. leg[c].t = t
      BY <1>1, <1>3, <2>3 DEF Update, Seed, Save
    <2>5. QED
      BY <2>3, <2>4, RefineUpdate, RefineSeed, RefineSave DEF Round!Next
  <1>4. QED
    BY <1>2, <1>3

\* Whatever the legs and deletions on other threads do, a thread with one leg at a
\* time asks one question, commits the weights once and decides from them.
THEOREM Refinement == Spec => ThreadsImplementRound
  <1>1. Init => \A t \in Exclusive : Round(t)!Init
    BY RefineInit
  <1>2. IInv /\ [Next]_vars => \A t \in Exclusive : [Round(t)!Next]_(Round(t)!vars)
    BY RefineNext
  <1>3. QED
    BY <1>1, <1>2, Inductive, PTL DEF Spec, ThreadsImplementRound

=============================================================================
