---------------------------- MODULE DecisionLegs ----------------------------
(***************************************************************************)
(* Calls of the graph that overlap on the event loop of the server: each   *)
(* leg keeps the checkpoint it works on in memory and saves it whole after *)
(* every node, all legs share the module-level LLM override of nodes.py,   *)
(* and a leg reads its reply from the store, not from its memory.          *)
(*                                                                         *)
(* The nodes of one leg are DecisionGraph's matter; here a node is a step  *)
(* of DecisionRound on the leg's memory, or a step inside a phase, and     *)
(* weights are the answer node 3.5 was given, empty ones included.  On the *)
(* server a thread is started once, under a fresh uuid.                    *)
(***************************************************************************)
EXTENDS Naturals

CONSTANTS Threads, Callers, Answers,
          NoAnswer,    \* stands for the absent answer
          NoThread,    \* stands for no thread
          Exclusive    \* the threads with one leg at a time and no deletion

ASSUME LegsAssumption ==
    /\ NoAnswer \notin Answers /\ NoThread \notin Threads
    /\ Exclusive \subseteq Threads

VARIABLES saved,      \* the latest checkpoint of each thread
          override,   \* _LLM_CLIENT_OVERRIDE is set
          leg,        \* the call each caller has in progress
          reply       \* what its last call returned

vars == <<saved, override, leg, reply>>

Phases == {"empty", "framing", "asked", "deciding", "decided"}
AnswerOrNone == Answers \cup {NoAnswer}

\* input: 1 when the checkpoint holds the dilemma of the thread.
Checkpoint == [phase : Phases, input : 0 .. 1, answer : AnswerOrNone,
               basis : AnswerOrNone, decision : AnswerOrNone]
NoCheckpoint == [phase |-> "empty", input |-> 0, answer |-> NoAnswer,
                 basis |-> NoAnswer, decision |-> NoAnswer]
Gone == [NoCheckpoint EXCEPT !.phase = "gone"]   \* deleted: no checkpoint, the uuid spent

Leg == [pc : {"idle", "inject", "update", "load", "node", "call", "drain"},
        kind : {"none", "start", "resume"}, t : Threads \cup {NoThread},
        answer : AnswerOrNone, mem : Checkpoint, llm : {"none", "injected", "env"}]
Idle == [pc |-> "idle", kind |-> "none", t |-> NoThread,
         answer |-> NoAnswer, mem |-> NoCheckpoint, llm |-> "none"]

NoReply == [kind |-> "none", t |-> NoThread, decision |-> NoAnswer]

Active(c) == leg[c].pc # "idle"

Init ==
    /\ saved = [t \in Threads |-> NoCheckpoint]
    /\ override = FALSE
    /\ leg = [c \in Callers |-> Idle]
    /\ reply = [c \in Callers |-> NoReply]

\* Mutant: a deleted thread is read as it was left.
MutRead(t) == saved[t]

Read(t) == IF saved[t] = Gone THEN NoCheckpoint ELSE saved[t]

-----------------------------------------------------------------------------
(* The two calls. *)

Begin(c, l) ==
    /\ ~Active(c)
    /\ leg' = [leg EXCEPT ![c] = l]
    /\ override' = TRUE
    /\ reply' = [reply EXCEPT ![c] = NoReply]
    /\ UNCHANGED saved

stream_session(c, t) ==
    /\ saved[t] = NoCheckpoint
    /\ \A d \in Callers : leg[d].t # t
    /\ Begin(c, [Idle EXCEPT !.pc = "load", !.kind = "start", !.t = t])

\* The handler has found a checkpoint, which may be gone when the leg reads it.
\* No client knows a thread whose first leg failed before the question.
Known(t) == saved[t].input = 1 => saved[t].phase # "framing"

stream_resume_session(c, t, a) ==
    /\ saved[t] \notin {NoCheckpoint, Gone} /\ Known(t)
    /\ \A d \in Callers : leg[d].t = t => leg[d].kind = "resume" /\ t \notin Exclusive
    /\ Begin(c, [Idle EXCEPT !.pc = "inject", !.kind = "resume", !.t = t, !.answer = a])

Set(c, l) ==
    /\ leg' = [leg EXCEPT ![c] = l]
    /\ UNCHANGED <<override, reply>>

\* aupdate_state reads the latest checkpoint ...
Inject(c) ==
    /\ leg[c].pc = "inject"
    /\ Set(c, [leg[c] EXCEPT !.pc = "update", !.mem = Read(leg[c].t)])
    /\ UNCHANGED saved

\* ... and saves it with the answer.  Without a checkpoint the update counts as
\* the input of a new run that has no dilemma.
Update(c) ==
    /\ leg[c].pc = "update"
    /\ saved' = [saved EXCEPT ![leg[c].t] =
                    [leg[c].mem EXCEPT !.answer = leg[c].answer,
                                       !.phase = IF @ = "empty" THEN "framing" ELSE @]]
    /\ Set(c, [leg[c] EXCEPT !.pc = "load"])

\* astream(None) starts from the latest checkpoint, whoever saved it; a leg that
\* finds the graph at its end runs no node.
Load(c) ==
    /\ leg[c].pc = "load" /\ leg[c].kind = "resume"
    /\ LET m == Read(leg[c].t)
       IN Set(c, [leg[c] EXCEPT !.pc = IF m.phase \in {"empty", "decided"} THEN "drain" ELSE "node",
                                !.mem = m])
    /\ UNCHANGED saved

\* astream(initial_state) saves the input as the first checkpoint.
Seed(c) ==
    /\ leg[c].pc = "load" /\ leg[c].kind = "start"
    /\ LET m == [NoCheckpoint EXCEPT !.phase = "framing", !.input = 1]
       IN /\ saved' = [saved EXCEPT ![leg[c].t] = m]
          /\ Set(c, [leg[c] EXCEPT !.pc = "node", !.mem = m])

\* A node resolves its LLM when it is entered: the override, or else the client
\* build_llm makes from the environment.
Enter(c) ==
    /\ leg[c].pc = "node"
    /\ Set(c, [leg[c] EXCEPT !.pc = "call", !.llm = IF override THEN "injected" ELSE "env"])
    /\ UNCHANGED saved

\* Mutant: node 6 reads the raw answer instead of the parsed weights.
MutResults(m) ==
    CASE m.phase = "framing"  -> {m, [m EXCEPT !.phase = "asked"]}
      [] m.phase = "asked"    -> {[m EXCEPT !.phase = "deciding", !.basis = m.answer]}
      [] m.phase = "deciding" -> {m, [m EXCEPT !.phase = "decided", !.decision = m.answer]}

\* What the node that is to run makes of checkpoint m.
Results(m) ==
    CASE m.phase = "framing"  -> {m, [m EXCEPT !.phase = "asked"]}
      [] m.phase = "asked"    -> {[m EXCEPT !.phase = "deciding", !.basis = m.answer]}
      [] m.phase = "deciding" -> {m, [m EXCEPT !.phase = "decided", !.decision = m.basis]}

\* Mutant: the checkpoint of the last node is not saved.
MutSave(c) ==
    /\ leg[c].pc = "call"
    /\ \E m \in Results(leg[c].mem) :
          /\ saved' = [saved EXCEPT ![leg[c].t] = IF m.phase = "decided" THEN @ ELSE m]
          /\ Set(c, [leg[c] EXCEPT !.pc = IF m.phase \in {"asked", "decided"} THEN "drain" ELSE "node",
                                   !.mem = m, !.llm = "none"])

\* The node returns and the leg saves its memory; it stops at the interrupt
\* after the question and at the end.
Save(c) ==
    /\ leg[c].pc = "call"
    /\ \E m \in Results(leg[c].mem) :
          /\ saved' = [saved EXCEPT ![leg[c].t] = m]
          /\ Set(c, [leg[c] EXCEPT !.pc = IF m.phase \in {"asked", "decided"} THEN "drain" ELSE "node",
                                   !.mem = m, !.llm = "none"])

\* aget_state reads the latest checkpoint for the sentinel; the finally clause
\* clears the override, whoever else is running.
Drain(c) ==
    /\ leg[c].pc = "drain"
    /\ reply' = [reply EXCEPT ![c] =
                    [kind |-> IF leg[c].kind = "start" THEN "awaiting_user" ELSE "done",
                     t |-> leg[c].t, decision |-> Read(leg[c].t).decision]]
    /\ leg' = [leg EXCEPT ![c] = Idle]
    /\ override' = FALSE
    /\ UNCHANGED saved

\* Mutant: the override is cleared on success only.
MutFail(c) ==
    /\ Active(c)
    /\ leg' = [leg EXCEPT ![c] = Idle]
    /\ UNCHANGED <<saved, override, reply>>

\* A node raises or wait_for cancels the leg: the finally clause runs too.
Fail(c) ==
    /\ Active(c)
    /\ leg' = [leg EXCEPT ![c] = Idle]
    /\ override' = FALSE
    /\ UNCHANGED <<saved, reply>>

\* adelete_thread, from /done or the sweeper.
Delete(t) ==
    /\ t \notin Exclusive
    /\ saved[t] # NoCheckpoint
    /\ saved' = [saved EXCEPT ![t] = Gone]
    /\ UNCHANGED <<override, leg, reply>>

-----------------------------------------------------------------------------

Step(c) == Inject(c) \/ Update(c) \/ Load(c) \/ Seed(c) \/ Enter(c) \/ Save(c) \/ Drain(c)

Next ==
    \/ \E c \in Callers, t \in Threads :
          stream_session(c, t) \/ \E a \in Answers : stream_resume_session(c, t, a)
    \/ \E c \in Callers : Step(c) \/ Fail(c)
    \/ \E t \in Threads : Delete(t)

Spec == Init /\ [][Next]_vars

-----------------------------------------------------------------------------
(* Properties. *)

\* Every variable keeps its type; a deleted thread never gets into a leg's memory.
TypeOK ==
    /\ saved \in [Threads -> Checkpoint \cup {Gone}]
    /\ override \in BOOLEAN
    /\ leg \in [Callers -> Leg]
    /\ reply \in [Callers -> [kind : {"none", "awaiting_user", "done"},
                              t : Threads \cup {NoThread}, decision : AnswerOrNone]]

\* The override never outlives the calls that set it: with no leg in progress it
\* is clear, as the paths without an injected client rely on.
OverrideNeverLeaks == (\A c \in Callers : ~Active(c)) => ~override

\* However legs and deletions interleave on a thread, no checkpoint ever mixes
\* two of them into a decision from other weights than those it stores.
DecisionMatchesBasis ==
    \A t \in Threads :
        saved[t].phase = "decided" =>
            saved[t].decision = saved[t].basis /\ saved[t].basis # NoAnswer

\* With one leg at a time on a thread, and whatever runs on the others, a done
\* reply holds the decision of its thread.
DoneHoldsDecision ==
    \A c \in Callers :
        reply[c].kind = "done" /\ reply[c].t \in Exclusive => reply[c].decision # NoAnswer

BasisOf(x) == [question |-> IF x = NoAnswer THEN 0 ELSE 1, answer |-> x]
DecisionOf(x) == [input |-> BasisOf(x).question, weights |-> BasisOf(x)]

Round(t) == INSTANCE DecisionRound
    WITH MaxInputs <- 1, phase <- saved[t].phase, input <- saved[t].input,
         basis <- BasisOf(saved[t].basis), decision <- DecisionOf(saved[t].decision)

\* With one leg at a time on a thread, the thread implements DecisionRound,
\* whatever the legs and deletions on the others do.
ThreadsImplementRound ==
    /\ \A t \in Exclusive : Round(t)!Init
    /\ [][\A t \in Exclusive : [Round(t)!Next]_(Round(t)!vars)]_vars

(* What the comments say and the code does not do. *)

\* nodes.py: the override "is safe in the single-worker uvicorn deployment".
InjectedClientOnly == \A c \in Callers : leg[c].llm # "env"

=============================================================================
