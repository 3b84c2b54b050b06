---------------------------- MODULE DecisionGraph ----------------------------
(***************************************************************************)
(* One thread of the decision-maker LangGraph                              *)
(* (src/features/decision_maker/{graph,nodes,state}.py): the seven nodes,  *)
(* the two routers, the human-in-the-loop interrupt after node 3, and the  *)
(* two legs callers drive, stream_session and stream_resume_session.       *)
(*                                                                         *)
(* `ch' is the checkpointed DecisionMakerState.  Texts are abstracted to   *)
(* their provenance: a dilemma is its number on the thread (0 is "absent"),*)
(* weights are the answer they were parsed from and the question it was    *)
(* given to (0 when node 3's reply had none), a draft is the dilemma and   *)
(* the weights it was written from, facts and feedback are the dilemma     *)
(* they are about.                                                         *)
(*                                                                         *)
(* A node that raises (LLM or search error, unparsable JSON), a cancelled  *)
(* or timed-out call and a process crash all leave the last checkpoint as  *)
(* it is: action Fail.                                                     *)
(***************************************************************************)
EXTENDS Naturals

CONSTANTS Answers,          \* texts a user may submit as an answer
          NoAnswer,         \* stands for the absent answer
          MaxInputs,        \* bound: dilemmas submitted on the thread
          StepLimit,        \* LangGraph's recursion_limit, per leg
          AnalyzerReplies,  \* what the LLM may reply to node 1
          CriticReplies     \* what the LLM may reply to node 5

AnalyzerReply == [needs_data : BOOLEAN, queries : BOOLEAN]
CriticReply == [needs_rewrite : BOOLEAN, feedback : BOOLEAN]

ASSUME GraphAssumption ==
    /\ NoAnswer \notin Answers
    /\ MaxInputs \in Nat
    /\ StepLimit \in Nat
    /\ AnalyzerReplies \subseteq AnalyzerReply
    /\ CriticReplies \subseteq CriticReply

VARIABLES ch,           \* the state channels of the last checkpoint
          last,         \* the node whose writes made that checkpoint
          next,         \* the node it triggers
          leg,          \* the call in progress: "idle", "start", "resume"
          interrupted,  \* interrupt_after stopped this leg
          steps,        \* node executions of this leg
          reply,        \* what the last finished call handed its caller
          offered,      \* history: some call on the thread replied awaiting_user
          audit,        \* history: the auditor's verdict on the present draft
          rewrites      \* history: drafts of this dilemma written on a rejection

runtime == <<last, next, leg, interrupted, steps, reply>>
vars == <<ch, runtime, offered, audit, rewrites>>

-----------------------------------------------------------------------------
(* The graph. *)

Start == "__start__"
Context == "1_Context_Analyzer"
Tool == "2_Tool_Node"
Questioner == "3_Weight_Questioner"
Parser == "3.5_Weight_Parser"
Draft == "4_Draft_Generator"
Critique == "5_CoVe_Critique"
Final == "6_Final_Synthesizer"
End == "__end__"
NoNode == "none"   \* no checkpoint yet

Nodes == {Context, Tool, Questioner, Parser, Draft, Critique, Final}

InterruptAfter == {Questioner}
RewriteCap == 2    \* the literal 2 of cove_critique and route_from_critique
RewriteWatch == 3  \* bound: the history counter `rewrites' saturates here

Inputs == 0 .. MaxInputs
Weights == [question : Inputs, answer : Answers \cup {NoAnswer}]
NoWeights == [question |-> 0, answer |-> NoAnswer]
DraftText == [input : Inputs, weights : Weights]
NoDraft == [input |-> 0, weights |-> NoWeights]

DecisionMakerState ==
    [user_input : Inputs,
     is_data_sufficient : BOOLEAN,
     search_queries : BOOLEAN,         \* non-empty?
     tool_facts : SUBSET Inputs,       \* the dilemmas facts were searched for
     last_question : Inputs,           \* the dilemma it is about, 0 when empty
     user_answer : Weights,            \* an answer and the question it answers
     weights : Weights,
     draft_analysis : DraftText,
     critique_feedback : Inputs,       \* the dilemma it is about, 0 when empty
     rewrite_count : 0 .. RewriteCap,
     final_answer : DraftText]

EmptyState ==
    [user_input |-> 0, is_data_sufficient |-> FALSE, search_queries |-> FALSE,
     tool_facts |-> {}, last_question |-> 0, user_answer |-> NoWeights,
     weights |-> NoWeights, draft_analysis |-> NoDraft, critique_feedback |-> 0,
     rewrite_count |-> 0, final_answer |-> NoDraft]

route_from_context(c) ==
    IF ~c.is_data_sufficient /\ c.search_queries THEN Tool ELSE Questioner

\* Mutant: the router forgets the cap.
MutRouterNoCap(c) == IF c.critique_feedback # 0 THEN Draft ELSE Final

route_from_critique(c) ==
    IF c.critique_feedback # 0 /\ c.rewrite_count < RewriteCap THEN Draft ELSE Final

\* Mutant: a rewritten draft is not audited again.
MutSuccessorSkipsAudit(n, c) ==
    CASE n = Start      -> Context
      [] n = Context    -> route_from_context(c)
      [] n = Tool       -> Context
      [] n = Questioner -> Parser
      [] n = Parser     -> Draft
      [] n = Draft      -> IF c.rewrite_count = 0 THEN Critique ELSE Final
      [] n = Critique   -> route_from_critique(c)
      [] n = Final      -> End

\* Mutant: weights at hand are not parsed again.
MutSuccessorSkipsParser(n, c) ==
    CASE n = Start      -> Context
      [] n = Context    -> route_from_context(c)
      [] n = Tool       -> Context
      [] n = Questioner -> IF c.weights.question # 0 THEN Draft ELSE Parser
      [] n = Parser     -> Draft
      [] n = Draft      -> Critique
      [] n = Critique   -> route_from_critique(c)
      [] n = Final      -> End

\* The edges: the node that the writers of node n trigger in state c.
Successor(n, c) ==
    CASE n = Start      -> Context
      [] n = Context    -> route_from_context(c)
      [] n = Tool       -> Context
      [] n = Questioner -> Parser
      [] n = Parser     -> Draft
      [] n = Draft      -> Critique
      [] n = Critique   -> route_from_critique(c)
      [] n = Final      -> End

-----------------------------------------------------------------------------
(* The calls. *)

Reply == [kind : {"none", "awaiting_user", "done", "error"}, question : Inputs,
          final : DraftText]
NoReply == [kind |-> "none", question |-> 0, final |-> NoDraft]

Init ==
    /\ ch = EmptyState
    /\ last = NoNode
    /\ next = NoNode
    /\ leg = "idle"
    /\ interrupted = FALSE
    /\ steps = 0
    /\ reply = NoReply
    /\ offered = FALSE
    /\ audit = "none"
    /\ rewrites = 0

BeginLeg(kind) ==
    /\ leg = "idle"
    /\ leg' = kind
    /\ interrupted' = FALSE
    /\ steps' = 0
    /\ reply' = NoReply

\* Mutant: a new dilemma does not reset tool_facts.
MutStartKeepsFacts ==
    /\ ch.user_input < MaxInputs
    /\ BeginLeg("start")
    /\ ch' = [ch EXCEPT !.user_input = @ + 1, !.rewrite_count = 0]
    /\ last' = Start
    /\ next' = Successor(Start, ch')
    /\ rewrites' = 0
    /\ UNCHANGED <<offered, audit>>

\* stream_session seeds three channels; every other one keeps what an earlier
\* dilemma of the thread left in it.
StreamSession ==
    /\ ch.user_input < MaxInputs
    /\ BeginLeg("start")
    /\ ch' = [ch EXCEPT !.user_input = @ + 1, !.tool_facts = {}, !.rewrite_count = 0]
    /\ last' = Start
    /\ next' = Successor(Start, ch')
    /\ rewrites' = 0
    /\ UNCHANGED <<offered, audit>>

\* Mutant: the answer is injected as node 3.
MutResumeAsQuestioner(a) ==
    /\ offered
    /\ BeginLeg("resume")
    /\ ch' = [ch EXCEPT !.user_answer = [question |-> ch.last_question, answer |-> a]]
    /\ next' = Successor(Questioner, ch')
    /\ UNCHANGED <<last, offered, audit, rewrites>>

\* stream_resume_session injects the answer with aupdate_state(as_node=None):
\* LangGraph re-runs the writers of the node that wrote last, so what runs next
\* is the successor of `last', not always node 3.5.  A caller can answer once it
\* was told of the thread, which is with an awaiting_user reply; by then another
\* tab's dilemma may be on the thread, its question not asked yet.
StreamResumeSession(a) ==
    /\ offered
    /\ BeginLeg("resume")
    /\ ch' = [ch EXCEPT !.user_answer = [question |-> ch.last_question, answer |-> a]]
    /\ next' = Successor(last, ch')
    /\ UNCHANGED <<last, offered, audit, rewrites>>

\* Mutant: the stream is taken to end at END only.
MutDrainedAtEndOnly == next = End

Drained == interrupted \/ next = End

EndLeg(r) ==
    /\ leg' = "idle"
    /\ reply' = r
    /\ UNCHANGED <<ch, last, next, interrupted, steps, audit, rewrites>>

\* The sentinel after the stream loop: awaiting_user with the question on leg 1,
\* done with whatever final_answer the state holds on leg 2, whatever stopped the
\* stream.
Sentinel ==
    /\ leg # "idle" /\ Drained
    /\ EndLeg(IF leg = "start"
              THEN [NoReply EXCEPT !.kind = "awaiting_user", !.question = ch.last_question]
              ELSE [NoReply EXCEPT !.kind = "done", !.final = ch.final_answer])
    /\ offered' = (offered \/ leg = "start")

Fail ==
    /\ leg # "idle"
    /\ EndLeg([NoReply EXCEPT !.kind = "error"])
    /\ UNCHANGED offered

OutOfSteps ==
    /\ leg # "idle" /\ ~Drained
    /\ steps = StepLimit
    /\ EndLeg([NoReply EXCEPT !.kind = "error"])
    /\ UNCHANGED offered

-----------------------------------------------------------------------------
(* The nodes. *)

\* Mutant: one step more than recursion_limit.
MutNodeLimitOffByOne(n, c) ==
    /\ leg # "idle" /\ ~interrupted
    /\ next = n
    /\ steps <= StepLimit
    /\ ch' = c
    /\ last' = n
    /\ next' = Successor(n, c)
    /\ steps' = steps + 1
    /\ interrupted' = (n \in InterruptAfter)
    /\ UNCHANGED <<leg, reply, offered>>

\* One super-step: node n runs and the checkpointer stores its writes c.
RunNode(n, c) ==
    /\ leg # "idle" /\ ~interrupted
    /\ next = n
    /\ steps < StepLimit
    /\ ch' = c
    /\ last' = n
    /\ next' = Successor(n, c)
    /\ steps' = steps + 1
    /\ interrupted' = (n \in InterruptAfter)
    /\ UNCHANGED <<leg, reply, offered>>

context_analyzer(r) ==
    /\ RunNode(Context, [ch EXCEPT !.is_data_sufficient = ~r.needs_data,
                                   !.search_queries = r.needs_data /\ r.queries])
    /\ UNCHANGED <<audit, rewrites>>

tool_node ==
    /\ RunNode(Tool, [ch EXCEPT !.tool_facts = @ \cup {ch.user_input}])
    /\ UNCHANGED <<audit, rewrites>>

\* Mutant: the question there is stays when the reply has none.
MutQuestionerKeeps(asks) ==
    /\ RunNode(Questioner, [ch EXCEPT !.last_question = IF asks THEN ch.user_input ELSE @])
    /\ UNCHANGED <<audit, rewrites>>

\* A reply without last_question leaves an empty question, and the graph goes on
\* to the interrupt all the same.
weight_questioner(asks) ==
    /\ RunNode(Questioner, [ch EXCEPT !.last_question = IF asks THEN ch.user_input ELSE 0])
    /\ UNCHANGED <<audit, rewrites>>

\* Mutant: the weights there are stay when the reply has none.
MutParserKeepsWeights(found) ==
    /\ RunNode(Parser, [ch EXCEPT !.weights = IF found THEN ch.user_answer ELSE @])
    /\ UNCHANGED <<audit, rewrites>>

\* A reply without weights leaves empty weights, and node 4 is next.
weight_parser(found) ==
    /\ RunNode(Parser, [ch EXCEPT !.weights = IF found THEN ch.user_answer ELSE NoWeights])
    /\ UNCHANGED <<audit, rewrites>>

draft_generator ==
    /\ RunNode(Draft, [ch EXCEPT !.draft_analysis =
                           [input |-> ch.user_input, weights |-> ch.weights]])
    /\ audit' = "none"
    /\ rewrites' = IF last = Critique /\ audit = "rejected" /\ rewrites < RewriteWatch
                   THEN rewrites + 1 ELSE rewrites

\* The anti-loop override forces needs_rewrite to false at the cap; the feedback
\* is written in every case.
cove_critique(r) ==
    /\ RunNode(Critique,
               [ch EXCEPT !.critique_feedback = IF r.feedback THEN ch.user_input ELSE 0,
                          !.rewrite_count = IF r.needs_rewrite /\ @ < RewriteCap THEN @ + 1 ELSE @])
    /\ audit' = IF r.needs_rewrite THEN "rejected" ELSE "approved"
    /\ UNCHANGED rewrites

\* Mutant: an answer of an earlier dilemma is kept.
MutSynthesizerUnlessStale ==
    /\ RunNode(Final, [ch EXCEPT !.final_answer = IF @ = NoDraft THEN ch.draft_analysis ELSE @])
    /\ UNCHANGED <<audit, rewrites>>

final_synthesizer ==
    /\ RunNode(Final, [ch EXCEPT !.final_answer = ch.draft_analysis])
    /\ UNCHANGED <<audit, rewrites>>

Node ==
    \/ \E r \in AnalyzerReplies : context_analyzer(r)
    \/ tool_node
    \/ \E asks \in BOOLEAN : weight_questioner(asks)
    \/ \E found \in BOOLEAN : weight_parser(found)
    \/ draft_generator
    \/ \E r \in CriticReplies : cove_critique(r)
    \/ final_synthesizer

-----------------------------------------------------------------------------

Next ==
    \/ StreamSession
    \/ \E a \in Answers : StreamResumeSession(a)
    \/ Node
    \/ Sentinel
    \/ Fail
    \/ OutOfSteps

Spec == Init /\ [][Next]_vars

\* The event loop keeps driving a call that has begun; nobody has to call, and
\* nothing has to fail.
Progress == Node \/ Sentinel \/ OutOfSteps

FairSpec == Spec /\ WF_vars(Progress)

-----------------------------------------------------------------------------
(* Properties. *)

\* Every variable keeps its type; no leg runs more nodes than recursion_limit
\* allows and rewrite_count never passes the cap.
TypeOK ==
    /\ ch \in DecisionMakerState
    /\ last \in Nodes \cup {NoNode, Start}
    /\ next \in Nodes \cup {NoNode, End}
    /\ leg \in {"idle", "start", "resume"}
    /\ interrupted \in BOOLEAN
    /\ steps \in 0 .. StepLimit
    /\ reply \in Reply
    /\ offered \in BOOLEAN
    /\ audit \in {"none", "approved", "rejected"}
    /\ rewrites \in 0 .. RewriteWatch

\* The graph never enters node 6, and never ends, with a draft the auditor has
\* not read since it was written, whatever failed or was resumed in between.
OnlyAuditedDraftsFinal == next \in {Final, End} => audit # "none"

\* Whenever nodes 4, 5 or 6 are to run, the weights they read were parsed for the
\* present dilemma: from an answer to its question, or to the empty question node 3
\* left, or they are empty; though weights and answers of earlier dilemmas stay in
\* the checkpoint, and an answer to an earlier question may have been submitted.
WeightsAnswerThisQuestion ==
    next \in {Draft, Critique, Final} => ch.weights.question \in {0, ch.user_input}

\* Search results of one dilemma never reach the prompts of the next one on the
\* same thread.
FactsOfThisDilemma == ch.tool_facts \subseteq {ch.user_input}

\* A done reply is one of two: the graph has ended and the reply is the decision on
\* the present dilemma, from the weights the checkpoint holds; or the answer came
\* before this dilemma's question, the graph stands before node 3.5, and the reply
\* is what an earlier dilemma left, which is never a decision on the present one.
DoneIsDecidedOrEarlier ==
    reply.kind = "done" =>
        \/ /\ next = End
           /\ reply.final = [input |-> ch.user_input, weights |-> ch.weights]
           /\ ch.weights.question \in {0, ch.user_input}
        \/ next = Parser /\ reply.final.input < ch.user_input

\* An awaiting_user reply leaves the thread right before node 3.5, and the question
\* it shows is the checkpointed one and of no earlier dilemma.  It may be empty:
\* nothing in the graph makes sure that node 3 asked one.
QuestionIsOfThisDilemma ==
    reply.kind = "awaiting_user" =>
        /\ next = Parser
        /\ reply.question = ch.last_question
        /\ reply.question \in {0, ch.user_input}

\* Node 5 never runs with the counter at the cap: the router alone keeps the
\* count at most 2, the override inside cove_critique is never what stops it.
CritiqueBelowCap == next = Critique => ch.rewrite_count < RewriteCap

\* Whatever the auditor replies, one draft per dilemma at most is written on a
\* rejection: the second rejection reaches the cap.  Drafts written on feedback
\* without a rejection are not counted, by this property as by the code.
OneCountedRewrite == rewrites <= 1

\* Injecting an answer never moves the graph: whatever node failed, re-running
\* the last node's writers triggers the node that was pending before.
AnswerNeverMovesGraph ==
    [][leg = "idle" /\ leg' = "resume" => next' = next]_vars

\* Every call ends: with a reply or with an error.
LegEnds == leg # "idle" ~> leg = "idle"

PhaseOf(n) ==
    CASE n = NoNode                        -> "empty"
      [] n \in {Context, Tool, Questioner} -> "framing"
      [] n = Parser                        -> "asked"
      [] n \in {Draft, Critique, Final}    -> "deciding"
      [] n = End                           -> "decided"

Round == INSTANCE DecisionRound
    WITH phase <- PhaseOf(next), input <- ch.user_input, basis <- ch.weights,
         decision <- ch.final_answer

\* The graph implements the promise of DecisionRound: one question, one
\* commitment of the weights, a decision from exactly those weights.
ImplementsRound == Round!Spec

(* What the comments say and the code does not do. *)

\* graph.py, resume_session: the graph runs through nodes 3.5, 4, 5 and 6 with
\* the injected answer.
DoneUsesSubmittedAnswer ==
    reply.kind = "done" /\ next = End =>
        reply.final.weights.answer \in {NoAnswer, ch.user_answer.answer}

\* graph.py, stream_resume_session: the final answer is read after the graph has
\* reached its end.
DoneMeansEnded == reply.kind = "done" => next = End

-----------------------------------------------------------------------------
(* The inductive invariant behind the safety properties above; proved in     *)
(* DecisionGraphProofs.                                                      *)

BeforeQuestion == {Start, Context, Tool}
AfterAnswer == {Parser, Draft, Critique, Final}

ThisDraft == [input |-> ch.user_input, weights |-> ch.weights]

\* The weights node 3.5 may commit for dilemma i.
CommitmentsTo(i) == {NoWeights} \cup [question : {0, i}, answer : Answers]

\* The pending node is always the successor of the last one in the present
\* state, and a thread without a checkpoint was never touched.
PendingInv ==
    /\ last # NoNode => next = Successor(last, ch)
    /\ last = NoNode => /\ next = NoNode /\ leg = "idle" /\ reply = NoReply
                        /\ ch = EmptyState /\ ~offered

\* Behind node 3 the question in the checkpoint is this dilemma's or empty; before
\* it, it may be an earlier one.
QuestionInv ==
    /\ last # NoNode => ch.user_input # 0
    /\ last \in {Questioner} \cup AfterAnswer => ch.last_question \in {0, ch.user_input}

\* Leg 1 stops at node 3; leg 2 stops there too if it starts before it.
LegInv ==
    /\ leg # "idle" => reply = NoReply
    /\ interrupted => last = Questioner
    /\ leg = "start" => last \in BeforeQuestion \/ (last = Questioner /\ interrupted)
    /\ leg = "resume" /\ ~interrupted /\ last = Questioner =>
          /\ ch.user_answer.question = ch.last_question
          /\ ch.user_answer.answer \in Answers

\* What each node leaves is still about the present dilemma when it is read, and a
\* decision on the present dilemma is there only behind node 6.
DataInv ==
    /\ last \in AfterAnswer => ch.weights \in CommitmentsTo(ch.user_input)
    /\ last \in {Draft, Critique, Final} => ch.draft_analysis = ThisDraft
    /\ last = Final => ch.final_answer = ThisDraft
    /\ last \notin {Final, NoNode} => ch.final_answer.input < ch.user_input
    /\ last \in {Critique, Final} => audit # "none"

CountInv ==
    /\ last \in BeforeQuestion \cup {Questioner, Parser} => ch.rewrite_count = 0
    /\ last = Draft => ch.rewrite_count < RewriteCap

IInv ==
    /\ TypeOK
    /\ PendingInv
    /\ QuestionInv
    /\ LegInv
    /\ DataInv
    /\ CountInv
    /\ FactsOfThisDilemma
    /\ DoneIsDecidedOrEarlier
    /\ QuestionIsOfThisDilemma

\* The strengthening OneCountedRewrite needs: each counted rewrite is covered by a
\* rejection that rewrite_count has counted.
RewriteInv ==
    /\ last \in {NoNode, Questioner, Parser} \cup BeforeQuestion => rewrites = 0
    /\ last = Draft => rewrites <= ch.rewrite_count
    /\ last = Critique => rewrites + (IF audit = "rejected" THEN 1 ELSE 0) <= ch.rewrite_count
    /\ OneCountedRewrite

=============================================================================
