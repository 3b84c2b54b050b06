------------------------- MODULE DecisionGraphProofs -------------------------
(***************************************************************************)
(* TLAPS proofs about DecisionGraph: the inductive invariant, the safety   *)
(* properties it implies, and the refinement of DecisionRound.             *)
(***************************************************************************)
EXTENDS DecisionGraph, TLAPS

-----------------------------------------------------------------------------
(* The routers and the edges. *)

\* route_from_context leads to node 2 or node 3, route_from_critique to node 4
\* below the cap and with feedback, and to node 6 otherwise.
LEMMA RouterRange ==
    ASSUME NEW c \in DecisionMakerState
    PROVE  /\ route_from_context(c) \in {Tool, Questioner}
           /\ route_from_critique(c) = Draft <=>
                  c.critique_feedback # 0 /\ c.rewrite_count < RewriteCap
           /\ route_from_critique(c) # Draft => route_from_critique(c) = Final
  BY DEF route_from_context, route_from_critique, Tool, Questioner, Draft, Final,
         DecisionMakerState, RewriteCap

\* Every edge of the graph, and the nodes that trigger each node.
LEMMA Edges ==
    ASSUME NEW c \in DecisionMakerState
    PROVE  /\ Successor(Start, c) = Context
           /\ Successor(Context, c) \in {Tool, Questioner}
           /\ Successor(Tool, c) = Context
           /\ Successor(Questioner, c) = Parser
           /\ Successor(Parser, c) = Draft
           /\ Successor(Draft, c) = Critique
           /\ Successor(Critique, c) = route_from_critique(c)
           /\ Successor(Final, c) = End
  BY RouterRange DEF Successor, Start, Context, Tool, Questioner, Parser, Draft,
                     Critique, Final, End

-----------------------------------------------------------------------------
(* The inductive invariant. *)

\* The node that ran last, read off the node that is pending.
LEMMA Predecessors ==
    ASSUME TypeOK, PendingInv
    PROVE  /\ next = Context => last \in {Start, Tool}
           /\ next \in {Tool, Questioner} => last = Context
           /\ next = Parser => last = Questioner
           /\ next = Draft => last \in {Parser, Critique}
           /\ next = Critique => last = Draft
           /\ next = Final => last = Critique
           /\ next = End => last = Final
           /\ next # NoNode => last # NoNode
  <1>1. ch \in DecisionMakerState /\ last \in Nodes \cup {NoNode, Start}
    BY DEF TypeOK
  <1>2. CASE last = NoNode
    BY <1>2 DEF PendingInv, NoNode, Context, Tool, Questioner, Parser, Draft, Critique,
                Final, End
  <1>3. CASE last # NoNode
    <2>1. next = Successor(last, ch)
      BY <1>3 DEF PendingInv
    <2>2. last \in {Start, Context, Tool, Questioner, Parser, Draft, Critique, Final}
      BY <1>1, <1>3 DEF Nodes
    <2>3. QED
      BY <1>1, <1>3, <2>1, <2>2, Edges, RouterRange
      DEF Start, Context, Tool, Questioner, Parser, Draft, Critique, Final, End
  <1>4. QED
    BY <1>2, <1>3

\* The values that stand for "nothing yet" have their types.
LEMMA Blanks ==
    /\ NoWeights \in Weights
    /\ NoDraft \in DraftText
    /\ EmptyState \in DecisionMakerState
    /\ NoReply \in Reply
  <1>1. 0 \in Inputs /\ {} \in SUBSET Inputs /\ 0 \in 0 .. RewriteCap
    BY GraphAssumption DEF Inputs, RewriteCap
  <1>2. NoWeights \in Weights
    BY <1>1 DEF NoWeights, Weights
  <1>3. NoDraft \in DraftText
    BY <1>1, <1>2 DEF NoDraft, DraftText
  <1>4. EmptyState \in DecisionMakerState
    BY <1>1, <1>2, <1>3 DEF EmptyState, DecisionMakerState
  <1>5. QED
    BY <1>1, <1>2, <1>3, <1>4 DEF NoReply, Reply

\* A leg begins with its own control variables reset.
LEMMA BeginLegType ==
    ASSUME NEW kind \in {"start", "resume"}, BeginLeg(kind)
    PROVE  /\ leg' \in {"idle", "start", "resume"}
           /\ interrupted' \in BOOLEAN
           /\ steps' \in 0 .. StepLimit
           /\ reply' \in Reply
  <1>1. steps' \in 0 .. StepLimit
    BY GraphAssumption DEF BeginLeg
  <1>2. reply' \in Reply
    BY Blanks DEF BeginLeg
  <1>3. QED
    BY <1>1, <1>2 DEF BeginLeg

\* A fresh thread satisfies the invariant.
LEMMA InvInit == Init => IInv
  <1> SUFFICES ASSUME Init PROVE IInv
    OBVIOUS
  <1>1. TypeOK
    <2>1. ch \in DecisionMakerState /\ reply \in Reply
      BY Blanks DEF Init
    <2>2. steps \in 0 .. StepLimit /\ rewrites \in 0 .. RewriteWatch
      BY GraphAssumption DEF Init, RewriteWatch
    <2>3. QED
      BY <2>1, <2>2 DEF Init, TypeOK
  <1>2. PendingInv /\ LegInv /\ DataInv /\ CountInv
    BY DEF Init, PendingInv, LegInv, DataInv, CountInv, BeforeQuestion, AfterAnswer,
           NoNode, Start, Context, Tool, Questioner, Parser, Draft, Critique, Final
  <1>3. QuestionInv
    BY DEF Init, QuestionInv, EmptyState, BeforeQuestion, AfterAnswer,
           NoNode, Start, Context, Tool, Questioner, Parser, Draft, Critique, Final
  <1>4. FactsOfThisDilemma /\ DoneIsDecidedOrEarlier /\ QuestionIsOfThisDilemma
    BY DEF Init, FactsOfThisDilemma, DoneIsDecidedOrEarlier, QuestionIsOfThisDilemma, EmptyState, NoReply
  <1>5. QED
    BY <1>1, <1>2, <1>3, <1>4 DEF IInv

\* The decision in the checkpoint is never of a later dilemma than the present one.
LEMMA FinalIsNotLater ==
    ASSUME TypeOK, DataInv, PendingInv
    PROVE  ch.final_answer.input <= ch.user_input
  <1>1. ch.final_answer.input \in Nat /\ ch.user_input \in Nat
    BY DEF TypeOK, DecisionMakerState, DraftText, Inputs
  <1>2. CASE last = NoNode
    BY <1>2 DEF PendingInv, EmptyState, NoDraft
  <1>3. CASE last = Final
    BY <1>1, <1>3 DEF DataInv, ThisDraft
  <1>4. QED
    BY <1>1, <1>2, <1>3 DEF DataInv

\* A new dilemma.
LEMMA InvStart == IInv /\ StreamSession => IInv'
  <1> SUFFICES ASSUME IInv, StreamSession PROVE IInv'
    OBVIOUS
  <1>a. ch.user_input + 1 \in Inputs /\ {} \in SUBSET Inputs /\ 0 \in 0 .. RewriteCap
    BY GraphAssumption DEF IInv, TypeOK, StreamSession, DecisionMakerState, Inputs, RewriteCap
  <1>1. ch \in DecisionMakerState /\ ch' \in DecisionMakerState
    BY <1>a DEF IInv, TypeOK, StreamSession, DecisionMakerState
  <1>2. /\ ch'.user_input = ch.user_input + 1
        /\ ch'.last_question = ch.last_question
        /\ ch'.tool_facts = {}
        /\ ch'.rewrite_count = 0
        /\ ch'.final_answer = ch.final_answer
    BY <1>1 DEF StreamSession, DecisionMakerState
  <1>3. /\ last' = Start /\ next' = Context /\ leg' = "start" /\ interrupted' = FALSE
        /\ steps' = 0 /\ reply' = NoReply /\ rewrites' = 0 /\ audit' = audit
        /\ offered' = offered /\ next' = Successor(last', ch')
    BY <1>1, Edges DEF StreamSession, BeginLeg
  <1>4. TypeOK'
    <2>1. last' \in Nodes \cup {NoNode, Start} /\ next' \in Nodes \cup {NoNode, End}
      BY <1>3 DEF Nodes
    <2>2. audit' \in {"none", "approved", "rejected"} /\ rewrites' \in 0 .. RewriteWatch
      BY <1>3 DEF IInv, TypeOK, RewriteWatch
    <2>3. offered' \in BOOLEAN
      BY <1>3 DEF IInv, TypeOK
    <2>4. QED
      BY <1>1, <2>1, <2>2, <2>3, BeginLegType DEF StreamSession, TypeOK
  <1>b. ch.final_answer.input < ch.user_input + 1
    BY <1>1, FinalIsNotLater DEF IInv, DecisionMakerState, DraftText, Inputs
  <1>5. PendingInv' /\ LegInv' /\ DataInv' /\ CountInv'
    BY <1>2, <1>3, <1>b
    DEF PendingInv, LegInv, DataInv, CountInv, BeforeQuestion, AfterAnswer, NoNode,
        Start, Context, Tool, Questioner, Parser, Draft, Critique, Final
  <1>6. QuestionInv'
    BY <1>1, <1>2, <1>3
    DEF IInv, QuestionInv, BeforeQuestion, AfterAnswer, DecisionMakerState, Inputs,
        Start, Questioner, Parser, Draft, Critique, Final
  <1>7. FactsOfThisDilemma' /\ DoneIsDecidedOrEarlier' /\ QuestionIsOfThisDilemma'
    BY <1>2, <1>3 DEF FactsOfThisDilemma, DoneIsDecidedOrEarlier, QuestionIsOfThisDilemma, NoReply
  <1>8. QED
    BY <1>4, <1>5, <1>6, <1>7 DEF IInv

\* An answer: the pending node stays what it was.
LEMMA InvResume ==
    ASSUME NEW a \in Answers, IInv, StreamResumeSession(a)
    PROVE  IInv' /\ next' = next
  <1>1. ch \in DecisionMakerState /\ ch' \in DecisionMakerState
    BY GraphAssumption
    DEF IInv, TypeOK, StreamResumeSession, DecisionMakerState, Weights, Inputs
  <1>2. /\ ch' = [ch EXCEPT !.user_answer = ch'.user_answer]
        /\ ch'.user_answer.question = ch.last_question
        /\ ch'.user_answer.answer \in Answers
    BY <1>1 DEF StreamResumeSession, DecisionMakerState
  <1>3. /\ last # NoNode /\ last' = last /\ next' = Successor(last, ch')
        /\ leg = "idle" /\ leg' = "resume" /\ interrupted' = FALSE
        /\ steps' = 0 /\ reply' = NoReply /\ rewrites' = rewrites /\ audit' = audit
        /\ offered' = offered
    BY DEF StreamResumeSession, BeginLeg, IInv, PendingInv
  <1>4. /\ route_from_context(ch') = route_from_context(ch)
        /\ route_from_critique(ch') = route_from_critique(ch)
    BY <1>1, <1>2 DEF route_from_context, route_from_critique, DecisionMakerState
  <1>5. last \in {Start, Context, Tool, Questioner, Parser, Draft, Critique, Final}
    BY <1>3 DEF IInv, TypeOK, Nodes
  <1>6. Successor(last, ch') = Successor(last, ch)
    BY <1>4, <1>5
    DEF Successor, Start, Context, Tool, Questioner, Parser, Draft, Critique, Final, End
  <1>7. next' = next
    BY <1>3, <1>6 DEF IInv, PendingInv
  <1>8. TypeOK'
    <2>1. last' \in Nodes \cup {NoNode, Start} /\ next' \in Nodes \cup {NoNode, End}
      BY <1>3, <1>7 DEF IInv, TypeOK
    <2>2. audit' \in {"none", "approved", "rejected"} /\ rewrites' \in 0 .. RewriteWatch
      BY <1>3 DEF IInv, TypeOK
    <2>3. offered' \in BOOLEAN
      BY <1>3 DEF IInv, TypeOK
    <2>4. QED
      BY <1>1, <2>1, <2>2, <2>3, BeginLegType DEF StreamResumeSession, TypeOK
  <1>9. PendingInv' /\ QuestionInv'
    BY <1>1, <1>2, <1>3, <1>7 DEF IInv, PendingInv, QuestionInv, DecisionMakerState
  <1>11. LegInv'
    BY <1>1, <1>2, <1>3 DEF LegInv, DecisionMakerState
  <1>12. DataInv' /\ CountInv' /\ FactsOfThisDilemma'
    BY <1>1, <1>2, <1>3
    DEF IInv, DataInv, CountInv, FactsOfThisDilemma, ThisDraft, CommitmentsTo,
        DecisionMakerState
  <1>13. DoneIsDecidedOrEarlier' /\ QuestionIsOfThisDilemma'
    BY <1>3 DEF DoneIsDecidedOrEarlier, QuestionIsOfThisDilemma, NoReply
  <1>14. QED
    BY <1>7, <1>8, <1>9, <1>11, <1>12, <1>13 DEF IInv

\* What every node step has in common: the pending node is the one that runs, and
\* the control part of the invariant is kept.
LEMMA NodeStep ==
    ASSUME IInv, NEW n \in Nodes, NEW c \in DecisionMakerState, RunNode(n, c),
           audit' \in {"none", "approved", "rejected"},
           rewrites' \in 0 .. RewriteWatch
    PROVE  /\ TypeOK' /\ PendingInv' /\ DoneIsDecidedOrEarlier' /\ QuestionIsOfThisDilemma'
           /\ ch' = c /\ last' = n /\ next = n
           /\ leg' = leg /\ leg # "idle" /\ reply' = NoReply
           /\ ~interrupted /\ interrupted' = (n = Questioner)
  <1>1. /\ ch' = c /\ last' = n /\ next = n /\ next' = Successor(n, c)
        /\ leg' = leg /\ leg # "idle" /\ ~interrupted /\ interrupted' = (n = Questioner)
        /\ steps' = steps + 1 /\ steps < StepLimit /\ reply' = reply /\ offered' = offered
    BY DEF RunNode, InterruptAfter
  <1>2. reply' = NoReply
    BY <1>1 DEF IInv, LegInv
  <1>3. n # NoNode /\ next' \in Nodes \cup {NoNode, End}
    BY <1>1, Edges, RouterRange
    DEF Nodes, NoNode, Context, Tool, Questioner, Parser, Draft, Critique, Final
  <1>4. steps' \in 0 .. StepLimit
    BY <1>1, GraphAssumption DEF IInv, TypeOK
  <1>5. /\ interrupted' \in BOOLEAN /\ leg' \in {"idle", "start", "resume"} /\ reply' \in Reply
        /\ offered' \in BOOLEAN
    BY <1>1 DEF IInv, TypeOK
  <1>6. TypeOK'
    BY <1>1, <1>3, <1>4, <1>5 DEF TypeOK
  <1>7. PendingInv' /\ DoneIsDecidedOrEarlier' /\ QuestionIsOfThisDilemma'
    BY <1>1, <1>2, <1>3 DEF PendingInv, DoneIsDecidedOrEarlier, QuestionIsOfThisDilemma, NoReply
  <1>8. QED
    BY <1>1, <1>2, <1>6, <1>7

\* Node 1 decides where to go and touches nothing the invariant relates.
LEMMA InvContext ==
    ASSUME IInv, NEW r \in AnalyzerReplies, context_analyzer(r)
    PROVE  IInv'
  <1> DEFINE c == [ch EXCEPT !.is_data_sufficient = ~r.needs_data,
                             !.search_queries = r.needs_data /\ r.queries]
  <1>1. r.needs_data \in BOOLEAN /\ r.queries \in BOOLEAN
    BY GraphAssumption DEF AnalyzerReply
  <1>2. c \in DecisionMakerState
    BY <1>1 DEF IInv, TypeOK, DecisionMakerState
  <1>3. RunNode(Context, c) /\ audit' = audit /\ rewrites' = rewrites
    BY DEF context_analyzer
  <1>4. /\ TypeOK' /\ PendingInv' /\ DoneIsDecidedOrEarlier' /\ QuestionIsOfThisDilemma'
        /\ ch' = c /\ last' = Context /\ next = Context /\ leg' = leg /\ reply' = NoReply
        /\ ~interrupted /\ interrupted' = (Context = Questioner)
    <2> HIDE DEF c
    <2>1. Context \in Nodes
      BY DEF Nodes
    <2>2. QED
      BY <1>2, <1>3, <2>1, NodeStep DEF IInv, TypeOK
  <1>5. last \in {Start, Tool}
    BY <1>4, Predecessors DEF IInv
  <1>6. /\ c.user_input = ch.user_input /\ c.last_question = ch.last_question
        /\ c.tool_facts = ch.tool_facts /\ c.rewrite_count = ch.rewrite_count
        /\ c.final_answer = ch.final_answer
    BY DEF IInv, TypeOK, DecisionMakerState
  <1>7. QuestionInv' /\ LegInv' /\ DataInv' /\ CountInv' /\ FactsOfThisDilemma'
    <2> HIDE DEF c
    <2>1. QED
      BY <1>4, <1>5, <1>6
      DEF IInv, QuestionInv, LegInv, DataInv, CountInv, FactsOfThisDilemma,
          BeforeQuestion, AfterAnswer, NoNode, Start, Context, Tool, Questioner, Parser,
          Draft, Critique, Final
  <1>8. QED
    BY <1>4, <1>7 DEF IInv

\* Node 2 searches for the present dilemma only.
LEMMA InvTool ==
    ASSUME IInv, tool_node
    PROVE  IInv'
  <1> DEFINE c == [ch EXCEPT !.tool_facts = @ \cup {ch.user_input}]
  <1>2. c \in DecisionMakerState
    BY DEF IInv, TypeOK, DecisionMakerState
  <1>3. RunNode(Tool, c) /\ audit' = audit /\ rewrites' = rewrites
    BY DEF tool_node
  <1>4. /\ TypeOK' /\ PendingInv' /\ DoneIsDecidedOrEarlier' /\ QuestionIsOfThisDilemma'
        /\ ch' = c /\ last' = Tool /\ next = Tool /\ leg' = leg /\ reply' = NoReply
        /\ ~interrupted /\ interrupted' = (Tool = Questioner)
    <2> HIDE DEF c
    <2>1. Tool \in Nodes
      BY DEF Nodes
    <2>2. audit' \in {"none", "approved", "rejected"} /\ rewrites' \in 0 .. RewriteWatch
      BY <1>3 DEF IInv, TypeOK, RewriteWatch
    <2>3. QED
      BY <1>2, <1>3, <2>1, <2>2, NodeStep
  <1>5. last = Context
    BY <1>4, Predecessors DEF IInv
  <1>6. /\ c.user_input = ch.user_input
        /\ c.last_question = ch.last_question
        /\ c.rewrite_count = ch.rewrite_count
        /\ c.tool_facts = ch.tool_facts \cup {ch.user_input}
        /\ c.final_answer = ch.final_answer
    BY DEF IInv, TypeOK, DecisionMakerState
  <1>7. QuestionInv' /\ LegInv' /\ DataInv' /\ CountInv' /\ FactsOfThisDilemma'
    <2> HIDE DEF c
    <2>1. ch \in DecisionMakerState
      BY DEF IInv, TypeOK
    <2>2. QuestionInv' /\ FactsOfThisDilemma'
      BY <1>4, <1>5, <1>6, <2>1
      DEF IInv, QuestionInv, FactsOfThisDilemma, DecisionMakerState, Inputs,
          BeforeQuestion, AfterAnswer, NoNode, Start, Context, Tool, Questioner, Parser, Draft,
          Critique, Final
    <2>3. LegInv'
      BY <1>4, <1>5, <1>6
      DEF IInv, LegInv, BeforeQuestion, AfterAnswer, Start, Context, Tool, Questioner,
          Parser, Draft, Critique, Final
    <2>4. DataInv' /\ CountInv'
      BY <1>3, <1>4, <1>5, <1>6
      DEF IInv, DataInv, CountInv, BeforeQuestion, AfterAnswer, NoNode, Start, Context,
          Tool, Questioner, Parser, Draft, Critique, Final
    <2>5. QED
      BY <2>2, <2>3, <2>4
  <1>8. QED
    BY <1>4, <1>7 DEF IInv

\* Node 3 asks about the present dilemma and stops the leg.
LEMMA InvQuestioner ==
    ASSUME IInv, NEW asks \in BOOLEAN, weight_questioner(asks)
    PROVE  IInv'
  <1> DEFINE c == [ch EXCEPT !.last_question = IF asks THEN ch.user_input ELSE 0]
  <1>2. c \in DecisionMakerState
    BY GraphAssumption DEF IInv, TypeOK, DecisionMakerState, Inputs
  <1>3. RunNode(Questioner, c) /\ audit' = audit /\ rewrites' = rewrites
    BY DEF weight_questioner
  <1>4. /\ TypeOK' /\ PendingInv' /\ DoneIsDecidedOrEarlier' /\ QuestionIsOfThisDilemma'
        /\ ch' = c /\ last' = Questioner /\ next = Questioner /\ leg' = leg /\ reply' = NoReply
        /\ ~interrupted /\ interrupted' = (Questioner = Questioner)
    <2> HIDE DEF c
    <2>1. Questioner \in Nodes
      BY DEF Nodes
    <2>2. audit' \in {"none", "approved", "rejected"} /\ rewrites' \in 0 .. RewriteWatch
      BY <1>3 DEF IInv, TypeOK, RewriteWatch
    <2>3. QED
      BY <1>2, <1>3, <2>1, <2>2, NodeStep
  <1>5. last = Context
    BY <1>4, Predecessors DEF IInv
  <1>6. /\ c.user_input = ch.user_input
        /\ c.tool_facts = ch.tool_facts
        /\ c.rewrite_count = ch.rewrite_count
        /\ c.last_question = IF asks THEN ch.user_input ELSE 0
        /\ c.final_answer = ch.final_answer
    BY DEF IInv, TypeOK, DecisionMakerState
  <1>7. QuestionInv' /\ LegInv' /\ DataInv' /\ CountInv' /\ FactsOfThisDilemma'
    <2> HIDE DEF c
    <2>1. ch \in DecisionMakerState
      BY DEF IInv, TypeOK
    <2>2. QuestionInv' /\ FactsOfThisDilemma'
      BY <1>4, <1>5, <1>6, <2>1
      DEF IInv, QuestionInv, FactsOfThisDilemma, DecisionMakerState, Inputs,
          BeforeQuestion, AfterAnswer, NoNode, Start, Context, Tool, Questioner, Parser, Draft,
          Critique, Final
    <2>3. LegInv'
      BY <1>4, <1>5, <1>6
      DEF IInv, LegInv, BeforeQuestion, AfterAnswer, Start, Context, Tool, Questioner,
          Parser, Draft, Critique, Final
    <2>4. DataInv' /\ CountInv'
      BY <1>3, <1>4, <1>5, <1>6
      DEF IInv, DataInv, CountInv, BeforeQuestion, AfterAnswer, NoNode, Start, Context,
          Tool, Questioner, Parser, Draft, Critique, Final
    <2>5. QED
      BY <2>2, <2>3, <2>4
  <1>8. QED
    BY <1>4, <1>7 DEF IInv

\* Node 3.5 parses the answer this leg was resumed with.
LEMMA InvParser ==
    ASSUME IInv, NEW found \in BOOLEAN, weight_parser(found)
    PROVE  IInv'
  <1> DEFINE c == [ch EXCEPT !.weights = IF found THEN ch.user_answer ELSE NoWeights]
  <1>2. c \in DecisionMakerState
    BY Blanks DEF IInv, TypeOK, DecisionMakerState
  <1>3. RunNode(Parser, c) /\ audit' = audit /\ rewrites' = rewrites
    BY DEF weight_parser
  <1>9. leg # "idle"
    BY <1>3 DEF RunNode
  <1>4. /\ TypeOK' /\ PendingInv' /\ DoneIsDecidedOrEarlier' /\ QuestionIsOfThisDilemma'
        /\ ch' = c /\ last' = Parser /\ next = Parser /\ leg' = leg /\ reply' = NoReply
        /\ ~interrupted /\ interrupted' = (Parser = Questioner)
    <2> HIDE DEF c
    <2>1. Parser \in Nodes
      BY DEF Nodes
    <2>2. audit' \in {"none", "approved", "rejected"} /\ rewrites' \in 0 .. RewriteWatch
      BY <1>3 DEF IInv, TypeOK, RewriteWatch
    <2>3. QED
      BY <1>2, <1>3, <2>1, <2>2, NodeStep
  <1>5. last = Questioner
    BY <1>4, Predecessors DEF IInv
  <1>6. /\ c.user_input = ch.user_input
        /\ c.last_question = ch.last_question
        /\ c.user_answer = ch.user_answer
        /\ c.tool_facts = ch.tool_facts
        /\ c.rewrite_count = ch.rewrite_count
        /\ c.weights = (IF found THEN ch.user_answer ELSE NoWeights)
        /\ c.final_answer = ch.final_answer
    BY DEF IInv, TypeOK, DecisionMakerState
  <1>10. leg = "resume"
    BY <1>4, <1>5, <1>9
    DEF IInv, TypeOK, LegInv, BeforeQuestion, Start, Context, Tool, Questioner
  <1>11. c.weights \in CommitmentsTo(c.user_input)
    <2>1. ch.user_answer \in Weights
      BY DEF IInv, TypeOK, DecisionMakerState
    <2>2. /\ ch.user_answer.question \in {0, ch.user_input}
          /\ ch.user_answer.answer \in Answers
      BY <1>4, <1>5, <1>10 DEF IInv, LegInv, QuestionInv
    <2>3. ch.user_answer = [question |-> ch.user_answer.question,
                            answer |-> ch.user_answer.answer]
      BY <2>1 DEF Weights
    <2>4. ch.user_answer \in [question : {0, ch.user_input}, answer : Answers]
      BY <2>2, <2>3
    <2>5. QED
      BY <1>6, <2>4 DEF CommitmentsTo
  <1>7. QuestionInv' /\ LegInv' /\ DataInv' /\ CountInv' /\ FactsOfThisDilemma'
    <2> HIDE DEF c
    <2>1. ch \in DecisionMakerState
      BY DEF IInv, TypeOK
    <2>2. QuestionInv' /\ FactsOfThisDilemma'
      BY <1>4, <1>5, <1>6, <2>1
      DEF IInv, QuestionInv, FactsOfThisDilemma, DecisionMakerState, Inputs,
          BeforeQuestion, AfterAnswer, NoNode, Start, Context, Tool, Questioner, Parser, Draft,
          Critique, Final
    <2>3. LegInv'
      BY <1>4, <1>5, <1>6
      DEF IInv, LegInv, BeforeQuestion, AfterAnswer, Start, Context, Tool, Questioner,
          Parser, Draft, Critique, Final
    <2>4. DataInv' /\ CountInv'
      BY <1>4, <1>5, <1>6, <1>11
      DEF IInv, DataInv, CountInv, BeforeQuestion, AfterAnswer, NoNode, Start, Context,
          Tool, Questioner, Parser, Draft, Critique, Final
    <2>5. QED
      BY <2>2, <2>3, <2>4
  <1>8. QED
    BY <1>4, <1>7 DEF IInv

\* Node 4 writes from this dilemma and its weights; it runs below the cap.
LEMMA InvDraft ==
    ASSUME IInv, draft_generator
    PROVE  IInv'
  <1> DEFINE c == [ch EXCEPT !.draft_analysis = [input |-> ch.user_input, weights |-> ch.weights]]
  <1>2. c \in DecisionMakerState
    BY DEF IInv, TypeOK, DecisionMakerState, DraftText
  <1>3. RunNode(Draft, c) /\ audit' = "none" /\ rewrites' \in 0 .. RewriteWatch
    BY DEF draft_generator, IInv, TypeOK, RewriteWatch
  <1>4. /\ TypeOK' /\ PendingInv' /\ DoneIsDecidedOrEarlier' /\ QuestionIsOfThisDilemma'
        /\ ch' = c /\ last' = Draft /\ next = Draft /\ leg' = leg /\ reply' = NoReply
        /\ ~interrupted /\ interrupted' = (Draft = Questioner)
    <2> HIDE DEF c
    <2>1. Draft \in Nodes
      BY DEF Nodes
    <2>2. QED
      BY <1>2, <1>3, <2>1, NodeStep
  <1>5. last \in {Parser, Critique}
    BY <1>4, Predecessors DEF IInv
  <1>6. /\ c.user_input = ch.user_input
        /\ c.last_question = ch.last_question
        /\ c.user_answer = ch.user_answer
        /\ c.tool_facts = ch.tool_facts
        /\ c.weights = ch.weights
        /\ c.final_answer = ch.final_answer
        /\ c.rewrite_count = ch.rewrite_count
        /\ c.draft_analysis = ThisDraft
    BY DEF IInv, TypeOK, DecisionMakerState, ThisDraft
  <1>7. QuestionInv' /\ LegInv' /\ DataInv' /\ CountInv' /\ FactsOfThisDilemma'
    <2> HIDE DEF c
    <2>1. ch \in DecisionMakerState
      BY DEF IInv, TypeOK
    <2>2. QuestionInv' /\ FactsOfThisDilemma'
      BY <1>4, <1>5, <1>6, <2>1
      DEF IInv, QuestionInv, FactsOfThisDilemma, DecisionMakerState, Inputs,
          BeforeQuestion, AfterAnswer, NoNode, Start, Context, Tool, Questioner, Parser, Draft,
          Critique, Final
    <2>3. LegInv'
      BY <1>4, <1>5, <1>6
      DEF IInv, LegInv, BeforeQuestion, AfterAnswer, Start, Context, Tool, Questioner,
          Parser, Draft, Critique, Final
    <2>4. DataInv'
      BY <1>3, <1>4, <1>5, <1>6
      DEF IInv, DataInv, ThisDraft, BeforeQuestion, AfterAnswer, NoNode, Start, Context,
          Tool, Questioner, Parser, Draft, Critique, Final
    <2>5. CountInv'
      <3>1. last = Critique => ch.rewrite_count < RewriteCap
        BY <1>4, <2>1, RouterRange, Edges
        DEF IInv, PendingInv, NoNode, Critique, Draft, Final
      <3>2. QED
        BY <1>4, <1>5, <1>6, <3>1
        DEF IInv, CountInv, RewriteCap, BeforeQuestion, Start, Context, Tool,
          Questioner, Parser, Draft, Critique, Final
    <2>6. QED
      BY <2>2, <2>3, <2>4, <2>5
  <1>8. QED
    BY <1>4, <1>7 DEF IInv

\* Node 5 audits the draft of node 4; its counter stays within the cap.
LEMMA InvCritique ==
    ASSUME IInv, NEW r \in CriticReplies, cove_critique(r)
    PROVE  IInv'
  <1> DEFINE c == [ch EXCEPT !.critique_feedback = IF r.feedback THEN ch.user_input ELSE 0,
                             !.rewrite_count = IF r.needs_rewrite /\ @ < RewriteCap
                                               THEN @ + 1 ELSE @]
  <1>1. /\ (IF r.feedback THEN ch.user_input ELSE 0) \in Inputs
        /\ (IF r.needs_rewrite /\ ch.rewrite_count < RewriteCap
            THEN ch.rewrite_count + 1 ELSE ch.rewrite_count) \in 0 .. RewriteCap
    BY GraphAssumption DEF IInv, TypeOK, DecisionMakerState, Inputs, RewriteCap
  <1>2. c \in DecisionMakerState
    BY <1>1 DEF IInv, TypeOK, DecisionMakerState
  <1>3. RunNode(Critique, c) /\ audit' \in {"none", "approved", "rejected"} /\ audit' # "none"
        /\ rewrites' \in 0 .. RewriteWatch
    BY DEF cove_critique, IInv, TypeOK
  <1>4. /\ TypeOK' /\ PendingInv' /\ DoneIsDecidedOrEarlier' /\ QuestionIsOfThisDilemma'
        /\ ch' = c /\ last' = Critique /\ next = Critique /\ leg' = leg /\ reply' = NoReply
        /\ ~interrupted /\ interrupted' = (Critique = Questioner)
    <2> HIDE DEF c
    <2>1. Critique \in Nodes
      BY DEF Nodes
    <2>2. QED
      BY <1>2, <1>3, <2>1, NodeStep
  <1>5. last = Draft
    BY <1>4, Predecessors DEF IInv
  <1>6. /\ c.user_input = ch.user_input
        /\ c.last_question = ch.last_question
        /\ c.user_answer = ch.user_answer
        /\ c.tool_facts = ch.tool_facts
        /\ c.weights = ch.weights
        /\ c.final_answer = ch.final_answer
        /\ c.draft_analysis = ch.draft_analysis
    BY DEF IInv, TypeOK, DecisionMakerState
  <1>7. QuestionInv' /\ LegInv' /\ DataInv' /\ CountInv' /\ FactsOfThisDilemma'
    <2> HIDE DEF c
    <2>1. ch \in DecisionMakerState
      BY DEF IInv, TypeOK
    <2>2. QuestionInv' /\ FactsOfThisDilemma'
      BY <1>4, <1>5, <1>6, <2>1
      DEF IInv, QuestionInv, FactsOfThisDilemma, DecisionMakerState, Inputs,
          BeforeQuestion, AfterAnswer, NoNode, Start, Context, Tool, Questioner, Parser, Draft,
          Critique, Final
    <2>3. LegInv'
      BY <1>4, <1>5, <1>6
      DEF IInv, LegInv, BeforeQuestion, AfterAnswer, Start, Context, Tool, Questioner,
          Parser, Draft, Critique, Final
    <2>4. DataInv'
      BY <1>3, <1>4, <1>5, <1>6
      DEF IInv, DataInv, ThisDraft, BeforeQuestion, AfterAnswer, NoNode, Start, Context,
          Tool, Questioner, Parser, Draft, Critique, Final
    <2>5. CountInv'
      BY <1>4 DEF CountInv, BeforeQuestion, Start, Context, Tool,
          Questioner, Parser, Draft, Critique, Final
    <2>6. QED
      BY <2>2, <2>3, <2>4, <2>5
  <1>8. QED
    BY <1>4, <1>7 DEF IInv

\* Node 6 packages the audited draft.
LEMMA InvFinal ==
    ASSUME IInv, final_synthesizer
    PROVE  IInv'
  <1> DEFINE c == [ch EXCEPT !.final_answer = ch.draft_analysis]
  <1>2. c \in DecisionMakerState
    BY DEF IInv, TypeOK, DecisionMakerState
  <1>3. RunNode(Final, c) /\ audit' = audit /\ rewrites' = rewrites
        /\ audit' \in {"none", "approved", "rejected"} /\ rewrites' \in 0 .. RewriteWatch
    BY DEF final_synthesizer, IInv, TypeOK
  <1>4. /\ TypeOK' /\ PendingInv' /\ DoneIsDecidedOrEarlier' /\ QuestionIsOfThisDilemma'
        /\ ch' = c /\ last' = Final /\ next = Final /\ leg' = leg /\ reply' = NoReply
        /\ ~interrupted /\ interrupted' = (Final = Questioner)
    <2> HIDE DEF c
    <2>1. Final \in Nodes
      BY DEF Nodes
    <2>2. QED
      BY <1>2, <1>3, <2>1, NodeStep
  <1>5. last = Critique
    BY <1>4, Predecessors DEF IInv
  <1>6. /\ c.user_input = ch.user_input
        /\ c.last_question = ch.last_question
        /\ c.user_answer = ch.user_answer
        /\ c.tool_facts = ch.tool_facts
        /\ c.weights = ch.weights
        /\ c.draft_analysis = ch.draft_analysis
        /\ c.final_answer = ch.draft_analysis
    BY DEF IInv, TypeOK, DecisionMakerState
  <1>7. QuestionInv' /\ LegInv' /\ DataInv' /\ CountInv' /\ FactsOfThisDilemma'
    <2> HIDE DEF c
    <2>1. ch \in DecisionMakerState
      BY DEF IInv, TypeOK
    <2>2. QuestionInv' /\ FactsOfThisDilemma'
      BY <1>4, <1>5, <1>6, <2>1
      DEF IInv, QuestionInv, FactsOfThisDilemma, DecisionMakerState, Inputs,
          BeforeQuestion, AfterAnswer, NoNode, Start, Context, Tool, Questioner, Parser, Draft,
          Critique, Final
    <2>3. LegInv'
      BY <1>4, <1>5, <1>6
      DEF IInv, LegInv, BeforeQuestion, AfterAnswer, Start, Context, Tool, Questioner,
          Parser, Draft, Critique, Final
    <2>4. DataInv'
      BY <1>3, <1>4, <1>5, <1>6
      DEF IInv, DataInv, ThisDraft, BeforeQuestion, AfterAnswer, NoNode, Start, Context,
          Tool, Questioner, Parser, Draft, Critique, Final
    <2>5. CountInv'
      BY <1>4 DEF CountInv, BeforeQuestion, Start, Context, Tool,
          Questioner, Parser, Draft, Critique, Final
    <2>6. QED
      BY <2>2, <2>3, <2>4, <2>5
  <1>8. QED
    BY <1>4, <1>7 DEF IInv

\* A call that ends leaves the thread alone; its reply says what the thread holds.
LEMMA InvEnd == IInv /\ (Sentinel \/ Fail \/ OutOfSteps) => IInv'
  <1> SUFFICES ASSUME IInv, Sentinel \/ Fail \/ OutOfSteps PROVE IInv'
    OBVIOUS
  <1>1. /\ leg # "idle" /\ leg' = "idle" /\ offered' \in BOOLEAN
        /\ UNCHANGED <<ch, last, next, interrupted, steps, audit, rewrites>>
    BY DEF Sentinel, Fail, OutOfSteps, EndLeg, IInv, TypeOK
  <1>2. ch.final_answer \in DraftText /\ ch.last_question \in Inputs /\ NoReply \in Reply
    BY Blanks DEF IInv, TypeOK, DecisionMakerState
  <1>3. reply' \in Reply
    BY <1>2 DEF Sentinel, Fail, OutOfSteps, EndLeg, Reply
  <1>4. last # NoNode
    BY <1>1 DEF IInv, PendingInv
  <1>5. TypeOK' /\ PendingInv' /\ QuestionInv' /\ LegInv' /\ DataInv' /\ CountInv'
        /\ FactsOfThisDilemma'
    <2>1. TypeOK' /\ FactsOfThisDilemma' /\ QuestionInv' /\ CountInv'
      BY <1>1, <1>3 DEF IInv, TypeOK, FactsOfThisDilemma, QuestionInv, CountInv
    <2>2. PendingInv' /\ LegInv' /\ DataInv'
      BY <1>1, <1>4 DEF IInv, PendingInv, LegInv, DataInv, ThisDraft
    <2>3. QED
      BY <2>1, <2>2
  <1>6. DoneIsDecidedOrEarlier'
    <2> SUFFICES ASSUME reply'.kind = "done"
                 PROVE  DoneIsDecidedOrEarlier'
      BY DEF DoneIsDecidedOrEarlier
    <2>1. Sentinel /\ leg = "resume" /\ reply'.final = ch.final_answer
      BY DEF Sentinel, Fail, OutOfSteps, EndLeg, NoReply, IInv, TypeOK
    <2>2. CASE next = End
      <3>1. last = Final
        BY <2>2, Predecessors DEF IInv
      <3>2. ch.final_answer = ThisDraft /\ ch.weights \in CommitmentsTo(ch.user_input)
        BY <3>1 DEF IInv, DataInv, AfterAnswer
      <3>3. ch.weights.question \in {0, ch.user_input}
        BY <3>2 DEF CommitmentsTo, NoWeights
      <3>4. QED
        BY <1>1, <2>1, <2>2, <3>2, <3>3 DEF DoneIsDecidedOrEarlier, ThisDraft
    <2>3. CASE next # End
      <3>1. last = Questioner
        BY <2>1, <2>3 DEF Sentinel, Drained, IInv, LegInv
      <3>2. next = Parser
        BY <1>4, <3>1, Edges DEF IInv, TypeOK, PendingInv
      <3>3. ch.final_answer.input < ch.user_input
        BY <1>4, <3>1 DEF IInv, DataInv, Questioner, Final
      <3>4. QED
        BY <1>1, <2>1, <3>2, <3>3 DEF DoneIsDecidedOrEarlier
    <2>4. QED
      BY <2>2, <2>3
  <1>7. QuestionIsOfThisDilemma'
    <2> SUFFICES ASSUME reply'.kind = "awaiting_user"
                 PROVE  /\ next = Parser
                        /\ reply'.question = ch.last_question
                        /\ ch.last_question \in {0, ch.user_input}
      BY <1>1 DEF QuestionIsOfThisDilemma
    <2>1. Sentinel /\ leg = "start" /\ reply'.question = ch.last_question
      BY DEF Sentinel, Fail, OutOfSteps, EndLeg, NoReply, IInv, TypeOK
    <2>2. last \in BeforeQuestion \/ (last = Questioner /\ interrupted)
      BY <2>1 DEF IInv, LegInv
    <2>3. last = Questioner
      <3>1. CASE interrupted
        BY <3>1 DEF IInv, LegInv
      <3>2. CASE ~interrupted
        <4>1. last = Final
          BY <2>1, <3>2, Predecessors DEF Sentinel, Drained, IInv
        <4>2. QED
          BY <2>2, <3>2, <4>1 DEF BeforeQuestion, Start, Context, Tool, Final
      <3>3. QED
        BY <3>1, <3>2
    <2>4. next = Parser
      BY <1>4, <2>3, Edges DEF IInv, TypeOK, PendingInv
    <2>5. QED
      BY <2>1, <2>3, <2>4 DEF IInv, QuestionInv
  <1>8. QED
    BY <1>5, <1>6, <1>7 DEF IInv

\* A step that changes nothing keeps the invariant.
LEMMA InvStutter == IInv /\ UNCHANGED vars => IInv'
  BY DEF IInv, TypeOK, PendingInv, QuestionInv, LegInv, DataInv, CountInv, ThisDraft,
         CommitmentsTo, FactsOfThisDilemma, DoneIsDecidedOrEarlier, QuestionIsOfThisDilemma, vars, runtime

\* IInv is inductive.
LEMMA InvNext == IInv /\ [Next]_vars => IInv'
  <1> SUFFICES ASSUME IInv, [Next]_vars PROVE IInv'
    OBVIOUS
  <1>1. CASE StreamSession
    BY <1>1, InvStart
  <1>2. ASSUME NEW a \in Answers, StreamResumeSession(a) PROVE IInv'
    BY <1>2, InvResume
  <1>3. CASE Node
    <2>1. ASSUME NEW r \in AnalyzerReplies, context_analyzer(r) PROVE IInv'
      BY <2>1, InvContext
    <2>2. ASSUME NEW r \in CriticReplies, cove_critique(r) PROVE IInv'
      BY <2>2, InvCritique
    <2>3. ASSUME NEW b \in BOOLEAN, weight_questioner(b) \/ weight_parser(b) PROVE IInv'
      BY <2>3, InvQuestioner, InvParser
    <2>4. QED
      BY <1>3, <2>1, <2>2, <2>3, InvTool, InvDraft, InvFinal DEF Node
  <1>4. CASE Sentinel \/ Fail \/ OutOfSteps
    BY <1>4, InvEnd
  <1>5. CASE UNCHANGED vars
    BY <1>5, InvStutter
  <1>6. QED
    BY <1>1, <1>2, <1>3, <1>4, <1>5 DEF Next

\* The invariant holds of every reachable state.
LEMMA Inductive == Spec => []IInv
  BY InvInit, InvNext, PTL DEF Spec

-----------------------------------------------------------------------------
(* Safety. *)

\* Every variable keeps its type: in particular no leg outruns recursion_limit and
\* rewrite_count never passes the cap.
THEOREM TypeCorrect == Spec => []TypeOK
  <1>1. IInv => TypeOK
    BY DEF IInv
  <1>2. QED
    BY <1>1, Inductive, PTL

\* Only a draft the auditor has read reaches node 6 or the end of the graph.
THEOREM FinalIsAudited == Spec => []OnlyAuditedDraftsFinal
  <1>1. IInv => OnlyAuditedDraftsFinal
    BY Predecessors DEF IInv, DataInv, OnlyAuditedDraftsFinal
  <1>2. QED
    BY <1>1, Inductive, PTL

\* Nodes 4, 5 and 6 only ever read weights of the present dilemma: from an answer to its
\* question, an empty one included, or none.
THEOREM WeightsAreCurrent == Spec => []WeightsAnswerThisQuestion
  <1>1. IInv => WeightsAnswerThisQuestion
    <2> SUFFICES ASSUME IInv, next \in {Draft, Critique, Final}
                 PROVE  ch.weights.question \in {0, ch.user_input}
      BY DEF WeightsAnswerThisQuestion
    <2>1. last \in AfterAnswer
      BY Predecessors DEF IInv, AfterAnswer
    <2>2. QED
      BY <2>1 DEF IInv, DataInv, CommitmentsTo, NoWeights
  <1>2. QED
    BY <1>1, Inductive, PTL

\* No fact found for one dilemma is in the checkpoint when another is analysed.
THEOREM FactsAreCurrent == Spec => []FactsOfThisDilemma
  <1>1. IInv => FactsOfThisDilemma
    BY DEF IInv
  <1>2. QED
    BY <1>1, Inductive, PTL

\* A done reply either carries the decision on the present dilemma or was sent before this
\* dilemma's question was answered, and then holds what an earlier dilemma left.
THEOREM DoneRepliesDecide == Spec => []DoneIsDecidedOrEarlier
  <1>1. IInv => DoneIsDecidedOrEarlier
    BY DEF IInv
  <1>2. QED
    BY <1>1, Inductive, PTL

\* An awaiting_user reply leaves the thread right before node 3.5 and never shows an
\* earlier dilemma's question: though the sentinel of leg 1 looks at nothing but that the
\* stream is over.  The question may be empty.
THEOREM AwaitingRepliesAsk == Spec => []QuestionIsOfThisDilemma
  <1>1. IInv => QuestionIsOfThisDilemma
    BY DEF IInv
  <1>2. QED
    BY <1>1, Inductive, PTL

\* Node 5 never runs at the cap, so its own override is never what ends the loop.
THEOREM OverrideIsUnreachable == Spec => []CritiqueBelowCap
  <1>1. IInv => CritiqueBelowCap
    BY Predecessors DEF IInv, CountInv, CritiqueBelowCap
  <1>2. QED
    BY <1>1, Inductive, PTL

\* Injecting an answer keeps the pending node, wherever an earlier leg failed.
THEOREM AnswerKeepsPendingNode == Spec => AnswerNeverMovesGraph
  <1>1. IInv /\ [Next]_vars => [leg = "idle" /\ leg' = "resume" => next' = next]_vars
    <2> SUFFICES ASSUME IInv, Next, leg = "idle", leg' = "resume"
                 PROVE  next' = next
      BY DEF vars
    <2>1. PICK a \in Answers : StreamResumeSession(a)
      BY DEF Next, StreamSession, BeginLeg, Node, context_analyzer, tool_node,
             weight_questioner, weight_parser, draft_generator, cove_critique,
             final_synthesizer, RunNode, Sentinel, Fail, OutOfSteps
    <2>2. QED
      BY <2>1, InvResume
  <1>2. QED
    BY <1>1, Inductive, PTL DEF Spec, AnswerNeverMovesGraph

-----------------------------------------------------------------------------
(* The graph implements DecisionRound. *)

\* The phase each pending node stands for.
LEMMA Phases ==
    /\ PhaseOf(NoNode) = "empty"
    /\ PhaseOf(Context) = "framing" /\ PhaseOf(Tool) = "framing"
    /\ PhaseOf(Questioner) = "framing"
    /\ PhaseOf(Parser) = "asked"
    /\ PhaseOf(Draft) = "deciding" /\ PhaseOf(Critique) = "deciding"
    /\ PhaseOf(Final) = "deciding"
    /\ PhaseOf(End) = "decided"
  BY DEF PhaseOf, NoNode, Context, Tool, Questioner, Parser, Draft, Critique, Final, End

\* An empty thread is the initial state of DecisionRound.
LEMMA RefineInit == Init => Round!Init
  BY Phases DEF Init, Round!Init, EmptyState, NoWeights, NoDraft, Round!NoWeights,
                Round!NoDecision

\* Node 3 asks, node 3.5 commits, node 6 decides; every other node is invisible.
LEMMA RefineNode == IInv /\ Node => [Round!Next]_(Round!vars)
  <1> SUFFICES ASSUME IInv, Node PROVE Round!Next \/ UNCHANGED Round!vars
    OBVIOUS
  <1>t. ch \in DecisionMakerState /\ PendingInv /\ TypeOK
    BY DEF IInv, TypeOK
  <1>1. ASSUME NEW r \in AnalyzerReplies, context_analyzer(r)
        PROVE  UNCHANGED Round!vars
    <2>1. /\ ch'.user_input = ch.user_input /\ ch'.weights = ch.weights
          /\ ch'.final_answer = ch.final_answer /\ next = Context
          /\ next' = Successor(Context, ch')
      BY <1>1, <1>t DEF context_analyzer, RunNode, DecisionMakerState
    <2>2. ch' \in DecisionMakerState
      BY <1>1, InvContext DEF IInv, TypeOK
    <2>3. next' \in {Tool, Questioner}
      BY <2>1, <2>2, Edges
    <2>4. PhaseOf(next') = PhaseOf(next)
      BY <2>1, <2>3, Phases
    <2>5. QED
      BY <2>1, <2>4 DEF Round!vars
  <1>2. ASSUME tool_node PROVE UNCHANGED Round!vars
    <2>1. /\ ch'.user_input = ch.user_input /\ ch'.weights = ch.weights
          /\ ch'.final_answer = ch.final_answer /\ next = Tool
          /\ next' = Successor(Tool, ch')
      BY <1>2, <1>t DEF tool_node, RunNode, DecisionMakerState
    <2>2. ch' \in DecisionMakerState
      BY <1>2, InvTool DEF IInv, TypeOK
    <2>3. PhaseOf(next') = PhaseOf(next)
      BY <2>1, <2>2, Edges, Phases
    <2>4. QED
      BY <2>1, <2>3 DEF Round!vars
  <1>3. ASSUME NEW asks \in BOOLEAN, weight_questioner(asks) PROVE Round!Ask
    <2>1. /\ ch'.user_input = ch.user_input /\ ch'.weights = ch.weights
          /\ ch'.final_answer = ch.final_answer /\ next = Questioner
          /\ next' = Successor(Questioner, ch')
      BY <1>3, <1>t DEF weight_questioner, RunNode, DecisionMakerState
    <2>2. ch' \in DecisionMakerState
      BY <1>3, InvQuestioner DEF IInv, TypeOK
    <2>3. next' = Parser
      BY <2>1, <2>2, Edges
    <2>4. QED
      BY <2>1, <2>3, Phases DEF Round!Ask
  <1>4. ASSUME NEW found \in BOOLEAN, weight_parser(found)
        PROVE  \E w \in Round!Commitments : Round!Commit(w)
    <2>1. /\ ch'.user_input = ch.user_input /\ ch'.final_answer = ch.final_answer
          /\ next = Parser /\ last' = Parser /\ next' = Successor(Parser, ch')
      BY <1>4, <1>t DEF weight_parser, RunNode, DecisionMakerState
    <2>2. IInv'
      BY <1>4, InvParser
    <2>3. next' = Draft
      BY <2>1, <2>2, Edges DEF IInv, TypeOK
    <2>4. ch'.weights \in CommitmentsTo(ch.user_input)
      BY <2>1, <2>2 DEF IInv, DataInv, AfterAnswer
    <2>5. ch'.weights \in Round!Commitments
      BY <2>4 DEF CommitmentsTo, Round!Commitments, NoWeights, Round!NoWeights
    <2>6. Round!Commit(ch'.weights)
      BY <2>1, <2>3, Phases DEF Round!Commit
    <2>7. QED
      BY <2>5, <2>6
  <1>5. ASSUME draft_generator PROVE UNCHANGED Round!vars
    <2>1. /\ ch'.user_input = ch.user_input /\ ch'.weights = ch.weights
          /\ ch'.final_answer = ch.final_answer /\ next = Draft
          /\ next' = Successor(Draft, ch')
      BY <1>5, <1>t DEF draft_generator, RunNode, DecisionMakerState
    <2>2. ch' \in DecisionMakerState
      BY <1>5, InvDraft DEF IInv, TypeOK
    <2>3. PhaseOf(next') = PhaseOf(next)
      BY <2>1, <2>2, Edges, Phases
    <2>4. QED
      BY <2>1, <2>3 DEF Round!vars
  <1>6. ASSUME NEW r \in CriticReplies, cove_critique(r)
        PROVE  UNCHANGED Round!vars
    <2>1. /\ ch'.user_input = ch.user_input /\ ch'.weights = ch.weights
          /\ ch'.final_answer = ch.final_answer /\ next = Critique
          /\ next' = Successor(Critique, ch')
      BY <1>6, <1>t DEF cove_critique, RunNode, DecisionMakerState
    <2>2. ch' \in DecisionMakerState
      BY <1>6, InvCritique DEF IInv, TypeOK
    <2>3. next' \in {Draft, Final}
      BY <2>1, <2>2, Edges, RouterRange
    <2>4. PhaseOf(next') = PhaseOf(next)
      BY <2>1, <2>3, Phases
    <2>5. QED
      BY <2>1, <2>4 DEF Round!vars
  <1>7. ASSUME final_synthesizer PROVE Round!Decide
    <2>1. /\ ch'.user_input = ch.user_input /\ ch'.weights = ch.weights
          /\ ch'.final_answer = ch.draft_analysis /\ next = Final
          /\ next' = Successor(Final, ch')
      BY <1>7, <1>t DEF final_synthesizer, RunNode, DecisionMakerState
    <2>2. ch' \in DecisionMakerState
      BY <1>7, InvFinal DEF IInv, TypeOK
    <2>3. next' = End
      BY <2>1, <2>2, Edges
    <2>4. ch.draft_analysis = ThisDraft
      BY <2>1, Predecessors DEF IInv, DataInv
    <2>5. QED
      BY <2>1, <2>3, <2>4, Phases DEF Round!Decide, ThisDraft
  <1>8. QED
    BY <1>1, <1>2, <1>3, <1>4, <1>5, <1>6, <1>7 DEF Node, Round!Next

\* Every step of the graph, the calls' ends included, is a DecisionRound step or none.
LEMMA RefineNext == IInv /\ [Next]_vars => [Round!Next]_(Round!vars)
  <1> SUFFICES ASSUME IInv, [Next]_vars PROVE Round!Next \/ UNCHANGED Round!vars
    OBVIOUS
  <1>t. ch \in DecisionMakerState
    BY DEF IInv, TypeOK
  <1>1. ASSUME StreamSession PROVE Round!Frame
    <2>1. /\ ch.user_input < MaxInputs /\ ch'.user_input = ch.user_input + 1
          /\ ch'.weights = ch.weights /\ ch'.final_answer = ch.final_answer
          /\ next' = Successor(Start, ch')
      BY <1>1, <1>t DEF StreamSession, DecisionMakerState
    <2>2. ch' \in DecisionMakerState
      BY <1>1, InvStart DEF IInv, TypeOK
    <2>3. next' = Context
      BY <2>1, <2>2, Edges
    <2>4. QED
      BY <2>1, <2>3, Phases DEF Round!Frame
  <1>2. ASSUME NEW a \in Answers, StreamResumeSession(a) PROVE UNCHANGED Round!vars
    <2>1. next' = next
      BY <1>2, InvResume
    <2>2. /\ ch'.user_input = ch.user_input /\ ch'.weights = ch.weights
          /\ ch'.final_answer = ch.final_answer
      BY <1>2, <1>t DEF StreamResumeSession, DecisionMakerState
    <2>3. QED
      BY <2>1, <2>2 DEF Round!vars
  <1>3. CASE Node
    BY <1>3, RefineNode
  <1>4. CASE Sentinel \/ Fail \/ OutOfSteps \/ UNCHANGED vars
    BY <1>4 DEF Sentinel, Fail, OutOfSteps, EndLeg, vars, runtime, Round!vars
  <1>5. QED
    BY <1>1, <1>2, <1>3, <1>4 DEF Next, Round!Next

\* Whatever fails, is retried, is answered too early or is rewritten, a thread asks one
\* question per dilemma, commits the weights once and never from an answer to an earlier
\* question, and decides from them.
THEOREM Refinement == Spec => ImplementsRound
  BY RefineInit, RefineNext, Inductive, PTL DEF Spec, ImplementsRound, Round!Spec

-----------------------------------------------------------------------------
(* At most one counted rewrite.                                                *)

\* No rewrite has been made on an empty thread.
LEMMA RewriteInit == Init => RewriteInv
  BY DEF Init, RewriteInv, OneCountedRewrite, NoNode, Draft, Critique

\* Each rewrite made on a rejection is covered by one that rewrite_count has counted,
\* and node 4 is entered again below the cap only.
LEMMA RewriteNext ==
    ASSUME IInv, RewriteInv, [Next]_vars
    PROVE  RewriteInv'
  <1>t. ch \in DecisionMakerState /\ TypeOK /\ PendingInv
    BY DEF IInv, TypeOK
  <1>1. CASE StreamSession
    BY <1>1, Edges
    DEF StreamSession, RewriteInv, OneCountedRewrite, Start, Draft, Critique
  <1>2. ASSUME NEW a \in Answers, StreamResumeSession(a) PROVE RewriteInv'
    <2>1. /\ ch'.rewrite_count = ch.rewrite_count
          /\ last' = last /\ rewrites' = rewrites /\ audit' = audit
      BY <1>2, <1>t DEF StreamResumeSession, DecisionMakerState
    <2>2. QED
      BY <2>1 DEF RewriteInv, OneCountedRewrite
  <1>3. ASSUME NEW n \in {Context, Tool, Questioner, Parser}, last' = n, next = n,
               rewrites' = rewrites
        PROVE  RewriteInv'
    <2>1. last \in {NoNode, Questioner, Parser} \cup BeforeQuestion
      BY <1>t, <1>3, Predecessors DEF BeforeQuestion
    <2>2. rewrites' = 0
      BY <1>3, <2>1 DEF RewriteInv
    <2>3. QED
      BY <1>3, <2>2
      DEF RewriteInv, OneCountedRewrite, Context, Tool, Questioner, Parser, Draft, Critique
  <1>4. ASSUME NEW r \in AnalyzerReplies, context_analyzer(r) PROVE RewriteInv'
    BY <1>3, <1>4 DEF context_analyzer, RunNode
  <1>5. CASE tool_node
    BY <1>3, <1>5 DEF tool_node, RunNode
  <1>6. ASSUME NEW b \in BOOLEAN, weight_questioner(b) \/ weight_parser(b) PROVE RewriteInv'
    BY <1>3, <1>6 DEF weight_questioner, weight_parser, RunNode
  <1>7. CASE draft_generator
    <2>1. /\ last' = Draft /\ next = Draft
          /\ ch'.rewrite_count = ch.rewrite_count
          /\ rewrites' = IF last = Critique /\ audit = "rejected" /\ rewrites < RewriteWatch
                          THEN rewrites + 1 ELSE rewrites
      BY <1>7, <1>t DEF draft_generator, RunNode, DecisionMakerState
    <2>2. /\ rewrites \in 0 .. 3 /\ ch.rewrite_count \in 0 .. 2
      BY <1>t DEF TypeOK, RewriteWatch, DecisionMakerState, RewriteCap
    <2>3. CASE last = Parser
      <3>1. rewrites' = 0
        BY <2>1, <2>3 DEF RewriteInv, Parser, Critique
      <3>2. QED
        BY <2>1, <2>2, <3>1
        DEF RewriteInv, OneCountedRewrite, BeforeQuestion, NoNode, Start, Context, Tool,
            Questioner, Parser, Draft, Critique
    <2>4. CASE last = Critique
      <3>1. route_from_critique(ch) = Draft
        BY <1>t, <2>1, <2>4, Edges DEF PendingInv, NoNode, Critique
      <3>2. ch.rewrite_count <= 1
        BY <1>t, <2>2, <3>1, RouterRange DEF RewriteCap
      <3>3. rewrites + (IF audit = "rejected" THEN 1 ELSE 0) <= ch.rewrite_count
        BY <2>4 DEF RewriteInv
      <3>4. rewrites' <= ch'.rewrite_count /\ rewrites' <= 1
        BY <2>1, <2>2, <2>4, <3>2, <3>3 DEF RewriteWatch
      <3>5. QED
        BY <2>1, <3>4
        DEF RewriteInv, OneCountedRewrite, BeforeQuestion, NoNode, Start, Context, Tool,
            Questioner, Parser, Draft, Critique
    <2>5. QED
      BY <1>t, <2>1, <2>3, <2>4, Predecessors
  <1>8. ASSUME NEW r \in CriticReplies, cove_critique(r) PROVE RewriteInv'
    <2>1. /\ last' = Critique /\ next = Critique /\ rewrites' = rewrites
          /\ audit' = (IF r.needs_rewrite THEN "rejected" ELSE "approved")
          /\ ch'.rewrite_count = IF r.needs_rewrite /\ ch.rewrite_count < RewriteCap
                                 THEN ch.rewrite_count + 1 ELSE ch.rewrite_count
      BY <1>8, <1>t DEF cove_critique, RunNode, DecisionMakerState
    <2>2. last = Draft /\ rewrites <= ch.rewrite_count /\ rewrites <= 1
      BY <1>t, <2>1, Predecessors DEF RewriteInv, OneCountedRewrite
    <2>3. ch.rewrite_count < RewriteCap /\ ch.rewrite_count \in 0 .. 2 /\ rewrites \in Nat
      BY <1>t, <2>2 DEF IInv, CountInv, DecisionMakerState, RewriteCap, TypeOK
    <2>4. rewrites' + (IF audit' = "rejected" THEN 1 ELSE 0) <= ch'.rewrite_count
      BY <2>1, <2>2, <2>3
    <2>5. QED
      BY <2>1, <2>2, <2>4
      DEF RewriteInv, OneCountedRewrite, BeforeQuestion, NoNode, Start, Context, Tool,
          Questioner, Parser, Draft, Critique
  <1>9. CASE final_synthesizer
    <2>1. last' = Final /\ rewrites' = rewrites
      BY <1>9 DEF final_synthesizer, RunNode
    <2>2. QED
      BY <2>1
      DEF RewriteInv, OneCountedRewrite, BeforeQuestion, NoNode, Start, Context, Tool,
          Questioner, Parser, Draft, Critique, Final
  <1>10. CASE Sentinel \/ Fail \/ OutOfSteps \/ UNCHANGED vars
    <2>1. UNCHANGED <<ch, last, audit, rewrites>>
      BY <1>10 DEF Sentinel, Fail, OutOfSteps, EndLeg, vars, runtime
    <2>2. QED
      BY <2>1 DEF RewriteInv, OneCountedRewrite
  <1>11. QED
    BY <1>1, <1>2, <1>4, <1>5, <1>6, <1>7, <1>8, <1>9, <1>10 DEF Next, Node

\* The documented cap is two rewrites; whatever the auditor replies, the graph makes at
\* most one on a rejection, because the second rejection already reaches the cap.
THEOREM OneRewrite == Spec => []OneCountedRewrite
  <1>1. RewriteInv /\ IInv /\ [Next]_vars => RewriteInv'
    BY RewriteNext
  <1>2. RewriteInv => OneCountedRewrite
    BY DEF RewriteInv
  <1>3. QED
    BY <1>1, <1>2, RewriteInit, Inductive, PTL DEF Spec

=============================================================================
