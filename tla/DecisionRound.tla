---------------------------- MODULE DecisionRound ----------------------------
(***************************************************************************)
(* What one decision thread promises its user, with the nodes, the         *)
(* rewrites, the retries and the failures hidden: a dilemma is framed, ONE *)
(* calibration question is asked (an empty one, at worst), the weights are *)
(* committed once, from an answer to that question and never to an earlier *)
(* one, and the decision rests on exactly those weights.  Only a new       *)
(* dilemma reopens a decided round.                                        *)
(***************************************************************************)
EXTENDS Naturals

CONSTANTS Answers,    \* answers a user may give to a calibration question
          NoAnswer,   \* the value of an answer never given
          MaxInputs   \* bound on the dilemmas submitted on one thread

VARIABLES phase,      \* where the round stands
          input,      \* the dilemma being decided (0: none yet)
          basis,      \* the weights committed last
          decision    \* the decision taken last

vars == <<phase, input, basis, decision>>

NoWeights == [question |-> 0, answer |-> NoAnswer]
NoDecision == [input |-> 0, weights |-> NoWeights]

Init ==
    /\ phase = "empty"
    /\ input = 0
    /\ basis = NoWeights
    /\ decision = NoDecision

\* A new dilemma may interrupt any phase.
Frame ==
    /\ input < MaxInputs
    /\ input' = input + 1
    /\ phase' = "framing"
    /\ UNCHANGED <<basis, decision>>

Ask ==
    /\ phase = "framing"
    /\ phase' = "asked"
    /\ UNCHANGED <<input, basis, decision>>

\* Empty weights, or weights from an answer to this dilemma's question, which was
\* 0 if it came empty.
Commitments == {NoWeights} \cup [question : {0, input}, answer : Answers]

Commit(w) ==
    /\ phase = "asked"
    /\ basis' = w
    /\ phase' = "deciding"
    /\ UNCHANGED <<input, decision>>

Decide ==
    /\ phase = "deciding"
    /\ decision' = [input |-> input, weights |-> basis]
    /\ phase' = "decided"
    /\ UNCHANGED <<input, basis>>

Next == Frame \/ Ask \/ (\E w \in Commitments : Commit(w)) \/ Decide

Spec == Init /\ [][Next]_vars

=============================================================================
