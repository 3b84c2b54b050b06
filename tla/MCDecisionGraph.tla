--------------------------- MODULE MCDecisionGraph ---------------------------
(* Values for the constants of DecisionGraph. *)
EXTENDS DecisionGraph

\* Any well-formed reply the parsers accept.
AnyAnalyzer == AnalyzerReply
AnyCritic == CriticReply

=============================================================================
