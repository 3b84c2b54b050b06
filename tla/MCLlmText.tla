------------------------------ MODULE MCLlmText ------------------------------
(* An instance of LlmText; TLC needs nothing more. *)
EXTENDS LlmText, TLC

=============================================================================
