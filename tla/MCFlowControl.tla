--------------------------- MODULE MCFlowControl ---------------------------
(* An instance of FlowControl for TLC. *)
EXTENDS FlowControl

\* A decision in every branch.
MCDecisions == [b \in Branches |-> <<"reasoning">>]
============================================================================
