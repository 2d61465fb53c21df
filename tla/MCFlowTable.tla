----------------------------- MODULE MCFlowTable -----------------------------
(***************************************************************************)
(* Two slots from the start, and flow ids that need up to eight.           *)
(***************************************************************************)
EXTENDS FlowTable

MCWeight == [f \in Flow |-> 1]
MCFloat(x) == x

=============================================================================
