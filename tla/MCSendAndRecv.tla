---------------------------- MODULE MCSendAndRecv ----------------------------
(***************************************************************************)
(* sendAndRecv with two flows and the three threads that read each.        *)
(***************************************************************************)
EXTENDS SendAndRecv

MCFlows == 0 .. 1
MCReader == MCFlows \X (1 .. 3)

=============================================================================
