-------------------------- MODULE MCSenderReceiver --------------------------
(***************************************************************************)
(* The two programs with two flows and the threads that read each.         *)
(***************************************************************************)
EXTENDS SenderReceiver

MCFlows == 0 .. 1
MCReader == MCFlows \X (1 .. 3)

=============================================================================
