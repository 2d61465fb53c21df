------------------------------- MODULE MCMaxNW -------------------------------
(***************************************************************************)
(* MaxNWScheduler on a small instance: the clock stops MaxIdle ms past the *)
(* last deadline (or past the boot time), so that the state space is       *)
(* finite.                                                                 *)
(***************************************************************************)
EXTENDS MaxNWScheduler, TLC

CONSTANT MaxIdle

ASSUME MaxIdle \in Nat \ {0}

BoundedClock ==
  /\ now < MaxIdle + IF deadline = 0 THEN BootMS ELSE deadline
  /\ Clock

MCNext == BoundedClock \/ Work

MCSpec == /\ Init /\ [][MCNext]_vars
          /\ WF_vars(BoundedClock)
          /\ WF_vars(AlarmThread)
          /\ \A t \in Thread : WF_vars(Sender(t))

=============================================================================
