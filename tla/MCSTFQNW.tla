------------------------------ MODULE MCSTFQNW ------------------------------
(***************************************************************************)
(* STFQNWScheduler on a small instance.  The clock stops MaxIdle ms past   *)
(* the last deadline (or past the boot time).                              *)
(***************************************************************************)
EXTENDS STFQNWScheduler, TLC

CONSTANTS MaxIdle, t1, t2, t3

ASSUME MaxIdle \in Nat \ {0}

\* The weights startSenders gives the streams: 1.0, 2.0, ...
MCWeight == [f \in Flow |-> f + 1]

\* One sender on flow 0, two on flow 1, as startSenders starts them.
MCThread == {t1, t2, t3}
MCFlowOf == (t1 :> 0) @@ (t2 :> 1) @@ (t3 :> 1)

\* One sender per flow, as startSenders starts them when bytesToBlast > 0.
MCPair == {t1, t2}
MCPairFlowOf == (t1 :> 0) @@ (t2 :> 1)

\* The tags stay below 2^24, where a float holds every integer.
MCFloat(x) == x

BoundedClock ==
  /\ now < MaxIdle + IF deadline = 0 THEN BootMS ELSE deadline
  /\ Clock

MCNext == BoundedClock \/ Work

MCSpec == /\ Init /\ [][MCNext]_vars
          /\ WF_vars(BoundedClock)
          /\ WF_vars(AlarmThread)
          /\ \A t \in Thread : WF_vars(Sender(t))

=============================================================================
