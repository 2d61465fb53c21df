-------------------------------- MODULE Flag --------------------------------
(***************************************************************************)
(* Flag.cc: a one-way flag that threads wait for.  Both operations hold    *)
(* its mutex, except while wait is in scond_wait.                          *)
(***************************************************************************)
EXTENDS Integers

VARIABLES
  value,      \* 0, or 1 once the flag is set
  waiting     \* threads in scond_wait(&cond) nobody has woken yet

flagVars == <<value, waiting>>

FlagInit == value = 0 /\ waiting = {}

\* Mutant: the waiters are not told.
SetQuiet == value' = 1 /\ UNCHANGED waiting

Set ==
  /\ value' = 1
  /\ waiting' = {}

\* The loop of wait, in a thread that holds the mutex: it sleeps ...
WaitSleeps(t) ==
  /\ t \notin waiting
  /\ value = 0
  /\ waiting' = waiting \cup {t}
  /\ UNCHANGED value

\* Mutant: an if in place of the loop, with a wait that came back early.
WaitReturnsEarly(t) ==
  /\ t \notin waiting
  /\ UNCHANGED flagVars

\* ... or wait returns.
WaitReturns(t) ==
  /\ t \notin waiting
  /\ value # 0
  /\ UNCHANGED flagVars

\* pthread_cond_wait may return although nobody signalled.
WaitSpurious(t) ==
  /\ t \in waiting
  /\ waiting' = waiting \ {t}
  /\ UNCHANGED value

=============================================================================
