-------------------------------- MODULE Alarm --------------------------------
(***************************************************************************)
(* The clock (nowMS in util.cc) and the alarm thread (AlarmThread.cc): an  *)
(* endless loop that calls the scheduler's signalNextDeadline and sleeps   *)
(* until the deadline the call returned.  What signalNextDeadline does is  *)
(* the scheduler's business, in the modules that extend this one.          *)
(***************************************************************************)
EXTENDS Integers

CONSTANT BootMS             \* nowMS() when the program starts

ASSUME BootAssumption == BootMS \in Nat \ {0}

VARIABLES
  now,        \* milliseconds, as gettimeofday reports them; never goes back
  deadline,   \* the alarm thread's local: the last deadline it was given
  alarm       \* where the alarm thread is

alarmVars == <<now, deadline, alarm>>

\* "signal": about to take the mutex in signalNextDeadline, at its start or
\*           when scond_wait there returns (deadline then holds its nextDL);
\* "wait":   in scond_wait there, and nobody has signalled yet;
\* "sleep":  the call returned; the thread reads the clock and sleeps.
AlarmStates == {"signal", "wait", "sleep"}

AlarmInit ==
  /\ now = BootMS
  /\ deadline = 0
  /\ alarm = "signal"

\* Inside signalNextDeadline: on the first call (prevDeadline = 0) the next
\* deadline starts from the clock, afterwards from the previous deadline.
NextDL == IF deadline = 0 THEN now + 1 ELSE deadline

\* Time passes.
Tick ==
  /\ now' = now + 1
  /\ UNCHANGED <<deadline, alarm>>

\* Mutant: the thread does not sleep.
AlarmSleepNever ==
  /\ alarm = "sleep"
  /\ alarm' = "signal"
  /\ UNCHANGED <<now, deadline>>

\* The thread sleeps until the deadline, if that lies ahead, and starts the
\* next iteration.  The assertion now >= deadline is the guard of this step.
AlarmSleep ==
  /\ alarm = "sleep"
  /\ now >= deadline
  /\ alarm' = "signal"
  /\ UNCHANGED <<now, deadline>>

\* pthread_cond_wait in signalNextDeadline may return unsignalled.
AlarmSpurious ==
  /\ alarm = "wait"
  /\ alarm' = "signal"
  /\ UNCHANGED <<now, deadline>>

=============================================================================
