--------------------------- MODULE MaxNWScheduler ---------------------------
(***************************************************************************)
(* MaxNWScheduler.cc: senders share one outgoing link of maxBytes per      *)
(* second.  A sender may go when BytesToSend is 0 and leaves in it what    *)
(* its buffer costs; the alarm thread turns that debt into a deadline,     *)
(* clears it and wakes every waiting sender.  All of it happens under one  *)
(* mutex, so an action is what a thread does between taking the mutex and  *)
(* giving it up (at smutex_unlock or in scond_wait).                       *)
(***************************************************************************)
EXTENDS Alarm, Blast, RunOff

CONSTANTS
  MsPerSec,   \* 1000 in the code
  maxBytes    \* the bandwidth, bytes per second

\* The constructor's assertion, waitMyTurn's assertion on lenToSend, and the
\* ints wide enough for 1000 * lenToSend and for runOff.
ASSUME MaxAssumption ==
  /\ MsPerSec \in Nat \ {0}
  /\ maxBytes \in Nat \ {0}
  /\ BUF_SIZE <= maxBytes
  /\ MsPerSec * BUF_SIZE <= INT_MAX
  /\ 2 * maxBytes - 2 <= INT_MAX

VARIABLES
  BytesToSend,  \* MsPerSec times the bytes granted and not yet paid for
  runOff,       \* the part of a millisecond not yet in the deadline
  granted,      \* history: bytes granted by waitMyTurn so far
  epoch         \* history: the first deadline (0 before), the accounts' origin

schedVars == <<BytesToSend, runOff, granted, epoch>>
vars == <<alarmVars, blastVars, schedVars>>

Cost == MsPerSec * BUF_SIZE

Init ==
  /\ AlarmInit
  /\ BlastInit
  /\ BytesToSend = 0
  /\ runOff = 0
  /\ granted = 0
  /\ epoch = 0

-----------------------------------------------------------------------------

\* Mutant: nobody ever waits.
canSafelySendAlways == TRUE

canSafelySend == BytesToSend = 0

\* Thread t holds the mutex in waitMyTurn: it just called it, or scond_wait
\* returned.
InWaitMyTurn(t) == pc[t] \in {"ready", "waitTurn"} /\ Awake(t)

\* waitMyTurn returns: the loop's condition is false.
Proceed(t) ==
  /\ InWaitMyTurn(t)
  /\ canSafelySend
  /\ BytesToSend' = Int32(MsPerSec * BUF_SIZE)
  /\ granted' = granted + BUF_SIZE
  /\ Goto(t, "send")
  /\ UNCHANGED <<alarmVars, asleep, tot, runOff, epoch>>

\* scond_wait(&SafeSend, &Lock)
Wait(t) ==
  /\ InWaitMyTurn(t)
  /\ ~canSafelySend
  /\ Goto(t, "waitTurn")
  /\ asleep' = asleep \cup {t}
  /\ UNCHANGED <<alarmVars, tot, schedVars>>

\* The alarm thread's call.
SignalNextDeadline ==
  /\ alarm = "signal"
  /\ alarm' = "sleep"
  /\ epoch' = IF deadline = 0 THEN NextDL ELSE epoch
  /\ \/ /\ BytesToSend > 0
        /\ LET r == CalRunOff(BytesToSend, maxBytes, NextDL, runOff, 1) IN
             /\ deadline' = r.time
             /\ runOff' = r.runOff
        /\ WakeAll                           \* scond_broadcast(&SafeSend)
        /\ BytesToSend' = 0
     \/ /\ BytesToSend <= 0
        /\ deadline' = NextDL
        /\ UNCHANGED <<asleep, runOff, BytesToSend>>
  /\ UNCHANGED <<now, pc, tot, granted>>

-----------------------------------------------------------------------------

\* The steps of blast and of the alarm loop outside the scheduler.
Write(t)      == SendDone(t) /\ UNCHANGED <<alarmVars, schedVars>>
WriteError(t) == SendFails(t) /\ UNCHANGED <<alarmVars, schedVars>>
Spurious(t)   == SpuriousWakeup(t) /\ UNCHANGED <<alarmVars, schedVars>>
Sleep         == AlarmSleep /\ UNCHANGED <<blastVars, schedVars>>
Clock         == Tick /\ UNCHANGED <<blastVars, schedVars>>

Sender(t)   == Proceed(t) \/ Wait(t) \/ Write(t)
AlarmThread == SignalNextDeadline \/ Sleep

Work == AlarmThread \/ \E t \in Thread : Sender(t) \/ WriteError(t) \/ Spurious(t)

Next == Clock \/ Work

\* No fairness: the safety properties hold however the threads are scheduled.
Spec == Init /\ [][Next]_vars

\* Every runnable thread eventually gets the mutex and runs, the clock
\* advances, and a write ends.  Writes need not fail, nor sleepers wake up
\* unless they are woken.
Fairness ==
  /\ WF_vars(Clock)
  /\ WF_vars(AlarmThread)
  /\ \A t \in Thread : WF_vars(Sender(t))

FairSpec == Spec /\ Fairness

-----------------------------------------------------------------------------

TypeOK ==
  /\ now \in Nat /\ now >= BootMS
  /\ deadline \in Nat
  /\ alarm \in {"signal", "sleep"}
  /\ pc \in [Thread -> BlastStates \ {"waitFull"}]
  /\ asleep \in SUBSET Thread
  /\ tot \in [Thread -> Nat]
  /\ BytesToSend \in {0, Cost}
  /\ runOff \in 0 .. (maxBytes - 1)
  /\ granted \in Nat
  /\ epoch \in Nat

\* What the link carries from time a to time b, in bytes times MsPerSec.
Capacity(a, b) == (b - a) * maxBytes

\* Bytes that have been turned into deadlines, times MsPerSec.
Charged == MsPerSec * granted - BytesToSend

\* Every byte granted is either still in BytesToSend or has moved the deadline
\* by exactly its cost, to the fraction kept in runOff: calRunOff and the
\* hand-over through BytesToSend lose no byte and charge none twice.
Accounting ==
  IF deadline = 0
  THEN epoch = 0 /\ Charged = 0 /\ runOff = 0
  ELSE /\ epoch > BootMS
       /\ Charged = Capacity(epoch, deadline) + runOff

\* The alarm thread calls the scheduler only when the last deadline has
\* passed, so what has been charged is at most one buffer ahead of the clock.
ChargedInTime ==
  /\ alarm = "signal" => deadline <= now
  /\ Charged <= Capacity(BootMS, now) + Cost

\* The rate the class is named for, over the whole run: the bytes granted
\* never exceed maxBytes per second by more than two buffers.
LongRunRate ==
  MsPerSec * granted <= Capacity(BootMS, now) + 2 * Cost

\* A sender sleeps un-woken on SafeSend only while there is a debt, which is
\* what makes the alarm thread broadcast: no wakeup is ever lost.
NoLostWakeup ==
  \A t \in asleep : pc[t] = "waitTurn" /\ BytesToSend > 0

\* Under the scheduling above, every blast of a finite number of bytes ends:
\* no sender waits for its turn forever.
AllBlastersFinish == <>[](\A t \in Thread : pc[t] = "done")

\* The scheduler implements a token bucket that starts with two buffers' worth
\* of tokens: a step of the clock is a Gain, a return of waitMyTurn a Grant.
Bucket == INSTANCE TokenBucket
            WITH Burst  <- 2 * Cost,
                 tokens <- Capacity(BootMS, now) + 2 * Cost - MsPerSec * granted
ImplementsTokenBucket == Bucket!TokenSpec

=============================================================================
