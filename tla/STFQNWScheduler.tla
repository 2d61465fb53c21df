--------------------------- MODULE STFQNWScheduler ---------------------------
(***************************************************************************)
(* STFQNWScheduler.cc: senders of several weighted flows share one link.   *)
(* A sender queues a ticket for its buffer in the fair queue and waits for *)
(* the alarm thread to name its flow in nextId.  As in MaxNWScheduler all  *)
(* the state is under one mutex, so an action is what a thread does        *)
(* between taking it and giving it up; there are three condition variables *)
(* (safeSend and queueFull for senders, deadline for the alarm thread).    *)
(***************************************************************************)
EXTENDS Alarm, Blast, RunOff, STFQueue

CONSTANTS
  MsPerSec,   \* 1000 in the code
  maxBytes,   \* the bandwidth, bytes per second
  FlowOf      \* the flow of the stream each thread blasts on

\* The constructor's assertion, the flows startSenders numbers from 0, and the
\* ints wide enough for 1000 * lenToSend and for runOff.
ASSUME SchedAssumption ==
  /\ MsPerSec \in Nat \ {0}
  /\ maxBytes \in Nat \ {0}
  /\ FlowOf \in [Thread -> Flow]
  /\ IsFiniteSet(Thread)
  /\ BUF_SIZE = MaxLen
  /\ MsPerSec * BUF_SIZE <= INT_MAX
  /\ 2 * maxBytes - 2 <= INT_MAX

VARIABLES
  bytesToSend,  \* -1 before the alarm thread's first call; then as in MaxNW
  runOff,       \* the part of a millisecond not yet in the deadline
  nextId,       \* the flow that may send next; -1 = any
  granted       \* history: bytes granted by waitMyTurn so far

schedVars == <<bytesToSend, runOff, nextId, granted>>
vars == <<alarmVars, blastVars, queueVars, schedVars>>

Cost == MsPerSec * BUF_SIZE

Init ==
  /\ AlarmInit
  /\ BlastInit
  /\ QueueInit
  /\ bytesToSend = -1
  /\ runOff = 0
  /\ nextId = -1
  /\ granted = 0

-----------------------------------------------------------------------------

canSafelySend == bytesToSend = 0

\* Mutants: the turn is not looked at, or the link is not.
MayGoAnyFlow(t) == canSafelySend
MayGoBusy(t) == FlowOf[t] = nextId \/ nextId = -1

\* The condition that ends the second loop of waitMyTurn.
MayGo(t) == canSafelySend /\ (FlowOf[t] = nextId \/ nextId = -1)

\* t is in waitMyTurn, not past the first loop, and holds the mutex.
Arriving(t) == pc[t] \in {"ready", "waitFull"} /\ Awake(t)
\* t is in the second loop, and holds the mutex.
Returning(t) == pc[t] = "waitTurn" /\ Awake(t)

\* Mutant: the first loop is an if, so a woken sender does not look again.
RoomOnceWoken(t) == ~queueFull \/ pc[t] = "waitFull"

\* The condition that ends the first loop of waitMyTurn.
Room(t) == ~queueFull

\* The first loop: scond_wait(&queueFull, &lock)
WaitFull(t) ==
  /\ Arriving(t)
  /\ ~Room(t)
  /\ Goto(t, "waitFull")
  /\ asleep' = asleep \cup {t}
  /\ UNCHANGED <<alarmVars, tot, queueVars, schedVars>>

\* The second loop: scond_wait(&safeSend, &lock)
WaitTurn(t) ==
  /\ ~MayGo(t)
  /\ Goto(t, "waitTurn")
  /\ asleep' = asleep \cup {t}
  /\ UNCHANGED <<alarmVars, tot, schedVars>>

\* Mutant: the alarm thread is not told.
NoSignal == UNCHANGED alarm

\* scond_signal(&deadline, &lock)
SignalDeadline == alarm' = IF alarm = "wait" THEN "signal" ELSE alarm

\* The rest of waitMyTurn: the turn is taken, and the alarm thread told.
TakeTurn(t) ==
  /\ MayGo(t)
  /\ nextId' = -1
  /\ bytesToSend' = Int32(MsPerSec * BUF_SIZE)
  /\ granted' = granted + BUF_SIZE
  /\ Goto(t, "send")
  /\ SignalDeadline
  /\ UNCHANGED <<now, deadline, asleep, tot, runOff>>

\* A sender queues its ticket, and goes on or waits.
Arrive(t) ==
  /\ Arriving(t)
  /\ Room(t)
  /\ Enqueue(FlowOf[t], BUF_SIZE)
  /\ WaitTurn(t) \/ TakeTurn(t)

\* scond_wait(&safeSend) returned.
Return(t) ==
  /\ Returning(t)
  /\ WaitTurn(t) \/ TakeTurn(t)
  /\ UNCHANGED queueVars

WaitMyTurn(t) == WaitFull(t) \/ Arrive(t) \/ Return(t)

-----------------------------------------------------------------------------

\* signalNextDeadline finds nothing sent: scond_wait(&deadline, &lock).
WaitDeadline ==
  /\ alarm = "signal"
  /\ bytesToSend = 0
  /\ alarm' = "wait"
  /\ deadline' = NextDL
  /\ UNCHANGED <<now, blastVars, queueVars, schedVars>>

\* signalNextDeadline charges the last send and names the next flow.
SignalNextDeadline ==
  /\ alarm = "signal"
  /\ bytesToSend # 0
  /\ LET r == CalRunOff(bytesToSend, maxBytes, NextDL, runOff, 2) IN
       /\ deadline' = r.time
       /\ runOff' = r.runOff
  /\ bytesToSend' = 0
  /\ \E id \in Flow \cup {-1} : Dequeue(id) /\ nextId' = id
  /\ WakeAll                     \* broadcasts on safeSend and on queueFull
  /\ alarm' = "sleep"
  /\ UNCHANGED <<now, pc, tot, granted>>

-----------------------------------------------------------------------------

\* The steps of blast and of the alarm loop outside the scheduler.
Write(t)      == SendDone(t) /\ UNCHANGED <<alarmVars, queueVars, schedVars>>
WriteError(t) == SendFails(t) /\ UNCHANGED <<alarmVars, queueVars, schedVars>>
Spurious(t)   == SpuriousWakeup(t) /\ UNCHANGED <<alarmVars, queueVars, schedVars>>
SpuriousAlarm == AlarmSpurious /\ UNCHANGED <<blastVars, queueVars, schedVars>>
Sleep         == AlarmSleep /\ UNCHANGED <<blastVars, queueVars, schedVars>>
Clock         == Tick /\ UNCHANGED <<blastVars, queueVars, schedVars>>

Sender(t)   == WaitMyTurn(t) \/ Write(t)
AlarmThread == WaitDeadline \/ SignalNextDeadline \/ Sleep

Work ==
  \/ AlarmThread
  \/ SpuriousAlarm
  \/ \E t \in Thread : Sender(t) \/ WriteError(t) \/ Spurious(t)

Next == Clock \/ Work

Spec == Init /\ [][Next]_vars

\* As for MaxNWScheduler: runnable threads run, the clock advances, writes end.
Fairness ==
  /\ WF_vars(Clock)
  /\ WF_vars(AlarmThread)
  /\ \A t \in Thread : WF_vars(Sender(t))

FairSpec == Spec /\ Fairness

-----------------------------------------------------------------------------

TypeOK ==
  /\ now \in Nat /\ now >= BootMS
  /\ deadline \in Nat
  /\ alarm \in AlarmStates
  /\ pc \in [Thread -> BlastStates]
  /\ asleep \in SUBSET Thread
  /\ tot \in [Thread -> Nat]
  /\ QueueTypeOK
  /\ bytesToSend \in {-1, 0, Cost}
  /\ runOff \in -1 .. (maxBytes - 1)
  /\ nextId \in Flow \cup {-1}
  /\ granted \in Nat

\* No thread sleeps un-woken on a condition variable whose condition has come
\* true: a sender whose turn it is, a sender for whose ticket there is room, the
\* alarm thread when bytes have been granted.
NoLostWakeup ==
  /\ \A t \in asleep : \/ pc[t] = "waitTurn" /\ ~MayGo(t)
                       \/ pc[t] = "waitFull" /\ queueFull
  /\ alarm = "wait" => bytesToSend = 0

\* What signalNextDeadline names, seen as a ticket still to be used.
Named(f) == IF nextId = f THEN 1 ELSE 0

Waiters(f) == {t \in Thread : FlowOf[t] = f /\ pc[t] = "waitTurn"}

\* Tickets of flow f over and above its waiting senders.
Surplus(f) == Len(nodes[f]) + Named(f) - Cardinality(Waiters(f))

\* Every sender waiting for its turn has a ticket queued or named for it, and
\* over all the flows there is at most one ticket too many: the one left behind
\* by a sender that found the link idle and went without using its own.
TicketsCoverWaiters ==
  /\ \A f \in Flow : Surplus(f) \in {0, 1}
  /\ \A f, g \in Flow : Surplus(f) = 1 /\ Surplus(g) = 1 => f = g

\* A sender is only let through with nextId = -1 when nobody else waits: the
\* turn of a waiting flow is never taken by a newcomer.
NoOvertaking ==
  canSafelySend /\ nextId = -1 => \A t \in Thread : pc[t] # "waitTurn"

\* What the link carries from time a to time b, in bytes times MsPerSec.
Capacity(a, b) == (b - a) * maxBytes

\* As for MaxNWScheduler, the scheduler implements a token bucket: the bytes
\* granted never exceed maxBytes per second by more than two buffers.
Bucket == INSTANCE TokenBucket
            WITH Burst  <- 2 * Cost,
                 tokens <- Capacity(BootMS, now) + 2 * Cost - MsPerSec * granted
ImplementsTokenBucket == Bucket!TokenSpec

\* Every blast of a finite number of bytes ends.
AllBlastersFinish == <>[](\A t \in Thread : pc[t] = "done")

\* The link is idle and the turn is a flow's none of whose senders can take
\* it: each has finished, or waits for room to queue a ticket.
UntakenTurn ==
  /\ canSafelySend /\ nextId # -1
  /\ \A t \in Thread : FlowOf[t] = nextId => pc[t] \in {"done", "waitFull"}

\* Nothing else keeps a blast from ending: the senders all end unless the
\* scheduler stops for good on such a turn.
OnlyUntakenTurnsStarve == AllBlastersFinish \/ <>[]UntakenTurn

=============================================================================
