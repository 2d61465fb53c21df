-------------------------------- MODULE Blast --------------------------------
(***************************************************************************)
(* The sender threads: blast() in util.cc writes buffer after buffer on a  *)
(* ScheduledOutputStream, whose write() first waits its turn in the        *)
(* scheduler and then does the IO.  Waiting one's turn is a step of the    *)
(* scheduler modules that extend this one; here are the thread's states,   *)
(* the IO and the loop around it.                                          *)
(***************************************************************************)
EXTENDS Integers

CONSTANTS
  Thread,         \* the blast threads
  BUF_SIZE,       \* bytes per write (2048 in blast)
  BytesToBlast    \* util_bytesToBlast: stop after this many bytes; 0 = never

ASSUME BlastAssumption ==
  /\ BUF_SIZE \in Nat \ {0}
  /\ BytesToBlast \in Nat

VARIABLES
  pc,             \* where each thread is
  asleep,         \* the threads in scond_wait nobody has woken yet
  tot             \* bytes each thread has written (its local tot)

blastVars == <<pc, asleep, tot>>

\* "ready":    about to call waitMyTurn
\* "waitFull": in scond_wait(&queueFull), before its buffer is queued
\* "waitTurn": in scond_wait(&SafeSend)
\* "send":     waitMyTurn returned, the bytes are being written
\* "done":     blast returned
BlastStates == {"ready", "waitFull", "waitTurn", "send", "done"}

BlastInit ==
  /\ pc = [t \in Thread |-> "ready"]
  /\ asleep = {}
  /\ tot = [t \in Thread |-> 0]

\* A thread that has been woken, or never slept, competes for the mutex.
Awake(t) == t \notin asleep

Goto(t, l) == pc' = [pc EXCEPT ![t] = l]

\* Mutants: one sleeper is woken, or none.
WakeOne ==
  \/ asleep = {} /\ UNCHANGED asleep
  \/ \E t \in asleep : asleep' = asleep \ {t}
WakeNone == UNCHANGED asleep

\* scond_broadcast: every sleeping sender will compete for the mutex.
WakeAll == asleep' = {}

\* The write succeeds; the thread stops when it has blasted enough.
SendDone(t) ==
  LET sum == tot[t] + BUF_SIZE IN
  /\ pc[t] = "send"
  /\ tot' = [tot EXCEPT ![t] = sum]
  /\ Goto(t, IF BytesToBlast # 0 /\ sum >= BytesToBlast THEN "done" ELSE "ready")
  /\ UNCHANGED asleep

\* The write fails (got <= 0) and blast returns.
SendFails(t) ==
  /\ pc[t] = "send"
  /\ Goto(t, "done")
  /\ UNCHANGED <<asleep, tot>>

\* pthread_cond_wait may return although nobody signalled.
SpuriousWakeup(t) ==
  /\ t \in asleep
  /\ asleep' = asleep \ {t}
  /\ UNCHANGED <<pc, tot>>

=============================================================================
