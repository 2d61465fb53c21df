----------------------------- MODULE ThreadDemo -----------------------------
(***************************************************************************)
(* main.cc, the demonstration of the thread library: main creates threads, *)
(* lets them all go at once (condWaitUntilDone), waits until each has      *)
(* counted itself (bar), destroys the mutex and the conditions and ends.   *)
(*                                                                         *)
(* A critical section is one action; scond_wait ends one and begins the    *)
(* next.  The five seconds thread 3 sleeps are a delay like any other.     *)
(***************************************************************************)
EXTENDS Integers

CONSTANT NTHREADS       \* 10 in the code

ASSUME NTHREADSAssumption == NTHREADS \in Nat \ {0}

Thread == 0 .. (NTHREADS - 1)

VARIABLES
  ready,            \* whether main has let the threads go
  global,           \* threads that have run
  created,          \* threads main has created
  pc,               \* where each thread is: "foo", "wait" or "done"
  main,             \* main: "create", "go", "wait", "destroy" or "ended"
  readyCondition,   \* threads asleep in scond_wait that nobody has woken yet
  countCondition    \* the same: main, or nobody

threadVars == <<pc, global, readyCondition>>
vars == <<ready, created, main, countCondition, threadVars>>

Init ==
  /\ ready = 0
  /\ global = 0
  /\ created = 0
  /\ pc = [t \in Thread |-> "foo"]
  /\ main = "create"
  /\ readyCondition = {}
  /\ countCondition = {}

-----------------------------------------------------------------------------
(* main                                                                    *)

Create ==
  /\ main = "create"
  /\ created' = created + 1
  /\ main' = IF created' = NTHREADS THEN "go" ELSE "create"
  /\ UNCHANGED <<ready, countCondition, threadVars>>

\* Mutant: one of the waiting threads is woken.
WakeOne == IF readyCondition = {} THEN {}
           ELSE readyCondition \ {CHOOSE t \in readyCondition : TRUE}

\* scond_broadcast(&readyCondition).
WakeAll == {}

\* Mutant: main does not look again when it has been woken.
NotAllRunOnce == main = "go"

NotAllRun == global < NTHREADS

\* The rest of a critical section of main: wait, or leave the loop.
WaitOrLeave ==
  IF NotAllRun
  THEN main' = "wait" /\ countCondition' = {"main"}
  ELSE main' = "destroy" /\ UNCHANGED countCondition

\* condWaitUntilDone, to its first wait.
Go ==
  /\ main = "go"
  /\ ready' = 1
  /\ readyCondition' = WakeAll
  /\ WaitOrLeave
  /\ UNCHANGED <<created, pc, global>>

\* scond_wait returns in main.
MainWakes ==
  /\ main = "wait" /\ "main" \notin countCondition
  /\ WaitOrLeave
  /\ UNCHANGED <<ready, created, threadVars>>

\* smutex_destroy, scond_destroy twice, and the end of the program.
Destroy ==
  /\ main = "destroy"
  /\ main' = "ended"
  /\ UNCHANGED <<ready, created, countCondition, threadVars>>

-----------------------------------------------------------------------------
(* The threads.                                                            *)

\* A thread that holds the mutex in bar: for the first time, or because
\* scond_wait returned.
InBar(t) ==
  /\ t < created /\ main # "ended"
  /\ pc[t] # "done" /\ t \notin readyCondition

BarWaits(t) ==
  /\ InBar(t) /\ ready = 0
  /\ pc' = [pc EXCEPT ![t] = "wait"]
  /\ readyCondition' = readyCondition \cup {t}
  /\ UNCHANGED <<ready, created, main, countCondition, global>>

\* global++, scond_signal(&countCondition) and sthread_exit.
BarRuns(t) ==
  /\ InBar(t) /\ ready # 0
  /\ pc' = [pc EXCEPT ![t] = "done"]
  /\ global' = global + 1
  /\ countCondition' = {}
  /\ UNCHANGED <<ready, created, main, readyCondition>>

\* pthread_cond_wait may return although nobody signalled.
Spurious ==
  /\ main # "ended"
  /\ \/ /\ \E t \in readyCondition : readyCondition' = readyCondition \ {t}
        /\ UNCHANGED countCondition
     \/ /\ countCondition # {}
        /\ countCondition' = {}
        /\ UNCHANGED readyCondition
  /\ UNCHANGED <<ready, created, main, pc, global>>

MainThread == Create \/ Go \/ MainWakes \/ Destroy

Next == MainThread \/ (\E t \in Thread : BarWaits(t) \/ BarRuns(t)) \/ Spurious

Spec == Init /\ [][Next]_vars

\* main and the threads run.
Fairness ==
  /\ WF_vars(MainThread)
  /\ \A t \in Thread : WF_vars(BarWaits(t) \/ BarRuns(t))

FairSpec == Spec /\ Fairness

-----------------------------------------------------------------------------

TypeOK ==
  /\ ready \in {0, 1}
  /\ global \in 0 .. NTHREADS
  /\ created \in 0 .. NTHREADS
  /\ pc \in [Thread -> {"foo", "wait", "done"}]
  /\ main \in {"create", "go", "wait", "destroy", "ended"}
  /\ readyCondition \in SUBSET Thread
  /\ countCondition \in SUBSET {"main"}

\* When main destroys the mutex and the conditions, and its args with it, no
\* thread needs them any more: each has been through bar.
DestroyedUnused ==
  main \in {"destroy", "ended"} =>
    readyCondition = {} /\ \A t \in Thread : pc[t] = "done"

\* Nobody waits for a signal that has been and gone: all the threads run, and
\* main ends.
AllRunAndEnd == <>(main = "ended" /\ global = NTHREADS)

=============================================================================
