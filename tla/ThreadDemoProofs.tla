-------------------------- MODULE ThreadDemoProofs --------------------------
(***************************************************************************)
(* main.cc for every number of threads: the types, and that main destroys  *)
(* the mutex and the conditions only when no thread needs them any more.   *)
(***************************************************************************)
EXTENDS ThreadDemo, FiniteSetTheorems, TLAPS

Done == {t \in Thread : pc[t] = "done"}

\* main creates NTHREADS threads; the counter it looks at counts those that have
\* been through bar, and main has seen all of them before it leaves the loop.
CountInv ==
  /\ main = "create" => created < NTHREADS
  /\ global = Cardinality(Done)
  /\ main \in {"destroy", "ended"} => global = NTHREADS
  /\ \A t \in readyCondition : pc[t] = "wait"

Inv == TypeOK /\ CountInv

\* There are finitely many threads, and they are NTHREADS.
LEMMA Threads == IsFiniteSet(Thread) /\ Cardinality(Thread) = NTHREADS
<1>1. NTHREADS \in Nat \ {0} /\ 0 \in Int /\ NTHREADS - 1 \in Int
  BY NTHREADSAssumption
<1>2. /\ IsFiniteSet(0 .. (NTHREADS - 1))
      /\ Cardinality(0 .. (NTHREADS - 1)) =
           IF 0 > NTHREADS - 1 THEN 0 ELSE NTHREADS - 1 - 0 + 1
  BY <1>1, FS_Interval
<1> QED
  BY <1>1, <1>2 DEF Thread

\* The threads that are done are counted, and when they are NTHREADS they are all.
LEMMA DoneIsCounted ==
  /\ IsFiniteSet(Done)
  /\ Cardinality(Done) \in 0 .. NTHREADS
  /\ Cardinality(Done) = NTHREADS => Done = Thread
<1>1. Done \in SUBSET Thread
  BY DEF Done
<1>2. IsFiniteSet(Done) /\ Cardinality(Done) <= NTHREADS
      /\ (NTHREADS = Cardinality(Done) => Thread = Done)
  BY <1>1, Threads, FS_Subset
<1>3. Cardinality(Done) \in Nat
  BY <1>2, FS_CardinalityType
<1> QED
  BY <1>2, <1>3, NTHREADSAssumption

\* At the start nothing is done.
LEMMA InitInv == Init => Inv
<1> SUFFICES ASSUME Init PROVE Inv
  OBVIOUS
<1> USE NTHREADSAssumption
<1>1. TypeOK
  BY DEF Init, TypeOK
<1>2. Done = {}
  BY DEF Init, Done
<1>3. CountInv
  BY <1>2, FS_EmptySet DEF Init, CountInv
<1> QED
  BY <1>1, <1>3 DEF Inv

\* Every step keeps the types and the count.
LEMMA NextInv == Inv /\ [Next]_vars => Inv'
<1> SUFFICES ASSUME Inv, [Next]_vars PROVE Inv'
  OBVIOUS
<1> USE NTHREADSAssumption
<1>a. TypeOK /\ CountInv
  BY DEF Inv
<1>b. ASSUME UNCHANGED <<pc, global>> PROVE Done' = Done
  BY <1>b DEF Done
<1>c. ASSUME WaitOrLeave PROVE main' \in {"destroy", "ended"} => global = NTHREADS
  BY <1>a, <1>c DEF WaitOrLeave, NotAllRun, TypeOK
<1>1. CASE Create
  <2>1. TypeOK'
    BY <1>a, <1>1 DEF Create, TypeOK, CountInv, threadVars
  <2>2. CountInv'
    BY <1>a, <1>b, <1>1 DEF Create, CountInv, TypeOK, threadVars
  <2> QED
    BY <2>1, <2>2 DEF Inv
<1>2. CASE Go
  <2>1. TypeOK'
    BY <1>a, <1>2 DEF Go, WakeAll, WaitOrLeave, TypeOK
  <2>2. CountInv'
    BY <1>a, <1>b, <1>c, <1>2 DEF Go, WakeAll, WaitOrLeave, CountInv
  <2> QED
    BY <2>1, <2>2 DEF Inv
<1>3. CASE MainWakes
  <2>1. TypeOK'
    BY <1>a, <1>3 DEF MainWakes, WaitOrLeave, TypeOK, threadVars
  <2>2. CountInv'
    BY <1>a, <1>b, <1>c, <1>3 DEF MainWakes, WaitOrLeave, CountInv, threadVars
  <2> QED
    BY <2>1, <2>2 DEF Inv
<1>4. CASE Destroy
  <2>1. TypeOK'
    BY <1>a, <1>4 DEF Destroy, TypeOK, threadVars
  <2>2. CountInv'
    BY <1>a, <1>b, <1>4 DEF Destroy, CountInv, threadVars
  <2> QED
    BY <2>1, <2>2 DEF Inv
<1>5. ASSUME NEW t \in Thread, BarWaits(t) PROVE Inv'
  <2>1. TypeOK'
    BY <1>a, <1>5 DEF BarWaits, TypeOK
  <2>2. Done' = Done
    BY <1>a, <1>5 DEF BarWaits, InBar, Done, TypeOK
  <2>3. CountInv'
    BY <1>a, <1>5, <2>2 DEF BarWaits, CountInv, TypeOK
  <2> QED
    BY <2>1, <2>3 DEF Inv
<1>6. ASSUME NEW t \in Thread, BarRuns(t) PROVE Inv'
  <2>1. t \notin Done
    BY <1>6 DEF BarRuns, InBar, Done
  <2>2. Done' = Done \cup {t}
    BY <1>a, <1>6 DEF BarRuns, Done, TypeOK
  <2>3. Cardinality(Done') = Cardinality(Done) + 1
    BY <2>1, <2>2, DoneIsCounted, FS_AddElement
  <2>4. global # NTHREADS
    BY <1>a, <2>1, DoneIsCounted DEF CountInv
  <2>5. global \in 0 .. (NTHREADS - 1) /\ global' = global + 1
    BY <1>a, <1>6, <2>4 DEF TypeOK, BarRuns
  <2>6. TypeOK'
    BY <1>a, <1>6, <2>5 DEF BarRuns, TypeOK
  <2>7. global' = Cardinality(Done)'
    BY <1>a, <2>3, <2>5 DEF CountInv
  <2>8. main' \notin {"destroy", "ended"}
    BY <1>a, <1>6, <2>4 DEF BarRuns, CountInv
  <2>9. \A r \in readyCondition' : pc'[r] = "wait"
    BY <1>a, <1>6 DEF BarRuns, InBar, CountInv, TypeOK
  <2>10. main' = "create" => created' < NTHREADS
    BY <1>a, <1>6 DEF BarRuns, CountInv
  <2> QED
    BY <2>6, <2>7, <2>8, <2>9, <2>10 DEF Inv, CountInv
<1>7. CASE Spurious
  <2>1. TypeOK'
    BY <1>a, <1>7 DEF Spurious, TypeOK
  <2>2. CountInv'
    BY <1>a, <1>b, <1>7 DEF Spurious, CountInv
  <2> QED
    BY <2>1, <2>2 DEF Inv
<1>8. CASE UNCHANGED vars
  <2>1. TypeOK'
    BY <1>a, <1>8 DEF vars, threadVars, TypeOK
  <2>2. CountInv'
    BY <1>a, <1>b, <1>8 DEF vars, threadVars, CountInv
  <2> QED
    BY <2>1, <2>2 DEF Inv
<1> QED
  BY <1>1, <1>2, <1>3, <1>4, <1>5, <1>6, <1>7, <1>8 DEF Next, MainThread

\* The invariant of main.cc.
LEMMA InvHolds == Spec => []Inv
<1> QED
  BY InitInv, NextInv, PTL DEF Spec

\* The variables of main.cc keep their types for every number of threads.
THEOREM TypeCorrect == Spec => []TypeOK
<1>1. Inv => TypeOK
  BY DEF Inv
<1> QED
  BY <1>1, InvHolds, PTL

\* When main destroys the mutex and the conditions, every thread has been
\* through bar and none sleeps on them, for every number of threads.
THEOREM NothingInUse == Spec => []DestroyedUnused
<1>1. Inv => DestroyedUnused
  <2> SUFFICES ASSUME Inv, main \in {"destroy", "ended"}
               PROVE  readyCondition = {} /\ \A t \in Thread : pc[t] = "done"
    BY DEF DestroyedUnused
  <2>1. Done = Thread
    BY DoneIsCounted DEF Inv, CountInv
  <2>2. \A t \in Thread : pc[t] = "done"
    BY <2>1 DEF Done
  <2>3. readyCondition = {}
    BY <2>2 DEF Inv, CountInv, TypeOK
  <2> QED
    BY <2>2, <2>3
<1> QED
  BY <1>1, InvHolds, PTL

=============================================================================
