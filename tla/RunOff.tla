------------------------------- MODULE RunOff -------------------------------
(***************************************************************************)
(* calRunOff, the arithmetic by which both schedulers turn the bytes of    *)
(* the last send into a deadline in whole milliseconds.  The part of a     *)
(* millisecond that is left over is kept in the int member runOff, and is  *)
(* paid with whole milliseconds (1 in MaxNWScheduler, 2 in STFQNWScheduler *)
(* - the parameter carryMs) once it is worth one.                          *)
(*                                                                         *)
(* The unit is one byte times MsPerSec: a millisecond is worth "max" of    *)
(* these units, and a buffer of len bytes costs MsPerSec*len of them.      *)
(***************************************************************************)
EXTENDS Integers

CONSTANT INT_MAX            \* largest int; 2^31 - 1 on the lab's machines

ASSUME IntMaxAssumption == INT_MAX \in Nat

\* An int variable after a computation whose result is x: it wraps.
Int32(x) ==
  ((x + INT_MAX + 1) % (2 * (INT_MAX + 1))) - (INT_MAX + 1)

\* The while loop takes whole milliseconds out of tran; it is not entered
\* when tran < max (in particular not for the -1 the STFQ scheduler starts with).
WholeMs(tran, max) == IF tran >= max THEN tran \div max ELSE 0

\* Mutant: the bytes of an unfinished millisecond are dropped.
RestDropped(tran, max) == 0

Rest(tran, max) == IF tran >= max THEN tran % max ELSE tran

\* Mutant: the carried millisecond is not taken out of runOff.
CalRunOffNotPaid(tran, max, time, runOff, carryMs) ==
  LET sum == Int32(runOff + Rest(tran, max))
  IN  [time   |-> time + WholeMs(tran, max) + (IF sum >= max THEN carryMs ELSE 0),
       runOff |-> sum]

\* The new deadline and the new value of the member runOff.
CalRunOff(tran, max, time, runOff, carryMs) ==
  LET sum == Int32(runOff + Rest(tran, max))
      due == sum >= max
  IN  [time   |-> time + WholeMs(tran, max) + (IF due THEN carryMs ELSE 0),
       runOff |-> IF due THEN sum - max ELSE sum]

=============================================================================
