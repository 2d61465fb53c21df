------------------------------ MODULE FlowTable ------------------------------
(***************************************************************************)
(* The array of flow slots under STFQueue.cc: the constructor makes a base *)
(* node in each slot, resizeArray makes room for larger flow ids, and the  *)
(* destructor walks over the slots.  STFQueue is the same queue seen by    *)
(* programs whose flow ids all have a slot from the start.                 *)
(*                                                                         *)
(* A slot without a base node holds whatever malloc returned, or lies past *)
(* the array: what an operation that reads it does is undefined.  The      *)
(* model notes the slots that are read and goes no further.                *)
(***************************************************************************)
EXTENDS STFQueue

CONSTANT InitialSlots     \* slots the constructor makes (10 in the code)

VARIABLES
  max_ID,       \* slots of t_array
  made,         \* slots that hold a base node
  touched,      \* slots the last operation read
  alive         \* the destructor has not run

tableVars == <<max_ID, made, touched, alive>>

TableInit ==
  /\ QueueInit
  /\ max_ID = InitialSlots
  /\ made = 0 .. (InitialSlots - 1)
  /\ touched = {}
  /\ alive = TRUE

Slots == 0 .. (max_ID - 1)

\* resizeArray(id): half as many slots again, or id and half as many.  The old
\* slots are copied.
resizeArray(id) ==
  LET new_max_ID == (3 * max_ID) \div 2
  IN  max_ID' = IF id > new_max_ID THEN id + (max_ID \div 2) ELSE new_max_ID

\* No operation has read a slot without a base node yet.
Defined == touched \subseteq made

TableEnqueue(flowID, len) ==
  /\ alive /\ Defined
  /\ IF flowID > max_ID THEN resizeArray(flowID) ELSE UNCHANGED max_ID
  /\ touched' = IF queueFull THEN {} ELSE {flowID}
  /\ IF touched' \subseteq made THEN Enqueue(flowID, len) ELSE UNCHANGED queueVars
  /\ UNCHANGED <<made, alive>>

TableDequeue(id) ==
  /\ alive /\ Defined
  /\ touched' = IF size = 0 THEN {} ELSE Slots
  /\ IF touched' \subseteq made THEN Dequeue(id) ELSE UNCHANGED queueVars
  /\ UNCHANGED <<max_ID, made, alive>>

\* The destructor, by deleteNodes.
Destroy ==
  /\ alive /\ Defined
  /\ alive' = FALSE
  /\ touched' = Slots
  /\ nodes' = [f \in Flow |-> <<>>]
  /\ size' = size - Cardinality(Places)
  /\ UNCHANGED <<lastFinish, currentTime, max_ID, made>>

TableNext ==
  \/ \E f \in Flow, len \in 1 .. MaxLen : TableEnqueue(f, len)
  \/ \E id \in Flow \cup {-1} : TableDequeue(id)
  \/ Destroy

TableSpec == TableInit /\ [][TableNext]_<<queueVars, tableVars>>

-----------------------------------------------------------------------------

\* STFQueue.cc line 79, "resize array if needed": after that every slot an
\* operation reads holds a base node, whatever flow ids are used.
SlotReady == touched \subseteq made

=============================================================================
