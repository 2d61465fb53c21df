-------------------------------- MODULE Stats --------------------------------
(***************************************************************************)
(* Stats.cc: how many bytes each flow has moved since the last line was    *)
(* printed.  Both operations hold the object's mutex from their first line *)
(* to their last, so each is one action.                                   *)
(***************************************************************************)
EXTENDS Integers

CONSTANT MAX_FLOW_ID    \* entries of byte_array (1023 in the code)

ASSUME StatsAssumption == MAX_FLOW_ID \in Nat \ {0}

VARIABLES
  byte_array,   \* bytes counted and not yet printed, per flow
  max_id        \* the largest flow id seen; 0 when none was

statsVars == <<byte_array, max_id>>

FlowId == 0 .. (MAX_FLOW_ID - 1)

StatsInit ==
  /\ byte_array = [f \in FlowId |-> 0]
  /\ max_id = 0

\* Mutant: max_id keeps the id of the last caller.
UpdateLastId(flowId, byteCount) ==
  /\ max_id' = flowId
  /\ byte_array' = [byte_array EXCEPT ![flowId] = @ + byteCount]

Update(flowId, byteCount) ==
  /\ max_id' = IF flowId > max_id THEN flowId ELSE max_id
  /\ byte_array' = [byte_array EXCEPT ![flowId] = @ + byteCount]

\* What toString prints: a number for each flow up to max_id.  Their sum, which
\* closes the line, and the layout in the caller's buffer are left out.
Line == [f \in FlowId |-> IF f <= max_id THEN byte_array[f] ELSE 0]

ToString ==
  /\ byte_array' = [f \in FlowId |-> byte_array[f] - Line[f]]
  /\ UNCHANGED max_id

=============================================================================
