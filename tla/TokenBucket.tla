----------------------------- MODULE TokenBucket -----------------------------
(***************************************************************************)
(* What a rate-limiting NWScheduler promises its callers, whatever its     *)
(* insides: a bucket that gains maxBytes per second, starts with a fixed   *)
(* burst, and pays for every buffer a caller of waitMyTurn is allowed to   *)
(* send.  The bucket has no brim: neither scheduler discards the credit of *)
(* an idle link.  Tokens are bytes times MsPerSec.                         *)
(***************************************************************************)
EXTENDS Integers

CONSTANTS
  maxBytes,   \* tokens gained per millisecond
  Cost,       \* tokens paid per buffer
  Burst       \* tokens at the start

VARIABLE tokens

TokenInit == tokens = Burst

\* A millisecond passes.
Gain == tokens' = tokens + maxBytes

\* waitMyTurn returns to a caller.
Grant ==
  /\ tokens >= Cost
  /\ tokens' = tokens - Cost

TokenSpec == TokenInit /\ [][Gain \/ Grant]_tokens

=============================================================================
