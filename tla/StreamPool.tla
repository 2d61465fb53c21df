----------------------------- MODULE StreamPool -----------------------------
(***************************************************************************)
(* What the receive pool promises about a connection, whatever its insides:*)
(* it is accepted once, is then in the pool until a worker serves it, goes *)
(* back after each buffer, and leaves for good at its end.  At most        *)
(* nWorkers connections are served at a time.                              *)
(***************************************************************************)
EXTENDS Naturals, FiniteSets

CONSTANTS Conn, nWorkers

VARIABLE life     \* life[c]: where connection c is

PoolInit == life = [c \in Conn |-> "new"]

Moves(c, from, to) ==
  /\ life[c] = from
  /\ life' = [life EXCEPT ![c] = to]

Accepted(c) == Moves(c, "new", "pooled")

Served(c) ==
  /\ Cardinality({d \in Conn : life[d] = "served"}) < nWorkers
  /\ Moves(c, "pooled", "served")

Returned(c) == Moves(c, "served", "pooled")

Ended(c) == Moves(c, "served", "ended")

PoolNext == \E c \in Conn : Accepted(c) \/ Served(c) \/ Returned(c) \/ Ended(c)

PoolSpec == PoolInit /\ [][PoolNext]_life

=============================================================================
