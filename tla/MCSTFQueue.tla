------------------------------ MODULE MCSTFQueue ------------------------------
(***************************************************************************)
(* STFQueue with three flows and floats of two significant bits.           *)
(***************************************************************************)
EXTENDS STFQueue, FiniteSetsExt

\* The weights startSenders gives the streams: 1.0, 2.0, ...
MCWeight == [f \in Flow |-> f + 1]

\* Nearest float with a significand of two bits, ties to the even one.
Ulp(x) == Max({1} \cup {u \in {2^k : k \in 1 .. 8} : 2 * u <= x})
MCFloat(x) ==
  LET u == Ulp(x)
      down == x \div u
      rest == x % u
  IN  IF 2 * rest > u \/ (2 * rest = u /\ down % 2 = 1)
      THEN u * (down + 1) ELSE u * down

=============================================================================
