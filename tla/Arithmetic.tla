----------------------------- MODULE Arithmetic -----------------------------
(***************************************************************************)
(* Facts about numbers that the proofs share.  What calRunOff does to the  *)
(* deadline and to runOff, for every bandwidth and every buffer whose      *)
(* arithmetic fits an int; and how a sum over threads changes when the     *)
(* number of one thread does.  The library defines the sum by recursion on *)
(* the set; the lemmas hold whatever the order it takes the elements in.   *)
(***************************************************************************)
EXTENDS RunOff, Functions, FiniteSetTheorems, WellFoundedInduction, TLAPS

\* Integer division, as the while loop of calRunOff carries it out: the whole
\* milliseconds and the rest add up to the bytes.
LEMMA WholeAndRest ==
  ASSUME NEW tran \in Nat, NEW max \in Nat \ {0}
  PROVE  /\ WholeMs(tran, max) \in Nat
         /\ Rest(tran, max) \in 0 .. (max - 1)
         /\ tran = WholeMs(tran, max) * max + Rest(tran, max)
<1>1. /\ tran \div max \in Nat
      /\ tran % max \in 0 .. (max - 1)
      /\ tran = (tran \div max) * max + (tran % max)
  BY SMT
<1>2. CASE tran >= max
  BY <1>1, <1>2 DEF WholeMs, Rest
<1>3. CASE tran < max
  BY <1>3 DEF WholeMs, Rest
<1> QED
  BY <1>2, <1>3

\* A result that fits an int is not changed by being stored in one.
LEMMA FitsInt ==
  ASSUME NEW x \in Int, -INT_MAX - 1 <= x, x <= INT_MAX
  PROVE  Int32(x) = x
<1> DEFINE m == 2 * (INT_MAX + 1)
           y == x + INT_MAX + 1
<1>1. INT_MAX \in Nat
  BY IntMaxAssumption
<1>2. m \in Nat \ {0} /\ y \in Nat /\ y < m
  BY <1>1
<1>3. y % m = y
  <2> HIDE DEF m, y
  <2> QED BY <1>2
<1> QED
  BY <1>1, <1>3 DEF Int32

\* The deadline has moved by the cost of tran bytes, up to the change of runOff,
\* and by extra milliseconds more.
Charges(tran, max, time, runOff, r, extra) ==
  tran + runOff = (r.time - time - extra) * max + r.runOff

\* calRunOff is exact: the deadline moves by the bytes' cost, except for the
\* part of a millisecond that stays in runOff; a carry of more than one
\* millisecond moves it further.
THEOREM CalRunOffExact ==
  ASSUME NEW tran \in Nat, NEW max \in Nat \ {0}, NEW time \in Nat,
         NEW runOff \in -1 .. (max - 1), NEW carryMs \in Nat \ {0},
         2 * max - 2 <= INT_MAX,
         NEW r, r = CalRunOff(tran, max, time, runOff, carryMs)
  PROVE  /\ r.time \in Nat
         /\ r.time >= time
         /\ r.runOff \in -1 .. (max - 1)
         /\ runOff >= 0 => r.runOff >= 0
         /\ \/ Charges(tran, max, time, runOff, r, 0)
            \/ Charges(tran, max, time, runOff, r, carryMs - 1)
<1> DEFINE whole == WholeMs(tran, max)
           rest  == Rest(tran, max)
<1>1. /\ whole \in Nat
      /\ rest \in 0 .. (max - 1)
      /\ tran = whole * max + rest
  BY WholeAndRest
<1>2. INT_MAX \in Nat
  BY IntMaxAssumption
<1>3. Int32(runOff + rest) = runOff + rest
  <2>1. runOff + rest \in Int /\ -INT_MAX - 1 <= runOff + rest /\ runOff + rest <= INT_MAX
    <3> HIDE DEF rest
    <3> QED BY <1>1, <1>2
  <2> QED BY <2>1, FitsInt
<1>4. CASE runOff + rest >= max
  <2>1. r.time = time + whole + carryMs /\ r.runOff = runOff + rest - max
    BY <1>1, <1>3, <1>4 DEF CalRunOff
  <2> HIDE DEF whole, rest
  <2>2. r.time - time - (carryMs - 1) = whole + 1
    BY <1>1, <2>1
  <2>3. (whole + 1) * max = whole * max + max /\ whole * max \in Int
    BY <1>1
  <2>4. r.time \in Nat /\ r.time >= time /\ r.runOff \in 0 .. (max - 1)
    BY <1>1, <1>4, <2>1
  <2>5. Charges(tran, max, time, runOff, r, carryMs - 1)
    BY <1>1, <2>1, <2>2, <2>3 DEF Charges
  <2> QED BY <2>4, <2>5
<1>5. CASE runOff + rest < max
  <2>1. r.time = time + whole /\ r.runOff = runOff + rest
    BY <1>1, <1>3, <1>5 DEF CalRunOff
  <2> HIDE DEF whole, rest
  <2>2. r.time - time - 0 = whole
    BY <1>1, <2>1
  <2>3. r.time \in Nat /\ r.time >= time /\ r.runOff \in -1 .. (max - 1)
    BY <1>1, <1>5, <2>1
  <2>4. runOff >= 0 => r.runOff >= 0
    BY <1>1, <2>1
  <2>5. Charges(tran, max, time, runOff, r, 0)
    BY <1>1, <2>1, <2>2 DEF Charges
  <2> QED BY <2>3, <2>4, <2>5
<1> QED
  <2> HIDE DEF rest
  <2> QED BY <1>1, <1>4, <1>5

-----------------------------------------------------------------------------

\* A nonempty set of numbers has a least element.
LEMMA LeastNat ==
  ASSUME NEW T, T \subseteq Nat, T # {}
  PROVE  \E x \in T : \A y \in T : x <= y
<1> DEFINE R == OpToRel(<, Nat)
<1>1. IsWellFoundedOn(R, Nat)
  BY NatLessThanWellFounded
<1>2. \A x, y \in Nat : y < x => <<y, x>> \in R
  BY DEF OpToRel
<1> HIDE DEF R
<1>3. PICK x \in T : \A y \in T : ~ (<<y, x>> \in R)
  BY <1>1, WFMin
<1>4. \A y \in T : ~ (y < x)
  BY <1>2, <1>3
<1> QED
  BY <1>4

\* The element the sum takes next, and one turn of its recursion.
Taken(s) == CHOOSE x \in s : TRUE
SumTurn(f, S, g) ==
  [s \in SUBSET S |-> IF s = {} THEN 0 ELSE f[Taken(s)] + g[s \ {Taken(s)}]]

\* The sums over the subsets of S.
SumsIn(f, S) == CHOOSE g : g = SumTurn(f, S, g)

\* The library's sum is one of them.
LEMMA SumIsSums ==
  ASSUME NEW f, NEW S
  PROVE  SumFunctionOnSet(f, S) = SumsIn(f, S)[S]
  BY DEF SumFunctionOnSet, FoldFunctionOnSet, MapThenFoldSet, SumsIn, SumTurn, Taken

\* A nonempty set of subsets of a finite set has a member that is in it while
\* what is left when one element is taken out is not.
LEMMA LeastSubset ==
  ASSUME NEW S, IsFiniteSet(S), NEW B, B \subseteq SUBSET S, B # {}
  PROVE  \E s \in B : IsFiniteSet(s) /\ \A x \in s : s \ {x} \notin B
<1> DEFINE Sizes == {n \in Nat : \E s \in B : Cardinality(s) = n}
<1>1. \A s \in SUBSET S : IsFiniteSet(s) /\ Cardinality(s) \in Nat
  BY FS_Subset, FS_CardinalityType
<1>2. Sizes \subseteq Nat /\ Sizes # {}
  BY <1>1
<1>3. PICK n \in Sizes : \A m \in Sizes : n <= m
  <2> HIDE DEF Sizes
  <2> QED BY <1>2, LeastNat
<1>4. PICK s \in B : Cardinality(s) = n
  BY <1>3
<1>5. ASSUME NEW x \in s PROVE s \ {x} \notin B
  <2>1. IsFiniteSet(s) /\ Cardinality(s) \in Nat /\ Cardinality(s \ {x}) = n - 1
    BY <1>1, <1>4, FS_RemoveElement
  <2>2. ~(n <= n - 1)
    BY <1>4, <2>1
  <2>3. s \ {x} \in SUBSET S /\ Cardinality(s \ {x}) \in Nat
    BY <1>1
  <2> QED BY <1>3, <2>1, <2>2, <2>3
<1> QED
  BY <1>1, <1>4, <1>5

\* The recursion over the subsets of a finite set has a solution.
LEMMA SumsExist ==
  ASSUME NEW f, NEW S, IsFiniteSet(S)
  PROVE  SumsIn(f, S) = SumTurn(f, S, SumsIn(f, S))
<1> DEFINE Upto(n) == {s \in SUBSET S : Cardinality(s) <= n}
           Value(g, s) == IF s = {} THEN 0 ELSE f[Taken(s)] + g[s \ {Taken(s)}]
           Good(n) == \E g : \A s \in Upto(n) : g[s] = Value(g, s)
           Bad == {n \in Nat : ~Good(n)}
<1>1. \A s \in SUBSET S : IsFiniteSet(s) /\ Cardinality(s) \in Nat
  BY FS_Subset, FS_CardinalityType
<1>2. \A s \in SUBSET S : s # {} => /\ Taken(s) \in s
                                    /\ s \ {Taken(s)} \in SUBSET S
                                    /\ Cardinality(s \ {Taken(s)}) = Cardinality(s) - 1
  <2> SUFFICES ASSUME NEW s \in SUBSET S, s # {}
               PROVE  /\ Taken(s) \in s
                      /\ s \ {Taken(s)} \in SUBSET S
                      /\ Cardinality(s \ {Taken(s)}) = Cardinality(s) - 1
    OBVIOUS
  <2>1. Taken(s) \in s
    BY DEF Taken
  <2> QED BY <1>1, <2>1, FS_RemoveElement
<1>3. Bad = {}
  <2> SUFFICES ASSUME Bad # {} PROVE FALSE
    OBVIOUS
  <2>1. PICK n \in Bad : \A m \in Bad : n <= m
    <3>1. Bad \subseteq Nat
      OBVIOUS
    <3> HIDE DEF Bad
    <3> QED BY <3>1, LeastNat
  <2>2. n \in Nat /\ ~Good(n)
    BY <2>1
  <2>3. CASE n = 0
    <3>1. \A s \in Upto(n) : s = {}
      BY <1>1, <2>3, FS_EmptySet
    <3>2. \A s \in Upto(n) : [t \in SUBSET S |-> 0][s] = Value([t \in SUBSET S |-> 0], s)
      BY <3>1
    <3> QED BY <2>2, <3>2
  <2>4. CASE n # 0
    <3>1. Good(n - 1)
      <4>1. n - 1 \in Nat /\ ~(n <= n - 1)
        BY <2>2, <2>4
      <4> HIDE DEF Good
      <4> QED BY <2>1, <4>1
    <3>2. PICK g : \A s \in Upto(n - 1) : g[s] = Value(g, s)
      BY <3>1
    <3> DEFINE h == [s \in Upto(n) |-> Value(g, s)]
    <3>3. ASSUME NEW s \in Upto(n - 1) PROVE h[s] = g[s]
      <4>1. s \in Upto(n)
        BY <1>1, <2>2
      <4> QED BY <3>2, <4>1
    <3>4. ASSUME NEW s \in Upto(n), s # {} PROVE s \ {Taken(s)} \in Upto(n - 1)
      BY <1>1, <1>2, <2>2, <3>4
    <3>5. \A s \in Upto(n) : h[s] = Value(h, s)
      <4> SUFFICES ASSUME NEW s \in Upto(n) PROVE h[s] = Value(h, s)
        OBVIOUS
      <4>1. h[s] = Value(g, s)
        OBVIOUS
      <4>2. s # {} => h[s \ {Taken(s)}] = g[s \ {Taken(s)}]
        <5> HIDE DEF h
        <5> QED BY <3>3, <3>4
      <4> HIDE DEF h
      <4> QED BY <4>1, <4>2
    <3> HIDE DEF h
    <3> QED BY <2>2, <3>5
  <2> QED BY <2>3, <2>4
<1>4. Good(Cardinality(S))
  <2>1. Cardinality(S) \in Nat
    BY FS_CardinalityType
  <2> HIDE DEF Good
  <2> QED BY <1>3, <2>1
<1>5. PICK g : \A s \in Upto(Cardinality(S)) : g[s] = Value(g, s)
  BY <1>4
<1>6. \A s \in SUBSET S : s \in Upto(Cardinality(S))
  BY FS_Subset
<1> DEFINE h == [s \in SUBSET S |-> g[s]]
<1>7. \A s \in SUBSET S : h[s] = Value(h, s)
  <2> SUFFICES ASSUME NEW s \in SUBSET S PROVE h[s] = Value(h, s)
    OBVIOUS
  <2>1. h[s] = Value(g, s)
    BY <1>5, <1>6
  <2>2. s # {} => h[s \ {Taken(s)}] = g[s \ {Taken(s)}]
    BY <1>2
  <2> HIDE DEF h
  <2> QED BY <2>1, <2>2
<1>8. h = SumTurn(f, S, h)
  BY <1>7 DEF SumTurn
<1> QED
  <2> HIDE DEF h
  <2> QED BY <1>8 DEF SumsIn
-----------------------------------------------------------------------------

\* Sums over subsets do not depend on the set they are taken out of, nor on
\* what the function is outside.
LEMMA SumsAgree ==
  ASSUME NEW f, NEW h, NEW S, IsFiniteSet(S), NEW T, T \subseteq S,
         \A x \in T : f[x] = h[x]
  PROVE  SumsIn(f, S)[T] = SumsIn(h, T)[T]
<1> DEFINE G == SumsIn(f, S)
           H == SumsIn(h, T)
           B == {s \in SUBSET T : G[s] # H[s]}
<1>1. IsFiniteSet(T)
  BY FS_Subset
<1>2. \A s \in SUBSET S : G[s] = IF s = {} THEN 0 ELSE f[Taken(s)] + G[s \ {Taken(s)}]
  <2>1. G = SumTurn(f, S, G)
    BY SumsExist
  <2> HIDE DEF G
  <2> QED BY <2>1 DEF SumTurn
<1>3. \A s \in SUBSET T : H[s] = IF s = {} THEN 0 ELSE h[Taken(s)] + H[s \ {Taken(s)}]
  <2>1. H = SumTurn(h, T, H)
    BY <1>1, SumsExist
  <2> HIDE DEF H
  <2> QED BY <2>1 DEF SumTurn
<1> HIDE DEF G, H
<1> SUFFICES ASSUME B # {} PROVE FALSE
  BY DEF G, H
<1>4. PICK s \in B : \A x \in s : s \ {x} \notin B
  <2>1. B \subseteq SUBSET T
    OBVIOUS
  <2> HIDE DEF B
  <2> QED BY <1>1, <2>1, LeastSubset
<1>5. s \in SUBSET T /\ s \in SUBSET S /\ G[s] # H[s]
  BY <1>4
<1>6. s # {}
  BY <1>2, <1>3, <1>5
<1>7. Taken(s) \in s
  BY <1>6 DEF Taken
<1>8. s \ {Taken(s)} \in SUBSET T /\ G[s \ {Taken(s)}] = H[s \ {Taken(s)}]
  BY <1>4, <1>5, <1>7
<1> QED
  BY <1>2, <1>3, <1>5, <1>6, <1>7, <1>8

\* Any element may be taken out first.
LEMMA SumsStep ==
  ASSUME NEW f, NEW S, IsFiniteSet(S), \A x \in S : f[x] \in Int
  PROVE  \A s \in SUBSET S :
           /\ SumsIn(f, S)[s] \in Int
           /\ \A x \in s : SumsIn(f, S)[s] = f[x] + SumsIn(f, S)[s \ {x}]
<1> DEFINE G == SumsIn(f, S)
           A == {s \in SUBSET S : G[s] \notin Int}
           B == {s \in SUBSET S : \E x \in s : G[s] # f[x] + G[s \ {x}]}
<1>1. \A s \in SUBSET S : G[s] = IF s = {} THEN 0 ELSE f[Taken(s)] + G[s \ {Taken(s)}]
  <2>1. G = SumTurn(f, S, G)
    BY SumsExist
  <2> HIDE DEF G
  <2> QED BY <2>1 DEF SumTurn
<1> HIDE DEF G
<1>2. A = {}
  <2> SUFFICES ASSUME A # {} PROVE FALSE
    OBVIOUS
  <2>1. PICK s \in A : \A x \in s : s \ {x} \notin A
    <3>1. A \subseteq SUBSET S
      OBVIOUS
    <3> HIDE DEF A
    <3> QED BY <3>1, LeastSubset
  <2>2. s \in SUBSET S /\ G[s] \notin Int
    BY <2>1
  <2> DEFINE y == Taken(s)
  <2>3. s # {} /\ G[s] = f[y] + G[s \ {y}]
    <3>1. G[s] = IF s = {} THEN 0 ELSE f[y] + G[s \ {y}]
      BY <1>1, <2>2
    <3>2. CASE s = {}
      <4>1. G[s] = 0
        BY <3>1, <3>2
      <4>2. 0 \in Int
        OBVIOUS
      <4> QED BY <2>2, <4>1, <4>2
    <3> QED BY <3>1, <3>2
  <2>4. y \in s
    BY <2>3 DEF Taken
  <2> HIDE DEF y
  <2>5. G[s \ {y}] \in Int /\ f[y] \in Int
    BY <2>1, <2>2, <2>4
  <2>6. f[y] + G[s \ {y}] \in Int
    BY <2>5
  <2> QED BY <2>2, <2>3, <2>6
<1>3. B = {}
  <2> SUFFICES ASSUME B # {} PROVE FALSE
    OBVIOUS
  <2>1. PICK s \in B : \A x \in s : s \ {x} \notin B
    <3>1. B \subseteq SUBSET S
      OBVIOUS
    <3> HIDE DEF B
    <3> QED BY <3>1, LeastSubset
  <2>2. PICK x \in s : G[s] # f[x] + G[s \ {x}]
    BY <2>1
  <2> DEFINE y == Taken(s)
  <2>3. s \in SUBSET S /\ y \in s
    BY <2>1, <2>2 DEF Taken
  <2>4. G[s] = f[y] + G[s \ {y}]
    BY <1>1, <2>3
  <2> HIDE DEF y
  <2>5. x \in s \ {y} /\ y \in s \ {x}
    BY <2>2, <2>3, <2>4
  <2>6. \A z \in s : s \ {z} \in SUBSET S /\ \A t \in s \ {z} : G[s \ {z}] = f[t] + G[(s \ {z}) \ {t}]
    BY <2>1, <2>3
  <2>7. G[s \ {y}] = f[x] + G[(s \ {y}) \ {x}] /\ G[s \ {x}] = f[y] + G[(s \ {x}) \ {y}]
    BY <2>3, <2>5, <2>6
  <2>8. (s \ {y}) \ {x} = (s \ {x}) \ {y} /\ (s \ {x}) \ {y} \in SUBSET S
    BY <2>3
  <2>9. f[x] \in Int /\ f[y] \in Int /\ G[(s \ {x}) \ {y}] \in Int
    BY <1>2, <2>3, <2>8
  <2> DEFINE rest == G[(s \ {x}) \ {y}]
  <2>10. /\ G[s] = f[y] + G[s \ {y}] /\ G[s \ {y}] = f[x] + rest
         /\ G[s \ {x}] = f[y] + rest /\ f[x] \in Int /\ f[y] \in Int /\ rest \in Int
    BY <2>4, <2>7, <2>8, <2>9
  <2> HIDE DEF rest
  <2>11. f[y] + (f[x] + rest) = f[x] + (f[y] + rest)
    BY <2>10
  <2> QED BY <2>2, <2>10, <2>11
<1> QED
  BY <1>2, <1>3 DEF G

-----------------------------------------------------------------------------

\* The empty sum.
LEMMA SumOfNone ==
  ASSUME NEW f PROVE SumFunctionOnSet(f, {}) = 0
<1>1. SumsIn(f, {}) = SumTurn(f, {}, SumsIn(f, {}))
  BY FS_EmptySet, SumsExist
<1>2. SumTurn(f, {}, SumsIn(f, {}))[{}] = 0
  BY DEF SumTurn
<1> QED
  BY <1>1, <1>2, SumIsSums

\* A sum is a number, and any summand can be taken out of it.
LEMMA SumStep ==
  ASSUME NEW f, NEW S, IsFiniteSet(S), \A x \in S : f[x] \in Int
  PROVE  /\ SumFunctionOnSet(f, S) \in Int
         /\ \A x \in S : SumFunctionOnSet(f, S) = f[x] + SumFunctionOnSet(f, S \ {x})
<1>1. /\ SumsIn(f, S)[S] \in Int
      /\ \A x \in S : SumsIn(f, S)[S] = f[x] + SumsIn(f, S)[S \ {x}]
  <2>1. S \in SUBSET S
    OBVIOUS
  <2>2. \A s \in SUBSET S :
           /\ SumsIn(f, S)[s] \in Int
           /\ \A x \in s : SumsIn(f, S)[s] = f[x] + SumsIn(f, S)[s \ {x}]
    BY SumsStep
  <2> QED BY <2>1, <2>2
<1>2. \A x \in S : SumsIn(f, S)[S \ {x}] = SumsIn(f, S \ {x})[S \ {x}]
  BY SumsAgree
<1> QED
  BY <1>1, <1>2, SumIsSums

\* Functions that agree on a set have the same sum over it.
LEMMA SumSame ==
  ASSUME NEW f, NEW h, NEW S, IsFiniteSet(S), \A x \in S : f[x] = h[x]
  PROVE  SumFunctionOnSet(f, S) = SumFunctionOnSet(h, S)
<1>1. SumsIn(f, S)[S] = SumsIn(h, S)[S]
  BY SumsAgree
<1> QED
  BY <1>1, SumIsSums

\* When one summand changes the sum changes by as much.
LEMMA SumChange ==
  ASSUME NEW f, NEW h, NEW S, IsFiniteSet(S), NEW x \in S,
         \A y \in S : f[y] \in Int /\ h[y] \in Int,
         \A y \in S \ {x} : f[y] = h[y]
  PROVE  /\ SumFunctionOnSet(f, S) \in Int /\ SumFunctionOnSet(h, S) \in Int
         /\ SumFunctionOnSet(h, S) = SumFunctionOnSet(f, S) + h[x] - f[x]
<1>1. /\ SumFunctionOnSet(f, S) \in Int
      /\ SumFunctionOnSet(f, S) = f[x] + SumFunctionOnSet(f, S \ {x})
  BY SumStep
<1>2. /\ SumFunctionOnSet(h, S) \in Int
      /\ SumFunctionOnSet(h, S) = h[x] + SumFunctionOnSet(h, S \ {x})
  BY SumStep
<1>3. /\ IsFiniteSet(S \ {x}) /\ \A y \in S \ {x} : f[y] \in Int
      /\ SumFunctionOnSet(f, S \ {x}) = SumFunctionOnSet(h, S \ {x})
  BY FS_RemoveElement, SumSame
<1>4. SumFunctionOnSet(f, S \ {x}) \in Int
  BY <1>3, SumStep
<1>5. f[x] \in Int /\ h[x] \in Int
  OBVIOUS
<1> QED
  BY <1>1, <1>2, <1>3, <1>4, <1>5

\* A sum of zeros.
LEMMA SumOfZeros ==
  ASSUME NEW f, NEW S, IsFiniteSet(S), \A x \in S : f[x] = 0
  PROVE  SumFunctionOnSet(f, S) = 0
<1> DEFINE B == {s \in SUBSET S : SumFunctionOnSet(f, s) # 0}
<1> SUFFICES ASSUME B # {} PROVE FALSE
  OBVIOUS
<1>1. PICK s \in B : IsFiniteSet(s) /\ \A x \in s : s \ {x} \notin B
  <2>1. B \subseteq SUBSET S
    OBVIOUS
  <2> HIDE DEF B
  <2> QED BY <2>1, LeastSubset
<1>2. s \in SUBSET S /\ SumFunctionOnSet(f, s) # 0
  BY <1>1
<1>3. PICK x \in s : TRUE
  BY <1>2, SumOfNone
<1>4. s \ {x} \in SUBSET S /\ SumFunctionOnSet(f, s \ {x}) = 0
  BY <1>1, <1>2
<1>5. SumFunctionOnSet(f, s) = f[x] + SumFunctionOnSet(f, s \ {x})
  BY <1>1, <1>2, SumStep
<1> QED
  BY <1>2, <1>4, <1>5

\* When one summand may have changed: the sum of a set with it changes by as
\* much, and that of a set without it does not.
LEMMA OneSummand ==
  ASSUME NEW F, NEW G, NEW P, IsFiniteSet(P), NEW x,
         \A y \in P : F[y] \in Int /\ G[y] \in Int,
         \A y \in P \ {x} : G[y] = F[y]
  PROVE  /\ SumFunctionOnSet(F, P) \in Int /\ SumFunctionOnSet(G, P) \in Int
         /\ x \in P => SumFunctionOnSet(G, P) = SumFunctionOnSet(F, P) + G[x] - F[x]
         /\ x \notin P => SumFunctionOnSet(G, P) = SumFunctionOnSet(F, P)
<1>1. SumFunctionOnSet(F, P) \in Int /\ SumFunctionOnSet(G, P) \in Int
  BY SumStep
<1>2. CASE x \in P
  <2>1. \A y \in P \ {x} : F[y] = G[y]
    OBVIOUS
  <2>2. SumFunctionOnSet(G, P) = SumFunctionOnSet(F, P) + G[x] - F[x]
    BY <1>2, <2>1, SumChange
  <2> QED BY <1>1, <1>2, <2>2
<1>3. CASE x \notin P
  <2>1. \A y \in P : G[y] = F[y]
    BY <1>3
  <2>2. SumFunctionOnSet(G, P) = SumFunctionOnSet(F, P)
    BY <2>1, SumSame
  <2> QED BY <1>1, <1>3, <2>2
<1> QED
  BY <1>2, <1>3

=============================================================================
