--------------------------- MODULE MessagesProofs ---------------------------
(***************************************************************************)
(* Proofs about Messages: the list keeps the text of each socket in order  *)
(* and once, with one incomplete message at the end, and what it calls     *)
(* complete ends where a sender's message did, for any sockets, any buffer *)
(* and any number of messages.                                             *)
(***************************************************************************)
EXTENDS Messages, Arithmetic, SequenceTheorems

\* Induction from a up to N, on a set of numbers.
LEMMA Upwards ==
  ASSUME NEW a \in Nat, NEW N \in Nat, NEW G, a \in G,
         \A n \in a .. N : n \in G /\ n < N => n + 1 \in G
  PROVE  \A n \in a .. N : n \in G
<1> SUFFICES ASSUME (a .. N) \ G # {} PROVE FALSE
  OBVIOUS
<1>1. PICK k \in (a .. N) \ G : \A y \in (a .. N) \ G : k <= y
  <2>1. (a .. N) \ G \subseteq Nat
    OBVIOUS
  <2> QED BY <2>1, LeastNat
<1>2. k # a /\ k - 1 \in a .. N /\ ~(k <= k - 1)
  BY <1>1
<1>3. k - 1 \in G /\ k - 1 < N
  BY <1>1, <1>2
<1>4. (k - 1) + 1 \in G /\ (k - 1) + 1 = k
  BY <1>1, <1>2, <1>3
<1> QED
  BY <1>1, <1>4

-----------------------------------------------------------------------------
(* Sequences.                                                              *)

\* A prefix that is one longer.
LEMMA PrefixStep ==
  ASSUME NEW S, NEW l \in Seq(S), NEW n \in 0 .. Len(l), n < Len(l)
  PROVE  /\ SubSeq(l, 1, n) \in Seq(S) /\ Len(SubSeq(l, 1, n)) = n
         /\ l[n + 1] \in S
         /\ SubSeq(l, 1, n + 1) = Append(SubSeq(l, 1, n), l[n + 1])
<1>1. Len(l) \in Nat /\ n + 1 \in 1 .. Len(l) /\ l[n + 1] \in S
  BY LenProperties
<1>2. \A i \in 1 .. (n + 1) : l[i] \in S
  BY <1>1, LenProperties
<1>3. /\ SubSeq(l, 1, n) \in Seq(S)
      /\ Len(SubSeq(l, 1, n)) = n
      /\ \A i \in 1 .. n : SubSeq(l, 1, n)[i] = l[i]
  BY <1>1, <1>2, SubSeqProperties
<1>4. /\ SubSeq(l, 1, n + 1) \in Seq(S)
      /\ Len(SubSeq(l, 1, n + 1)) = n + 1
      /\ \A i \in 1 .. (n + 1) : SubSeq(l, 1, n + 1)[i] = l[i]
  BY <1>1, <1>2, SubSeqProperties
<1>5. /\ Append(SubSeq(l, 1, n), l[n + 1]) \in Seq(S)
      /\ Len(Append(SubSeq(l, 1, n), l[n + 1])) = n + 1
      /\ \A i \in 1 .. n : Append(SubSeq(l, 1, n), l[n + 1])[i] = SubSeq(l, 1, n)[i]
      /\ Append(SubSeq(l, 1, n), l[n + 1])[n + 1] = l[n + 1]
  BY <1>1, <1>3, AppendProperties
<1>6. \A i \in 1 .. (n + 1) : SubSeq(l, 1, n + 1)[i] = Append(SubSeq(l, 1, n), l[n + 1])[i]
  BY <1>1, <1>3, <1>4, <1>5
<1>7. SubSeq(l, 1, n + 1) = Append(SubSeq(l, 1, n), l[n + 1])
  BY <1>4, <1>5, <1>6, SeqEqual
<1> QED BY <1>1, <1>3, <1>7

\* A sequence cut at any place.
LEMMA Cut ==
  ASSUME NEW S, NEW l \in Seq(S), NEW n \in 0 .. Len(l)
  PROVE  /\ SubSeq(l, 1, n) \in Seq(S) /\ Len(SubSeq(l, 1, n)) = n
         /\ \A i \in 1 .. n : SubSeq(l, 1, n)[i] = l[i]
         /\ SubSeq(l, n + 1, Len(l)) \in Seq(S)
         /\ Len(SubSeq(l, n + 1, Len(l))) = Len(l) - n
         /\ \A i \in 1 .. (Len(l) - n) : SubSeq(l, n + 1, Len(l))[i] = l[n + i]
         /\ SubSeq(l, 1, n) \o SubSeq(l, n + 1, Len(l)) = l
<1>1. Len(l) \in Nat /\ n \in Int /\ Len(l) \in Int /\ n + 1 \in Int /\ 1 \in Int
  BY LenProperties
<1>2. \A i \in 1 .. Len(l) : l[i] \in S
  BY LenProperties
<1>3. (\A i \in 1 .. n : l[i] \in S) /\ (\A i \in (n + 1) .. Len(l) : l[i] \in S)
  BY <1>1, <1>2
<1>4. /\ SubSeq(l, 1, n) \in Seq(S)
      /\ Len(SubSeq(l, 1, n)) = n
      /\ \A i \in 1 .. n : SubSeq(l, 1, n)[i] = l[i]
  BY <1>1, <1>3, SubSeqProperties
<1>5. /\ SubSeq(l, n + 1, Len(l)) \in Seq(S)
      /\ Len(SubSeq(l, n + 1, Len(l))) = IF n + 1 <= Len(l) THEN Len(l) - (n + 1) + 1 ELSE 0
      /\ \A i \in 1 .. (Len(l) - (n + 1) + 1) : SubSeq(l, n + 1, Len(l))[i] = l[(n + 1) + i - 1]
  BY <1>1, <1>3, SubSeqProperties
<1>6. /\ Len(SubSeq(l, n + 1, Len(l))) = Len(l) - n
      /\ \A i \in 1 .. (Len(l) - n) : SubSeq(l, n + 1, Len(l))[i] = l[n + i]
  <2>1. Len(l) - (n + 1) + 1 = Len(l) - n
    BY <1>1
  <2>2. ASSUME NEW i \in 1 .. (Len(l) - n)
        PROVE  SubSeq(l, n + 1, Len(l))[i] = l[n + i]
    <3>1. (n + 1) + i - 1 = n + i
      BY <1>1
    <3> QED BY <1>5, <2>1, <3>1
  <2>3. Len(SubSeq(l, n + 1, Len(l))) = Len(l) - n
    <3>1. CASE n + 1 <= Len(l)
      BY <1>5, <2>1, <3>1
    <3>2. CASE ~(n + 1 <= Len(l))
      <4>1. Len(l) - n = 0
        BY <1>1, <3>2
      <4> QED BY <1>5, <3>2, <4>1
    <3> QED BY <3>1, <3>2
  <2> QED BY <2>2, <2>3
<1>7. SubSeq(l, 1, n) \o SubSeq(l, n + 1, Len(l)) = SubSeq(l, 1, Len(l))
  <2>1. 1 \in 1 .. (Len(l) + 1) /\ n \in (1 - 1) .. Len(l) /\ Len(l) \in n .. Len(l)
    BY <1>1
  <2> QED BY <2>1, ConcatAdjacentSubSeq
<1>8. SubSeq(l, 1, Len(l)) = l
  BY SubSeqFull
<1> QED BY <1>4, <1>5, <1>6, <1>7, <1>8

\* The element at a place, and what is before and behind it.
LEMMA CutAround ==
  ASSUME NEW S, NEW l \in Seq(S), NEW i \in 1 .. Len(l)
  PROVE  /\ SubSeq(l, 1, i - 1) \in Seq(S) /\ SubSeq(l, i + 1, Len(l)) \in Seq(S)
         /\ l[i] \in S
         /\ SubSeq(l, 1, i) = Append(SubSeq(l, 1, i - 1), l[i])
         /\ l = Append(SubSeq(l, 1, i - 1), l[i]) \o SubSeq(l, i + 1, Len(l))
<1>1. Len(l) \in Nat /\ i \in 0 .. Len(l) /\ i - 1 \in 0 .. Len(l) /\ i - 1 < Len(l) /\ (i - 1) + 1 = i
  BY LenProperties
<1>2. SubSeq(l, 1, i - 1) \in Seq(S) /\ l[i] \in S /\ SubSeq(l, 1, i) = Append(SubSeq(l, 1, i - 1), l[i])
  BY <1>1, PrefixStep
<1>3. SubSeq(l, i + 1, Len(l)) \in Seq(S) /\ SubSeq(l, 1, i) \o SubSeq(l, i + 1, Len(l)) = l
  BY <1>1, Cut
<1> QED BY <1>2, <1>3

\* Sequences that begin with the same elements.
LEMMA SamePrefix ==
  ASSUME NEW S, NEW a \in Seq(S), NEW b \in Seq(S), NEW n \in Nat, n <= Len(a), n <= Len(b),
         \A k \in 1 .. n : a[k] = b[k]
  PROVE  SubSeq(a, 1, n) = SubSeq(b, 1, n)
<1>1. n \in 0 .. Len(a) /\ n \in 0 .. Len(b)
  BY LenProperties
<1>2. /\ SubSeq(a, 1, n) \in Seq(S) /\ Len(SubSeq(a, 1, n)) = n /\ \A k \in 1 .. n : SubSeq(a, 1, n)[k] = a[k]
      /\ SubSeq(b, 1, n) \in Seq(S) /\ Len(SubSeq(b, 1, n)) = n /\ \A k \in 1 .. n : SubSeq(b, 1, n)[k] = b[k]
  BY <1>1, Cut
<1>3. \A k \in 1 .. n : SubSeq(a, 1, n)[k] = SubSeq(b, 1, n)[k]
  BY <1>2
<1> QED BY <1>2, <1>3, SeqEqual

\* Sequences that end with the same elements.
LEMMA SameSuffix ==
  ASSUME NEW S, NEW a \in Seq(S), NEW b \in Seq(S), NEW n \in 0 .. Len(a), Len(a) = Len(b),
         \A k \in (n + 1) .. Len(a) : a[k] = b[k]
  PROVE  SubSeq(a, n + 1, Len(a)) = SubSeq(b, n + 1, Len(b))
<1> DEFINE x == SubSeq(a, n + 1, Len(a))
           y == SubSeq(b, n + 1, Len(b))
<1>1. /\ x \in Seq(S) /\ Len(x) = Len(a) - n /\ \A k \in 1 .. (Len(a) - n) : x[k] = a[n + k]
      /\ y \in Seq(S) /\ Len(y) = Len(a) - n /\ \A k \in 1 .. (Len(a) - n) : y[k] = b[n + k]
  BY Cut
<1>2. ASSUME NEW k \in 1 .. (Len(a) - n) PROVE a[n + k] = b[n + k]
  <2>1. n + k \in (n + 1) .. Len(a)
    BY LenProperties
  <2> QED BY <2>1
<1> HIDE DEF x, y
<1>3. x = y
  BY <1>1, <1>2, SeqEqual
<1> QED BY <1>3 DEF x, y

\* The prefixes of a sequence that is one longer.
LEMMA AppendPrefix ==
  ASSUME NEW S, NEW l \in Seq(S), NEW m \in S
  PROVE  /\ SubSeq(Append(l, m), 1, Len(l) + 1) = Append(l, m)
         /\ \A k \in 0 .. Len(l) : SubSeq(Append(l, m), 1, k) = SubSeq(l, 1, k)
<1>1. /\ Append(l, m) \in Seq(S) /\ Len(Append(l, m)) = Len(l) + 1
      /\ \A i \in 1 .. Len(l) : Append(l, m)[i] = l[i]
      /\ Len(l) \in Nat
  BY AppendProperties, LenProperties
<1>2. SubSeq(Append(l, m), 1, Len(l) + 1) = Append(l, m)
  BY <1>1, SubSeqFull
<1>3. ASSUME NEW k \in 0 .. Len(l) PROVE SubSeq(Append(l, m), 1, k) = SubSeq(l, 1, k)
  <2>1. /\ SubSeq(l, 1, k) \in Seq(S) /\ Len(SubSeq(l, 1, k)) = k
        /\ \A i \in 1 .. k : SubSeq(l, 1, k)[i] = l[i]
    BY Cut
  <2>2. k \in 0 .. Len(Append(l, m))
    BY <1>1
  <2>3. /\ SubSeq(Append(l, m), 1, k) \in Seq(S) /\ Len(SubSeq(Append(l, m), 1, k)) = k
        /\ \A i \in 1 .. k : SubSeq(Append(l, m), 1, k)[i] = Append(l, m)[i]
    BY <1>1, <2>2, Cut
  <2>4. \A i \in 1 .. k : SubSeq(Append(l, m), 1, k)[i] = SubSeq(l, 1, k)[i]
    BY <1>1, <2>1, <2>3
  <2> QED BY <2>1, <2>3, <2>4, SeqEqual
<1> QED BY <1>2, <1>3

\* Where the elements of two sequences are, one behind the other.
LEMMA Places ==
  ASSUME NEW S, NEW front \in Seq(S), NEW back \in Seq(S)
  PROVE  /\ front \o back \in Seq(S)
         /\ Len(front \o back) = Len(front) + Len(back)
         /\ \A i \in 1 .. Len(front) : (front \o back)[i] = front[i]
         /\ \A i \in 1 .. Len(back) : (front \o back)[Len(front) + i] = back[i]
<1>1. Len(front) \in Nat /\ Len(back) \in Nat
  BY LenProperties
<1>2. /\ front \o back \in Seq(S)
      /\ Len(front \o back) = Len(front) + Len(back)
      /\ \A i \in 1 .. (Len(front) + Len(back)) :
           (front \o back)[i] = IF i <= Len(front) THEN front[i] ELSE back[i - Len(front)]
  BY ConcatProperties
<1>3. ASSUME NEW i \in 1 .. Len(front) PROVE (front \o back)[i] = front[i]
  <2>1. i \in 1 .. (Len(front) + Len(back)) /\ i <= Len(front)
    BY <1>1
  <2> QED BY <1>2, <2>1
<1>4. ASSUME NEW i \in 1 .. Len(back) PROVE (front \o back)[Len(front) + i] = back[i]
  <2> DEFINE k == Len(front) + i
  <2>1. k \in 1 .. (Len(front) + Len(back)) /\ ~(k <= Len(front)) /\ k - Len(front) = i
    BY <1>1
  <2>2. (front \o back)[k] = IF k <= Len(front) THEN front[k] ELSE back[k - Len(front)]
    <3> HIDE DEF k
    <3> QED BY <1>2, <2>1
  <2> HIDE DEF k
  <2>3. (front \o back)[k] = back[i]
    BY <2>1, <2>2
  <2> QED BY <2>3 DEF k
<1> QED BY <1>2, <1>3, <1>4

\* A sequence with the elements of two others in these places.
LEMMA InPlaces ==
  ASSUME NEW S, NEW f \in Seq(S), NEW b \in Seq(S), NEW fb \in Seq(S),
         Len(fb) = Len(f) + Len(b),
         \A i \in 1 .. Len(f) : fb[i] = f[i],
         \A i \in 1 .. Len(b) : fb[Len(f) + i] = b[i]
  PROVE  fb = f \o b
<1>1. Len(f) \in Nat /\ Len(b) \in Nat
  BY LenProperties
<1>2. f \o b \in Seq(S) /\ Len(f \o b) = Len(f) + Len(b)
  BY Places
<1>3. ASSUME NEW i \in 1 .. Len(fb) PROVE fb[i] = (f \o b)[i]
  <2>1. CASE i <= Len(f)
    <3>1. i \in 1 .. Len(f)
      BY <1>1, <2>1
    <3> QED BY <3>1, Places
  <2>2. CASE ~(i <= Len(f))
    <3>1. i - Len(f) \in 1 .. Len(b) /\ Len(f) + (i - Len(f)) = i
      BY <1>1, <2>2
    <3>2. fb[Len(f) + (i - Len(f))] = b[i - Len(f)]
      BY <3>1
    <3>3. (f \o b)[Len(f) + (i - Len(f))] = b[i - Len(f)]
      BY <3>1, Places
    <3> QED BY <3>1, <3>2, <3>3
  <2> QED BY <2>1, <2>2
<1> QED BY <1>2, <1>3, SeqEqual

\* The prefixes of two sequences, one behind the other.
LEMMA ConcatPrefix ==
  ASSUME NEW S, NEW front \in Seq(S), NEW back \in Seq(S)
  PROVE  /\ \A n \in 0 .. Len(front) : SubSeq(front \o back, 1, n) = SubSeq(front, 1, n)
         /\ \A n \in 0 .. Len(back) :
              SubSeq(front \o back, 1, Len(front) + n) = front \o SubSeq(back, 1, n)
<1> DEFINE l == front \o back
<1>1. /\ l \in Seq(S) /\ Len(l) = Len(front) + Len(back)
      /\ \A i \in 1 .. Len(front) : l[i] = front[i]
      /\ \A i \in 1 .. Len(back) : l[Len(front) + i] = back[i]
  BY Places
<1>2. Len(front) \in Nat /\ Len(back) \in Nat
  BY LenProperties
<1> HIDE DEF l
<1>3. ASSUME NEW n \in 0 .. Len(front) PROVE SubSeq(l, 1, n) = SubSeq(front, 1, n)
  <2>1. n \in Nat /\ n <= Len(l) /\ n <= Len(front) /\ \A k \in 1 .. n : l[k] = front[k]
    BY <1>1, <1>2
  <2> QED BY <1>1, <2>1, SamePrefix
<1>4. ASSUME NEW n \in 0 .. Len(back) PROVE SubSeq(l, 1, Len(front) + n) = front \o SubSeq(back, 1, n)
  <2>1. Len(front) + n \in 0 .. Len(l)
    BY <1>1, <1>2
  <2>2. /\ SubSeq(l, 1, Len(front) + n) \in Seq(S)
        /\ Len(SubSeq(l, 1, Len(front) + n)) = Len(front) + n
        /\ \A i \in 1 .. (Len(front) + n) : SubSeq(l, 1, Len(front) + n)[i] = l[i]
    BY <1>1, <2>1, Cut
  <2>3. /\ SubSeq(back, 1, n) \in Seq(S) /\ Len(SubSeq(back, 1, n)) = n
        /\ \A i \in 1 .. n : SubSeq(back, 1, n)[i] = back[i]
    BY Cut
  <2>4. \A i \in 1 .. Len(front) : i \in 1 .. (Len(front) + n)
    BY <1>2
  <2>5. \A i \in 1 .. n : Len(front) + i \in 1 .. (Len(front) + n) /\ i \in 1 .. Len(back)
    BY <1>2
  <2> DEFINE a == SubSeq(l, 1, Len(front) + n)
             b == SubSeq(back, 1, n)
  <2> HIDE DEF a, b
  <2>6. \A i \in 1 .. Len(front) : a[i] = front[i]
    BY <1>1, <2>2, <2>4 DEF a
  <2>7. \A i \in 1 .. Len(b) : a[Len(front) + i] = b[i]
    BY <1>1, <2>2, <2>3, <2>5 DEF a, b
  <2>8. a \in Seq(S) /\ b \in Seq(S) /\ Len(a) = Len(front) + Len(b)
    BY <2>2, <2>3 DEF a, b
  <2>9. a = front \o b
    BY <2>6, <2>7, <2>8, InPlaces, Zenon
  <2> QED BY <2>9 DEF a, b
<1> QED BY <1>3, <1>4 DEF l

-----------------------------------------------------------------------------
(* The concatenation of a sequence of sequences, FlattenSeq of the library. *)

\* T joins the first k of seqs.
Joins(T, seqs, k) ==
  /\ T[1] = seqs[1]
  /\ \A n \in 2 .. k : T[n] = T[n - 1] \o seqs[n]

\* Some function does.
LEMMA JoinsExist ==
  ASSUME NEW B, NEW seqs \in Seq(Seq(B)), seqs # <<>>
  PROVE  \E T \in [1 .. Len(seqs) -> Seq(B)] : Joins(T, seqs, Len(seqs))
<1> DEFINE N == Len(seqs)
           G == {k \in 1 .. N : \E T \in [1 .. k -> Seq(B)] : Joins(T, seqs, k)}
<1>1. N \in Nat /\ 1 \in 1 .. N
  BY EmptySeq
<1>2. \A n \in 1 .. N : seqs[n] \in Seq(B)
  BY LenProperties
<1>3. 1 \in G
  <2> DEFINE T == [n \in 1 .. 1 |-> seqs[1]]
  <2>1. T \in [1 .. 1 -> Seq(B)] /\ T[1] = seqs[1]
    BY <1>1, <1>2
  <2>2. Joins(T, seqs, 1)
    BY <2>1 DEF Joins
  <2> HIDE DEF T
  <2> QED BY <1>1, <2>1, <2>2
<1>4. ASSUME NEW k \in 1 .. N, k \in G, k < N PROVE k + 1 \in G
  <2>1. PICK T \in [1 .. k -> Seq(B)] : Joins(T, seqs, k)
    BY <1>4
  <2> DEFINE U == [n \in 1 .. (k + 1) |-> IF n = k + 1 THEN T[k] \o seqs[k + 1] ELSE T[n]]
  <2>2. T[k] \in Seq(B) /\ k + 1 \in 1 .. N /\ k \in Nat
    BY <1>1, <1>4
  <2>3. T[k] \o seqs[k + 1] \in Seq(B)
    BY <1>2, <2>2, ConcatProperties
  <2>4. U \in [1 .. (k + 1) -> Seq(B)]
    BY <2>3
  <2>5. U[1] = seqs[1]
    <3>1. 1 \in 1 .. (k + 1) /\ 1 # k + 1
      BY <2>2
    <3> QED BY <2>1, <3>1 DEF Joins
  <2>6. ASSUME NEW n \in 2 .. (k + 1) PROVE U[n] = U[n - 1] \o seqs[n]
    <3>1. n - 1 \in 1 .. (k + 1) /\ n - 1 # k + 1 /\ n \in 1 .. (k + 1)
      BY <2>2
    <3>2. U[n - 1] = T[n - 1]
      BY <3>1
    <3>3. CASE n = k + 1
      <4>1. n - 1 = k /\ U[n] = T[k] \o seqs[k + 1]
        BY <2>2, <3>1, <3>3
      <4> HIDE DEF U
      <4> QED BY <3>2, <3>3, <4>1
    <3>4. CASE n # k + 1
      <4>1. n \in 2 .. k /\ U[n] = T[n]
        BY <3>1, <3>4
      <4>2. T[n] = T[n - 1] \o seqs[n]
        BY <2>1, <4>1 DEF Joins
      <4> HIDE DEF U
      <4> QED BY <3>2, <4>1, <4>2
    <3> QED BY <3>3, <3>4
  <2>7. Joins(U, seqs, k + 1)
    BY <2>5, <2>6 DEF Joins
  <2> HIDE DEF U
  <2> QED BY <2>2, <2>4, <2>7
<1>5. N \in G
  <2> HIDE DEF G
  <2>1. \A n \in 1 .. N : n \in G
    BY <1>1, <1>3, <1>4, Upwards
  <2> QED BY <1>1, <2>1
<1> QED BY <1>5

\* FlattenSeq is what such a function reaches.
LEMMA FlattenJoins ==
  ASSUME NEW B, NEW seqs \in Seq(Seq(B)), seqs # <<>>
  PROVE  \E T \in [1 .. Len(seqs) -> Seq(B)] :
           Joins(T, seqs, Len(seqs)) /\ FlattenSeq(seqs) = T[Len(seqs)]
<1> DEFINE N == Len(seqs)
           Body(U) == [n \in 1 .. Len(seqs) |-> IF n = 1 THEN seqs[n] ELSE U[n - 1] \o seqs[n]]
           V == CHOOSE U : U = Body(U)
<1>1. N \in Nat /\ 1 \in 1 .. N
  BY EmptySeq
<1>2. PICK T \in [1 .. N -> Seq(B)] : Joins(T, seqs, N)
  BY JoinsExist
<1>3. T = Body(T)
  <2>1. ASSUME NEW n \in 1 .. N PROVE T[n] = Body(T)[n]
    <3>1. CASE n = 1
      BY <1>2, <3>1 DEF Joins
    <3>2. CASE n # 1
      <4>1. n \in 2 .. N
        BY <1>1, <3>2
      <4>2. T[n] = T[n - 1] \o seqs[n]
        BY <1>2, <4>1 DEF Joins
      <4> QED BY <3>2, <4>2
    <3> QED BY <3>1, <3>2
  <2>2. T = [n \in 1 .. N |-> T[n]] /\ Body(T) = [n \in 1 .. N |-> Body(T)[n]]
    BY <1>2
  <2> HIDE DEF Body
  <2> QED BY <2>1, <2>2
<1>4. V = Body(V)
  BY <1>3
<1>5. FlattenSeq(seqs) = V[N]
  <2>1. Len(seqs) # 0
    BY <1>1
  <2> QED BY <2>1 DEF FlattenSeq
<1> HIDE DEF V
<1>6. ASSUME NEW n \in 1 .. N PROVE V[n] = Body(V)[n]
  BY <1>4
<1> DEFINE G == {n \in 1 .. N : V[n] = T[n]}
<1>7. 1 \in G
  <2>1. V[1] = seqs[1]
    BY <1>1, <1>6
  <2> QED BY <1>1, <1>2, <2>1 DEF Joins
<1>8. ASSUME NEW n \in 1 .. N, n \in G, n < N PROVE n + 1 \in G
  <2>1. n + 1 \in 2 .. N /\ n + 1 \in 1 .. N /\ (n + 1) - 1 = n /\ n + 1 # 1
    BY <1>1, <1>8
  <2>2. V[n + 1] = V[n] \o seqs[n + 1]
    BY <1>6, <2>1
  <2>3. T[n + 1] = T[n] \o seqs[n + 1]
    BY <1>2, <2>1 DEF Joins
  <2> QED BY <1>8, <2>1, <2>2, <2>3
<1>9. V[N] = T[N]
  <2>1. \A n \in 1 .. N : n \in G
    <3> HIDE DEF G
    <3> QED BY <1>1, <1>7, <1>8, Upwards
  <2> QED BY <1>1, <2>1
<1> QED BY <1>2, <1>5, <1>9


\* No sequences join to the empty one.
LEMMA FlattenEmpty == FlattenSeq(<<>>) = <<>>
<1>1. Len(<<>>) = 0
  BY EmptySeq
<1> QED BY <1>1 DEF FlattenSeq

\* Sequences over B join to a sequence over B.
LEMMA FlattenType ==
  ASSUME NEW B, NEW seqs \in Seq(Seq(B))
  PROVE  FlattenSeq(seqs) \in Seq(B)
<1>1. CASE seqs = <<>>
  BY <1>1, FlattenEmpty, EmptySeq
<1>2. CASE seqs # <<>>
  <2>1. PICK T \in [1 .. Len(seqs) -> Seq(B)] : FlattenSeq(seqs) = T[Len(seqs)]
    BY <1>2, FlattenJoins
  <2>2. Len(seqs) \in 1 .. Len(seqs)
    BY <1>2, EmptySeq
  <2> QED BY <2>1, <2>2
<1> QED BY <1>1, <1>2

\* One sequence more.
LEMMA FlattenAppend ==
  ASSUME NEW B, NEW seqs \in Seq(Seq(B)), NEW q \in Seq(B)
  PROVE  FlattenSeq(Append(seqs, q)) = FlattenSeq(seqs) \o q
<1> DEFINE N == Len(seqs)
           more == Append(seqs, q)
<1>1. /\ more \in Seq(Seq(B)) /\ more # <<>>
      /\ Len(more) = N + 1 /\ more[N + 1] = q
      /\ \A n \in 1 .. N : more[n] = seqs[n]
      /\ N \in Nat
  BY AppendProperties, LenProperties
<1> HIDE DEF more
<1>2. PICK U \in [1 .. (N + 1) -> Seq(B)] : Joins(U, more, N + 1) /\ FlattenSeq(more) = U[N + 1]
  BY <1>1, FlattenJoins
<1>3. CASE seqs = <<>>
  <2>1. N = 0 /\ FlattenSeq(seqs) = <<>>
    BY <1>3, EmptySeq, FlattenEmpty
  <2>2. U[1] = q
    BY <1>1, <1>2, <2>1 DEF Joins
  <2>3. <<>> \o q = q
    BY ConcatEmptySeq
  <2> QED BY <1>2, <2>1, <2>2, <2>3 DEF more
<1>4. CASE seqs # <<>>
  <2>1. PICK T \in [1 .. N -> Seq(B)] : Joins(T, seqs, N) /\ FlattenSeq(seqs) = T[N]
    BY <1>4, FlattenJoins
  <2>2. 1 \in 1 .. N /\ N + 1 \in 2 .. (N + 1) /\ (N + 1) - 1 = N
    BY <1>4, EmptySeq
  <2> DEFINE G == {n \in 1 .. N : U[n] = T[n]}
  <2>3. 1 \in G
    BY <1>1, <1>2, <2>1, <2>2 DEF Joins
  <2>4. ASSUME NEW n \in 1 .. N, n \in G, n < N PROVE n + 1 \in G
    <3>1. n + 1 \in 2 .. N /\ n + 1 \in 2 .. (N + 1) /\ n + 1 \in 1 .. N /\ (n + 1) - 1 = n
      BY <1>1, <2>4
    <3>2. U[n + 1] = U[n] \o more[n + 1]
      BY <1>2, <3>1 DEF Joins
    <3>3. T[n + 1] = T[n] \o seqs[n + 1]
      BY <2>1, <3>1 DEF Joins
    <3>4. more[n + 1] = seqs[n + 1]
      BY <1>1, <3>1
    <3> QED BY <2>4, <3>1, <3>2, <3>3, <3>4
  <2>5. U[N] = T[N]
    <3>1. \A n \in 1 .. N : n \in G
      <4> HIDE DEF G
      <4> QED BY <1>1, <2>3, <2>4, Upwards
    <3> QED BY <2>2, <3>1
  <2>6. U[N + 1] = U[N] \o q
    BY <1>1, <1>2, <2>2 DEF Joins
  <2> QED BY <1>2, <2>1, <2>5, <2>6 DEF more
<1> QED BY <1>3, <1>4

\* A sequence behind another takes one element more.
LEMMA ConcatAppend ==
  ASSUME NEW S, NEW front \in Seq(S), NEW back \in Seq(S), NEW e \in S
  PROVE  front \o Append(back, e) = Append(front \o back, e) /\ front \o back \in Seq(S)
<1>1. Append(<<>>, e) = <<e>> /\ Append(<<>>, e) \in Seq(S)
  BY EmptySeq, AppendProperties
<1>2. <<e>> \in Seq(S) /\ front \o back \in Seq(S)
  BY <1>1, ConcatProperties
<1>3. Append(back, e) = back \o <<e>>
  BY AppendIsConcat
<1>4. Append(front \o back, e) = (front \o back) \o <<e>>
  BY <1>2, AppendIsConcat
<1>5. (front \o back) \o <<e>> = front \o (back \o <<e>>)
  BY <1>2, ConcatAssociative, SMT
<1> QED BY <1>2, <1>3, <1>4, <1>5

\* One sequence more behind another sequence of sequences.
LEMMA FlattenMore ==
  ASSUME NEW B, NEW front \in Seq(Seq(B)), NEW up \in Seq(Seq(B)), NEW q \in Seq(B),
         FlattenSeq(front \o up) = FlattenSeq(front) \o FlattenSeq(up)
  PROVE  FlattenSeq(front \o Append(up, q)) = FlattenSeq(front) \o FlattenSeq(Append(up, q))
<1>1. front \o Append(up, q) = Append(front \o up, q) /\ front \o up \in Seq(Seq(B))
  BY ConcatAppend
<1>2. FlattenSeq(Append(front \o up, q)) = FlattenSeq(front \o up) \o q
  BY <1>1, FlattenAppend
<1>3. FlattenSeq(Append(up, q)) = FlattenSeq(up) \o q
  BY FlattenAppend
<1>4. FlattenSeq(front) \in Seq(B) /\ FlattenSeq(up) \in Seq(B)
  BY FlattenType
<1>5. (FlattenSeq(front) \o FlattenSeq(up)) \o q = FlattenSeq(front) \o (FlattenSeq(up) \o q)
  <2>1. \A x, y, z \in Seq(B) : (x \o y) \o z = x \o (y \o z)
    BY ONLY ConcatAssociative, SMT
  <2> QED BY <1>4, <2>1, Zenon
<1> QED BY <1>1, <1>2, <1>3, <1>5, Zenon

\* Two sequences of sequences, one behind the other.
LEMMA FlattenConcat ==
  ASSUME NEW B, NEW front \in Seq(Seq(B)), NEW back \in Seq(Seq(B))
  PROVE  FlattenSeq(front \o back) = FlattenSeq(front) \o FlattenSeq(back)
<1> DEFINE N == Len(back)
           Upto(n) == SubSeq(back, 1, n)
           G == {n \in 0 .. N : FlattenSeq(front \o Upto(n)) = FlattenSeq(front) \o FlattenSeq(Upto(n))}
<1>1. N \in Nat /\ Upto(N) = back
  BY LenProperties, SubSeqFull
<1>2. FlattenSeq(front) \in Seq(B)
  BY FlattenType
<1>3. 0 \in G
  <2>1. Upto(0) = <<>>
    BY SubSeqEmpty
  <2>2. front \o <<>> = front /\ FlattenSeq(front) \o <<>> = FlattenSeq(front)
    BY <1>2, ConcatEmptySeq
  <2>3. FlattenSeq(front \o Upto(0)) = FlattenSeq(front) \o FlattenSeq(Upto(0))
    <3> HIDE DEF Upto
    <3>1. FlattenSeq(Upto(0)) = <<>> /\ front \o Upto(0) = front
      BY <2>1, <2>2, FlattenEmpty
    <3> QED BY <2>2, <3>1
  <2>4. 0 \in 0 .. N
    BY <1>1
  <2> HIDE DEF Upto, N
  <2> QED BY <2>3, <2>4
<1>4. ASSUME NEW n \in 0 .. N, n \in G, n < N PROVE n + 1 \in G
  <2> DEFINE q == back[n + 1]
  <2>1. Upto(n) \in Seq(Seq(B)) /\ q \in Seq(B) /\ Upto(n + 1) = Append(Upto(n), q)
    BY <1>4, PrefixStep
  <2>2. FlattenSeq(front \o Upto(n)) = FlattenSeq(front) \o FlattenSeq(Upto(n))
    BY <1>4
  <2> HIDE DEF Upto, q
  <2>3. FlattenSeq(front \o Upto(n + 1)) = FlattenSeq(front) \o FlattenSeq(Upto(n + 1))
    BY <2>1, <2>2, FlattenMore
  <2>4. n + 1 \in 0 .. N
    BY <1>1, <1>4
  <2> QED BY <2>3, <2>4
<1>5. N \in G
  <2> HIDE DEF G
  <2>1. \A n \in 0 .. N : n \in G
    BY <1>1, <1>3, <1>4, Upwards
  <2> QED BY <1>1, <2>1
<1> QED BY <1>1, <1>5

\* Empty sequences only.
LEMMA FlattenOfEmpty ==
  ASSUME NEW B, NEW seqs \in Seq(Seq(B)), \A n \in 1 .. Len(seqs) : seqs[n] = <<>>
  PROVE  FlattenSeq(seqs) = <<>>
<1>1. CASE seqs = <<>>
  BY <1>1, FlattenEmpty
<1>2. CASE seqs # <<>>
  <2> DEFINE N == Len(seqs)
  <2>1. PICK T \in [1 .. N -> Seq(B)] : Joins(T, seqs, N) /\ FlattenSeq(seqs) = T[N]
    BY <1>2, FlattenJoins
  <2>2. N \in Nat /\ 1 \in 1 .. N
    BY <1>2, EmptySeq
  <2> DEFINE G == {n \in 1 .. N : T[n] = <<>>}
  <2>3. 1 \in G
    BY <2>1, <2>2 DEF Joins
  <2>4. ASSUME NEW n \in 1 .. N, n \in G, n < N PROVE n + 1 \in G
    <3>1. n + 1 \in 2 .. N /\ n + 1 \in 1 .. N /\ (n + 1) - 1 = n
      BY <2>2, <2>4
    <3>2. T[n + 1] = <<>> \o <<>>
      BY <2>1, <2>4, <3>1 DEF Joins
    <3>3. <<>> \o <<>> = <<>>
      BY EmptySeq, ConcatEmptySeq
    <3> QED BY <3>1, <3>2, <3>3
  <2>5. \A n \in 1 .. N : n \in G
    <3> HIDE DEF G
    <3> QED BY <2>2, <2>3, <2>4, Upwards
  <2> QED BY <2>1, <2>2, <2>5
<1> QED BY <1>1, <1>2


-----------------------------------------------------------------------------
(* The text in a list, and the text in a stream.                           *)

\* A byte of a text, and a byte of a stream.
Byte == 1 .. MaxMessages
Octet == 0 .. MaxMessages

\* Three texts, one behind the other.
LEMMA TextsAssociative ==
  \A x, y, z \in Seq(Byte) : (x \o y) \o z = x \o (y \o z)
BY ConcatAssociative, SMT

\* Three pieces of a stream.
LEMMA StreamsAssociative ==
  \A x, y, z \in Seq(Octet) : (x \o y) \o z = x \o (y \o z)
BY ConcatAssociative, SMT

\* The first bytes of a stream.
LEMMA StreamCut ==
  \A b \in Seq(Octet) : \A n \in 0 .. Len(b) :
     /\ SubSeq(b, 1, n) \in Seq(Octet) /\ Len(SubSeq(b, 1, n)) = n
     /\ \A i \in 1 .. n : SubSeq(b, 1, n)[i] = b[i]
BY Cut, SMT

\* The prefixes of two pieces of a stream, those that reach into the second.
LEMMA StreamPrefix ==
  \A f, b \in Seq(Octet) : \A n \in 0 .. Len(b) :
     SubSeq(f \o b, 1, Len(f) + n) = f \o SubSeq(b, 1, n)
BY ConcatPrefix, SMT

\* What the elements of a list add to the text of s.
Parts(list, s) == [i \in 1 .. Len(list) |-> Part(list[i], s)]

\* An element adds a text.
LEMMA PartType ==
  ASSUME NEW m \in Element, NEW s
  PROVE  Part(m, s) \in Seq(Byte)
<1>1. m.message \in Seq(Byte) /\ <<>> \in Seq(Byte)
  BY EmptySeq DEF Element, Byte
<1> QED BY <1>1 DEF Part

\* The elements add texts.
LEMMA PartsType ==
  ASSUME NEW list \in Seq(Element), NEW s
  PROVE  /\ Parts(list, s) \in Seq(Seq(Byte))
         /\ Len(Parts(list, s)) = Len(list)
         /\ \A i \in 1 .. Len(list) : Parts(list, s)[i] = Part(list[i], s)
<1>1. Len(list) \in Nat /\ \A i \in 1 .. Len(list) : list[i] \in Element
  BY LenProperties
<1>2. \A i \in 1 .. Len(list) : Part(list[i], s) \in Seq(Byte)
  BY <1>1, PartType
<1> DEFINE D == Seq(Byte)
<1> HIDE DEF D
<1>3. \A i \in 1 .. Len(list) : Part(list[i], s) \in D
  BY <1>2 DEF D
<1>4. /\ Parts(list, s) \in Seq(D)
      /\ Len(Parts(list, s)) = Len(list)
      /\ \A i \in 1 .. Len(list) : Parts(list, s)[i] = Part(list[i], s)
  BY <1>1, <1>3 DEF Parts
<1> QED BY <1>4 DEF D

\* The text of a list is a text.
LEMMA TextType ==
  ASSUME NEW list \in Seq(Element), NEW s
  PROVE  Text(list, s) \in Seq(Byte) /\ Len(Text(list, s)) \in Nat
<1>1. Text(list, s) = FlattenSeq(Parts(list, s))
  BY DEF Text, Parts
<1>2. Text(list, s) \in Seq(Byte)
  BY <1>1, PartsType, FlattenType
<1> QED BY <1>2, LenProperties

\* An empty list has none.
LEMMA TextEmpty ==
  ASSUME NEW s
  PROVE  Text(<<>>, s) = <<>>
<1>1. <<>> \in Seq(Element) /\ Len(<<>>) = 0
  BY EmptySeq
<1>2. Parts(<<>>, s) \in Seq(Seq(Byte)) /\ Len(Parts(<<>>, s)) = 0
  BY <1>1, PartsType
<1>3. Parts(<<>>, s) = <<>>
  BY <1>2, EmptySeq
<1> QED BY <1>3, FlattenEmpty DEF Text, Parts

\* The text of two lists, one behind the other.
LEMMA TextConcat ==
  ASSUME NEW front \in Seq(Element), NEW back \in Seq(Element), NEW s
  PROVE  Text(front \o back, s) = Text(front, s) \o Text(back, s)
<1> DEFINE f == Parts(front, s)
           b == Parts(back, s)
           fb == Parts(front \o back, s)
           D == Seq(Byte)
<1>1. /\ front \o back \in Seq(Element)
      /\ Len(front \o back) = Len(front) + Len(back)
      /\ \A i \in 1 .. Len(front) : (front \o back)[i] = front[i]
      /\ \A i \in 1 .. Len(back) : (front \o back)[Len(front) + i] = back[i]
  BY Places
<1>2. /\ f \in Seq(D) /\ Len(f) = Len(front) /\ \A i \in 1 .. Len(front) : f[i] = Part(front[i], s)
      /\ b \in Seq(D) /\ Len(b) = Len(back) /\ \A i \in 1 .. Len(back) : b[i] = Part(back[i], s)
  BY PartsType
<1>3. /\ fb \in Seq(D) /\ Len(fb) = Len(front) + Len(back)
      /\ \A i \in 1 .. (Len(front) + Len(back)) : fb[i] = Part((front \o back)[i], s)
  BY <1>1, PartsType
<1>4. Len(front) \in Nat /\ Len(back) \in Nat
  BY LenProperties
<1>5. \A i \in 1 .. Len(front) : i \in 1 .. (Len(front) + Len(back))
  BY <1>4
<1>6. \A i \in 1 .. Len(back) : Len(front) + i \in 1 .. (Len(front) + Len(back))
  BY <1>4
<1> HIDE DEF D, f, b, fb
<1>7. \A i \in 1 .. Len(front) : fb[i] = f[i]
  BY <1>1, <1>2, <1>3, <1>5
<1>8. \A i \in 1 .. Len(back) : fb[Len(front) + i] = b[i]
  BY <1>1, <1>2, <1>3, <1>6
<1>9. fb = f \o b
  <2>1. f \in Seq(D) /\ b \in Seq(D) /\ fb \in Seq(D)
    BY <1>2, <1>3
  <2>2. Len(fb) = Len(f) + Len(b) /\ \A i \in 1 .. Len(f) : fb[i] = f[i]
    BY <1>2, <1>3, <1>7
  <2>3. \A i \in 1 .. Len(b) : fb[Len(f) + i] = b[i]
    BY <1>2, <1>8
  <2> QED BY <2>1, <2>2, <2>3, InPlaces
<1>10. FlattenSeq(f \o b) = FlattenSeq(f) \o FlattenSeq(b)
  BY <1>2, FlattenConcat DEF D
<1> QED BY <1>9, <1>10 DEF Text, Parts, f, b, fb

\* The text of a list of one element.
LEMMA TextOne ==
  ASSUME NEW m \in Element, NEW s
  PROVE  <<m>> \in Seq(Element) /\ Text(<<m>>, s) = Part(m, s)
<1>1. Append(<<>>, m) = <<m>> /\ <<m>> \in Seq(Element) /\ Len(<<m>>) = 1 /\ <<m>>[1] = m
  BY EmptySeq, AppendProperties
<1> DEFINE one == <<m>>
<1> HIDE DEF one
<1>2. one \in Seq(Element) /\ Len(one) = 1 /\ one[1] = m
  BY <1>1 DEF one
<1>3. Parts(one, s) \in Seq(Seq(Byte)) /\ Len(Parts(one, s)) = 1 /\ Parts(one, s)[1] = Part(m, s)
  BY <1>2, PartsType
<1>4. Parts(one, s) # <<>>
  BY <1>3, EmptySeq
<1>5. FlattenSeq(Parts(one, s)) = Part(m, s)
  BY <1>3, <1>4, FlattenJoins DEF Joins
<1> QED BY <1>1, <1>5 DEF Text, Parts, one

\* A new element at the end of a list.
LEMMA TextAppend ==
  ASSUME NEW list \in Seq(Element), NEW m \in Element, NEW s
  PROVE  /\ Append(list, m) \in Seq(Element)
         /\ Text(Append(list, m), s) = Text(list, s) \o Part(m, s)
<1>1. Append(list, m) \in Seq(Element) /\ Append(list, m) = list \o <<m>>
  BY AppendProperties, AppendIsConcat
<1>2. Text(list \o <<m>>, s) = Text(list, s) \o Text(<<m>>, s)
  BY TextOne, TextConcat
<1>3. Text(<<m>>, s) = Part(m, s)
  BY TextOne
<1> QED BY <1>1, <1>2, <1>3, Zenon

\* A list without elements of s has no text of s.
LEMMA TextOfOthers ==
  ASSUME NEW list \in Seq(Element), NEW s, \A i \in 1 .. Len(list) : list[i].s # s
  PROVE  Text(list, s) = <<>>
<1>1. /\ Parts(list, s) \in Seq(Seq(Byte))
      /\ \A i \in 1 .. Len(Parts(list, s)) : Parts(list, s)[i] = <<>>
  <2>1. \A i \in 1 .. Len(list) : Part(list[i], s) = <<>>
    BY DEF Part
  <2> QED BY <2>1, PartsType
<1>2. FlattenSeq(Parts(list, s)) = <<>>
  BY <1>1, FlattenOfEmpty
<1> QED BY <1>2 DEF Text, Parts


\* What the bytes of a stream add to its text.
Letters(bytes) == [i \in 1 .. Len(bytes) |-> Letter(bytes[i])]

\* They add texts.
LEMMA LettersType ==
  ASSUME NEW bytes \in Seq(Octet)
  PROVE  /\ Letters(bytes) \in Seq(Seq(Byte))
         /\ Len(Letters(bytes)) = Len(bytes)
         /\ \A i \in 1 .. Len(bytes) : Letters(bytes)[i] = Letter(bytes[i])
<1>1. Len(bytes) \in Nat /\ \A i \in 1 .. Len(bytes) : bytes[i] \in Octet
  BY LenProperties
<1>2. ASSUME NEW b \in Octet PROVE Letter(b) \in Seq(Byte)
  <2>1. CASE b = Nul
    BY <2>1, EmptySeq DEF Letter
  <2>2. CASE b # Nul
    <3>1. b \in Byte
      BY <2>2, MessagesAssumption DEF Octet, Byte, Nul
    <3>2. Append(<<>>, b) \in Seq(Byte) /\ Append(<<>>, b) = <<b>>
      BY <3>1, EmptySeq, AppendProperties
    <3> QED BY <2>2, <3>2 DEF Letter
  <2> QED BY <2>1, <2>2
<1> DEFINE D == Seq(Byte)
<1> HIDE DEF D
<1>3. \A i \in 1 .. Len(bytes) : Letter(bytes[i]) \in D
  BY <1>1, <1>2 DEF D
<1>4. /\ Letters(bytes) \in Seq(D)
      /\ Len(Letters(bytes)) = Len(bytes)
      /\ \A i \in 1 .. Len(bytes) : Letters(bytes)[i] = Letter(bytes[i])
  BY <1>1, <1>3 DEF Letters
<1> QED BY <1>4 DEF D

\* The text of a stream is a text.
LEMMA WithoutNulType ==
  ASSUME NEW bytes \in Seq(Octet)
  PROVE  WithoutNul(bytes) \in Seq(Byte) /\ Len(WithoutNul(bytes)) \in Nat
<1>1. WithoutNul(bytes) = FlattenSeq(Letters(bytes))
  BY DEF WithoutNul, Letters
<1>2. WithoutNul(bytes) \in Seq(Byte)
  BY <1>1, LettersType, FlattenType
<1> QED BY <1>2, LenProperties

\* An empty stream has none.
LEMMA WithoutNulEmpty == WithoutNul(<<>>) = <<>>
<1>1. <<>> \in Seq(Octet) /\ Len(<<>>) = 0
  BY EmptySeq
<1>2. Letters(<<>>) \in Seq(Seq(Byte)) /\ Len(Letters(<<>>)) = 0
  BY <1>1, LettersType
<1>3. Letters(<<>>) = <<>>
  BY <1>2, EmptySeq
<1> QED BY <1>3, FlattenEmpty DEF WithoutNul, Letters

\* The text of two streams, one behind the other.
LEMMA WithoutNulConcat ==
  ASSUME NEW front \in Seq(Octet), NEW back \in Seq(Octet)
  PROVE  /\ front \o back \in Seq(Octet)
         /\ WithoutNul(front \o back) = WithoutNul(front) \o WithoutNul(back)
<1> DEFINE f == Letters(front)
           b == Letters(back)
           fb == Letters(front \o back)
           D == Seq(Byte)
<1>1. /\ front \o back \in Seq(Octet)
      /\ Len(front \o back) = Len(front) + Len(back)
      /\ \A i \in 1 .. Len(front) : (front \o back)[i] = front[i]
      /\ \A i \in 1 .. Len(back) : (front \o back)[Len(front) + i] = back[i]
  BY Places
<1>2. /\ f \in Seq(D) /\ Len(f) = Len(front) /\ \A i \in 1 .. Len(front) : f[i] = Letter(front[i])
      /\ b \in Seq(D) /\ Len(b) = Len(back) /\ \A i \in 1 .. Len(back) : b[i] = Letter(back[i])
  BY LettersType
<1>3. /\ fb \in Seq(D) /\ Len(fb) = Len(front) + Len(back)
      /\ \A i \in 1 .. (Len(front) + Len(back)) : fb[i] = Letter((front \o back)[i])
  BY <1>1, LettersType
<1>4. Len(front) \in Nat /\ Len(back) \in Nat
  BY LenProperties
<1>5. \A i \in 1 .. Len(front) : i \in 1 .. (Len(front) + Len(back))
  BY <1>4
<1>6. \A i \in 1 .. Len(back) : Len(front) + i \in 1 .. (Len(front) + Len(back))
  BY <1>4
<1> HIDE DEF D, f, b, fb
<1>7. \A i \in 1 .. Len(front) : fb[i] = f[i]
  BY <1>1, <1>2, <1>3, <1>5
<1>8. \A i \in 1 .. Len(back) : fb[Len(front) + i] = b[i]
  BY <1>1, <1>2, <1>3, <1>6
<1>9. fb = f \o b
  <2>1. f \in Seq(D) /\ b \in Seq(D) /\ fb \in Seq(D)
    BY <1>2, <1>3
  <2>2. Len(fb) = Len(f) + Len(b) /\ \A i \in 1 .. Len(f) : fb[i] = f[i]
    BY <1>2, <1>3, <1>7
  <2>3. \A i \in 1 .. Len(b) : fb[Len(f) + i] = b[i]
    BY <1>2, <1>8
  <2> QED BY <2>1, <2>2, <2>3, InPlaces
<1>10. FlattenSeq(f \o b) = FlattenSeq(f) \o FlattenSeq(b)
  BY <1>2, FlattenConcat DEF D
<1> QED BY <1>1, <1>9, <1>10 DEF WithoutNul, Letters, f, b, fb

\* The text of a single byte.
LEMMA WithoutNulOne ==
  ASSUME NEW b \in Octet
  PROVE  <<b>> \in Seq(Octet) /\ WithoutNul(<<b>>) = Letter(b)
<1>1. Append(<<>>, b) = <<b>> /\ <<b>> \in Seq(Octet) /\ Len(<<b>>) = 1 /\ <<b>>[1] = b
  BY EmptySeq, AppendProperties
<1> DEFINE one == <<b>>
<1> HIDE DEF one
<1>2. one \in Seq(Octet) /\ Len(one) = 1 /\ one[1] = b
  BY <1>1 DEF one
<1>3. Letters(one) \in Seq(Seq(Byte)) /\ Len(Letters(one)) = 1 /\ Letters(one)[1] = Letter(b)
  BY <1>2, LettersType
<1>4. Letters(one) # <<>>
  BY <1>3, EmptySeq
<1>5. FlattenSeq(Letters(one)) = Letter(b)
  BY <1>3, <1>4, FlattenJoins DEF Joins
<1> QED BY <1>1, <1>5 DEF WithoutNul, Letters, one

\* A stream without NULs is its text.
LEMMA WithoutNulPlain ==
  ASSUME NEW bytes \in Seq(Octet), \A i \in 1 .. Len(bytes) : bytes[i] # Nul
  PROVE  bytes \in Seq(Byte) /\ WithoutNul(bytes) = bytes
<1> DEFINE N == Len(bytes)
           Upto(n) == SubSeq(bytes, 1, n)
           G == {n \in 0 .. N : WithoutNul(Upto(n)) = Upto(n)}
<1>1. N \in Nat /\ Upto(N) = bytes
  BY LenProperties, SubSeqFull
<1>2. 0 \in G
  <2>1. Upto(0) = <<>>
    BY SubSeqEmpty
  <2>2. WithoutNul(Upto(0)) = Upto(0)
    <3> HIDE DEF Upto
    <3> QED BY <2>1, WithoutNulEmpty
  <2>3. 0 \in 0 .. N
    BY <1>1
  <2> HIDE DEF Upto, N
  <2> QED BY <2>2, <2>3
<1>3. ASSUME NEW n \in 0 .. N, n \in G, n < N PROVE n + 1 \in G
  <2> DEFINE b == bytes[n + 1]
  <2>1. Upto(n) \in Seq(Octet) /\ b \in Octet /\ Upto(n + 1) = Append(Upto(n), b)
    BY <1>3, PrefixStep
  <2>2. n + 1 \in 1 .. N /\ b # Nul
    BY <1>1, <1>3
  <2> HIDE DEF Upto, b
  <2>3. Append(Upto(n), b) = Upto(n) \o <<b>>
    BY <2>1, AppendIsConcat
  <2>4. WithoutNul(<<b>>) = <<b>> /\ <<b>> \in Seq(Octet)
    BY <2>1, <2>2, WithoutNulOne DEF Letter
  <2>5. WithoutNul(Upto(n) \o <<b>>) = WithoutNul(Upto(n)) \o WithoutNul(<<b>>)
    BY <2>1, <2>4, WithoutNulConcat
  <2>6. WithoutNul(Upto(n)) = Upto(n)
    BY <1>3
  <2>7. WithoutNul(Upto(n + 1)) = Upto(n + 1)
    BY <2>1, <2>3, <2>4, <2>5, <2>6
  <2>8. n + 1 \in 0 .. N
    BY <1>1, <1>3
  <2> QED BY <2>7, <2>8
<1>4. WithoutNul(bytes) = bytes
  <2>1. \A n \in 0 .. N : n \in G
    <3> HIDE DEF G
    <3> QED BY <1>1, <1>2, <1>3, Upwards
  <2>2. N \in 0 .. N
    BY <1>1
  <2>3. WithoutNul(Upto(N)) = Upto(N)
    <3> HIDE DEF Upto
    <3> QED BY <2>1, <2>2
  <2> HIDE DEF Upto
  <2> QED BY <1>1, <2>3
<1> QED BY <1>4, WithoutNulType


\* Lists whose elements add the same text of s.
LEMMA TextSame ==
  ASSUME NEW one \in Seq(Element), NEW other \in Seq(Element), NEW s, Len(one) = Len(other),
         \A i \in 1 .. Len(one) : Part(one[i], s) = Part(other[i], s)
  PROVE  Text(one, s) = Text(other, s)
<1>1. Parts(one, s) = Parts(other, s)
  BY DEF Parts
<1> QED BY <1>1 DEF Text, Parts

-----------------------------------------------------------------------------
(* What is left of a list when elements of one socket go.                  *)

\* OneOpenAndLast, of any list.
OpenLast(list) ==
  \A i, j \in 1 .. Len(list) : i < j /\ list[i].s = list[j].s => list[i].complete

\* out is left of list, from which elements of s have gone: those of the other
\* sockets are there, each behind the same text.
Others(list, out, s) ==
  /\ out \in Seq(Element)
  /\ OpenLast(list) => OpenLast(out)
  /\ \A r \in Socket \ {s} : Text(out, r) = Text(list, r)
  /\ \A j \in 1 .. Len(out) : \E k \in 1 .. Len(list) :
       /\ out[j] = list[k]
       /\ out[j].s # s => Text(SubSeq(list, 1, k), out[j].s) = Text(SubSeq(out, 1, j), out[j].s)

\* And what went of s is the text gone, which was its first.
Takes(list, out, s, gone) ==
  /\ Others(list, out, s)
  /\ gone \in Seq(Byte)
  /\ Text(list, s) = gone \o Text(out, s)
  /\ \A j \in 1 .. Len(out) : out[j].s = s =>
       \E k \in 1 .. Len(list) :
         out[j] = list[k] /\ Text(SubSeq(list, 1, k), s) = gone \o Text(SubSeq(out, 1, j), s)

\* A list without its last element.
LEMMA OpenLastPrefix ==
  ASSUME NEW list \in Seq(Element), NEW m \in Element, OpenLast(Append(list, m))
  PROVE  /\ OpenLast(list)
         /\ \A k \in 1 .. Len(list) : list[k].s = m.s => list[k].complete
<1> DEFINE longer == Append(list, m)
<1>1. /\ Len(longer) = Len(list) + 1
      /\ \A i \in 1 .. Len(list) : longer[i] = list[i]
      /\ longer[Len(list) + 1] = m
      /\ Len(list) \in Nat
  BY AppendProperties, LenProperties
<1>2. OpenLast(longer)
  OBVIOUS
<1> HIDE DEF longer
<1>3. ASSUME NEW i \in 1 .. Len(list), NEW j \in 1 .. Len(list), i < j, list[i].s = list[j].s
      PROVE  list[i].complete
  <2>1. i \in 1 .. Len(longer) /\ j \in 1 .. Len(longer)
    BY <1>1
  <2> QED BY <1>1, <1>2, <1>3, <2>1 DEF OpenLast
<1>4. ASSUME NEW k \in 1 .. Len(list), list[k].s = m.s PROVE list[k].complete
  <2>1. k \in 1 .. Len(longer) /\ Len(list) + 1 \in 1 .. Len(longer) /\ k < Len(list) + 1
    BY <1>1
  <2> QED BY <1>1, <1>2, <1>4, <2>1 DEF OpenLast
<1> QED BY <1>3, <1>4 DEF OpenLast

\* An element of s that is dropped.
LEMMA OthersDrop ==
  ASSUME NEW list \in Seq(Element), NEW out, NEW s, NEW m \in Element,
         Others(list, out, s), m.s = s
  PROVE  Others(Append(list, m), out, s)
<1> DEFINE longer == Append(list, m)
<1>1. /\ longer \in Seq(Element) /\ Len(longer) = Len(list) + 1
      /\ \A i \in 1 .. Len(list) : longer[i] = list[i]
      /\ Len(list) \in Nat
  BY AppendProperties, LenProperties
<1>2. \A k \in 1 .. Len(list) : SubSeq(longer, 1, k) = SubSeq(list, 1, k)
  BY AppendPrefix
<1>3. ASSUME NEW r \in Socket \ {s} PROVE Text(out, r) = Text(longer, r)
  <2>1. Text(list, r) \o <<>> = Text(list, r)
    BY TextType, ConcatEmptySeq
  <2>2. Text(longer, r) = Text(list, r) \o Part(m, r)
    BY TextAppend
  <2>3. Part(m, r) = <<>>
    BY DEF Part
  <2> QED BY <2>1, <2>2, <2>3 DEF Others
<1>4. OpenLast(longer) => OpenLast(out)
  BY OpenLastPrefix DEF Others
<1> HIDE DEF longer
<1>5. ASSUME NEW j \in 1 .. Len(out)
      PROVE  \E k \in 1 .. Len(longer) :
               /\ out[j] = longer[k]
               /\ out[j].s # s => Text(SubSeq(longer, 1, k), out[j].s) = Text(SubSeq(out, 1, j), out[j].s)
  <2>1. PICK k \in 1 .. Len(list) :
          /\ out[j] = list[k]
          /\ out[j].s # s => Text(SubSeq(list, 1, k), out[j].s) = Text(SubSeq(out, 1, j), out[j].s)
    BY DEF Others
  <2>2. k \in 1 .. Len(longer) /\ out[j] = longer[k] /\ SubSeq(longer, 1, k) = SubSeq(list, 1, k)
    BY <1>1, <1>2, <2>1
  <2> QED BY <2>1, <2>2
<1>6. Others(longer, out, s)
  BY <1>3, <1>4, <1>5 DEF Others
<1> QED BY <1>6 DEF longer

\* An element that is kept.
LEMMA OthersKeep ==
  ASSUME NEW list \in Seq(Element), NEW out, NEW s, NEW m \in Element,
         Others(list, out, s)
  PROVE  Others(Append(list, m), Append(out, m), s)
<1> DEFINE longer == Append(list, m)
           out2 == Append(out, m)
<1>1. /\ longer \in Seq(Element) /\ Len(longer) = Len(list) + 1
      /\ longer[Len(list) + 1] = m
      /\ \A i \in 1 .. Len(list) : longer[i] = list[i]
      /\ Len(list) \in Nat
  BY AppendProperties, LenProperties
<1>2. out \in Seq(Element)
  BY DEF Others
<1>3. /\ out2 \in Seq(Element) /\ Len(out2) = Len(out) + 1
      /\ out2[Len(out) + 1] = m
      /\ \A i \in 1 .. Len(out) : out2[i] = out[i]
      /\ Len(out) \in Nat
  BY <1>2, AppendProperties, LenProperties
<1>4. /\ SubSeq(longer, 1, Len(list) + 1) = longer
      /\ \A k \in 1 .. Len(list) : SubSeq(longer, 1, k) = SubSeq(list, 1, k)
  BY AppendPrefix
<1>5. /\ SubSeq(out2, 1, Len(out) + 1) = out2
      /\ \A k \in 1 .. Len(out) : SubSeq(out2, 1, k) = SubSeq(out, 1, k)
  BY <1>2, AppendPrefix
<1>6. ASSUME NEW r \in Socket \ {s} PROVE Text(out2, r) = Text(longer, r)
  <2>1. Text(longer, r) = Text(list, r) \o Part(m, r)
    BY TextAppend
  <2>2. Text(out2, r) = Text(out, r) \o Part(m, r)
    BY <1>2, TextAppend
  <2>3. Text(out, r) = Text(list, r)
    BY DEF Others
  <2> QED BY <2>1, <2>2, <2>3
<1>7. ASSUME OpenLast(longer) PROVE OpenLast(out2)
  <2>1. OpenLast(out) /\ \A k \in 1 .. Len(list) : list[k].s = m.s => list[k].complete
    BY <1>7, OpenLastPrefix DEF Others
  <2> HIDE DEF longer, out2
  <2>2. ASSUME NEW i \in 1 .. Len(out2), NEW j \in 1 .. Len(out2), i < j, out2[i].s = out2[j].s
        PROVE  out2[i].complete
    <3>1. i \in 1 .. Len(out) /\ out2[i] = out[i]
      BY <1>3, <2>2
    <3>2. CASE j \in 1 .. Len(out)
      BY <1>3, <2>1, <2>2, <3>1, <3>2 DEF OpenLast
    <3>3. CASE j = Len(out) + 1
      <4>1. PICK k \in 1 .. Len(list) : out[i] = list[k]
        BY <3>1 DEF Others
      <4> QED BY <1>3, <2>1, <2>2, <3>1, <3>3, <4>1
    <3> QED BY <1>3, <3>2, <3>3
  <2> QED BY <2>2 DEF OpenLast
<1> HIDE DEF longer, out2
<1>8. ASSUME NEW j \in 1 .. Len(out2)
      PROVE  \E k \in 1 .. Len(longer) :
               /\ out2[j] = longer[k]
               /\ out2[j].s # s => Text(SubSeq(longer, 1, k), out2[j].s) = Text(SubSeq(out2, 1, j), out2[j].s)
  <2>1. CASE j \in 1 .. Len(out)
    <3>1. PICK k \in 1 .. Len(list) :
            /\ out[j] = list[k]
            /\ out[j].s # s => Text(SubSeq(list, 1, k), out[j].s) = Text(SubSeq(out, 1, j), out[j].s)
      BY <2>1 DEF Others
    <3>2. k \in 1 .. Len(longer) /\ longer[k] = list[k] /\ SubSeq(longer, 1, k) = SubSeq(list, 1, k)
      BY <1>1, <1>4, <3>1
    <3>3. out2[j] = out[j] /\ SubSeq(out2, 1, j) = SubSeq(out, 1, j)
      BY <1>3, <1>5, <2>1
    <3> QED BY <3>1, <3>2, <3>3
  <2>2. CASE j = Len(out) + 1
    <3>1. Len(list) + 1 \in 1 .. Len(longer) /\ out2[j] = longer[Len(list) + 1] /\ out2[j] = m
      BY <1>1, <1>3, <2>2
    <3>2. m.s # s => Text(longer, m.s) = Text(out2, m.s)
      <4>1. m.s \in Socket
        BY DEF Element
      <4> QED BY <1>6, <4>1
    <3>3. SubSeq(longer, 1, Len(list) + 1) = longer /\ SubSeq(out2, 1, j) = out2
      BY <1>4, <1>5, <2>2
    <3> QED BY <3>1, <3>2, <3>3
  <2> QED BY <1>3, <2>1, <2>2
<1>9. Others(longer, out2, s)
  BY <1>3, <1>6, <1>7, <1>8 DEF Others
<1> QED BY <1>9 DEF longer, out2


\* Nothing has gone from the empty list.
LEMMA TakesNil ==
  ASSUME NEW s
  PROVE  Takes(<<>>, <<>>, s, <<>>)
<1>1. <<>> \in Seq(Element) /\ <<>> \in Seq(Byte) /\ Len(<<>>) = 0
  BY EmptySeq
<1>2. \A j \in 1 .. Len(<<>>) : FALSE
  BY <1>1
<1>3. Others(<<>>, <<>>, s)
  BY <1>1, <1>2 DEF Others
<1>4. Text(<<>>, s) = <<>> \o Text(<<>>, s)
  BY <1>1, TextEmpty, ConcatEmptySeq
<1> QED BY <1>1, <1>2, <1>3, <1>4 DEF Takes

\* Elements of s alone, all of them.
LEMMA TakesAll ==
  ASSUME NEW list \in Seq(Element), NEW s, \A i \in 1 .. Len(list) : list[i].s = s
  PROVE  Takes(list, <<>>, s, Text(list, s))
<1>1. <<>> \in Seq(Element) /\ Len(<<>>) = 0
  BY EmptySeq
<1>2. \A j \in 1 .. Len(<<>>) : FALSE
  BY <1>1
<1>3. ASSUME NEW r \in Socket \ {s} PROVE Text(<<>>, r) = Text(list, r)
  BY <1>1, TextEmpty, TextOfOthers
<1>4. Others(list, <<>>, s)
  BY <1>1, <1>2, <1>3 DEF Others, OpenLast
<1>5. Text(list, s) = Text(list, s) \o Text(<<>>, s)
  BY TextType, TextEmpty, ConcatEmptySeq
<1> QED BY <1>2, <1>4, <1>5, TextType DEF Takes

\* An element of s that is dropped where nothing of s has been kept.
LEMMA TakesDrop ==
  ASSUME NEW list \in Seq(Element), NEW out, NEW s, NEW gone, NEW m \in Element,
         Takes(list, out, s, gone), m.s = s, \A j \in 1 .. Len(out) : out[j].s # s
  PROVE  Takes(Append(list, m), out, s, gone \o m.message)
<1>1. Others(list, out, s) /\ out \in Seq(Element) /\ gone \in Seq(Byte)
  BY DEF Takes, Others
<1>2. Others(Append(list, m), out, s)
  BY <1>1, OthersDrop
<1>3. m.message \in Seq(Byte) /\ Part(m, s) = m.message
  BY PartType DEF Part
<1>4. gone \o m.message \in Seq(Byte)
  BY <1>1, <1>3, ConcatProperties
<1>5. Text(out, s) = <<>>
  BY <1>1, TextOfOthers
<1>6. Text(list, s) = gone
  <2>1. Text(list, s) = gone \o Text(out, s)
    BY DEF Takes
  <2> QED BY <1>1, <1>5, <2>1, ConcatEmptySeq
<1>7. Text(Append(list, m), s) = gone \o m.message
  <2>1. Text(Append(list, m), s) = Text(list, s) \o Part(m, s)
    BY TextAppend
  <2> QED BY <1>3, <1>6, <2>1
<1>8. (gone \o m.message) \o Text(out, s) = gone \o m.message
  BY <1>4, <1>5, ConcatEmptySeq
<1> QED BY <1>2, <1>4, <1>7, <1>8 DEF Takes

\* An element that is kept.
LEMMA TakesKeep ==
  ASSUME NEW list \in Seq(Element), NEW out, NEW s, NEW gone, NEW m \in Element,
         Takes(list, out, s, gone)
  PROVE  Takes(Append(list, m), Append(out, m), s, gone)
<1> DEFINE longer == Append(list, m)
           out2 == Append(out, m)
<1>1. out \in Seq(Element) /\ gone \in Seq(Byte) /\ Others(list, out, s)
  BY DEF Takes, Others
<1>2. Others(longer, out2, s)
  BY <1>1, OthersKeep
<1>3. /\ Len(longer) = Len(list) + 1 /\ longer[Len(list) + 1] = m
      /\ \A i \in 1 .. Len(list) : longer[i] = list[i]
      /\ Len(list) \in Nat
  BY AppendProperties, LenProperties
<1>4. /\ out2 \in Seq(Element) /\ Len(out2) = Len(out) + 1 /\ out2[Len(out) + 1] = m
      /\ \A i \in 1 .. Len(out) : out2[i] = out[i]
      /\ Len(out) \in Nat
  BY <1>1, AppendProperties, LenProperties
<1>5. /\ SubSeq(longer, 1, Len(list) + 1) = longer
      /\ \A k \in 1 .. Len(list) : SubSeq(longer, 1, k) = SubSeq(list, 1, k)
  BY AppendPrefix
<1>6. /\ SubSeq(out2, 1, Len(out) + 1) = out2
      /\ \A k \in 1 .. Len(out) : SubSeq(out2, 1, k) = SubSeq(out, 1, k)
  BY <1>1, AppendPrefix
<1>7. Text(longer, s) = gone \o Text(out2, s)
  <2>1. Text(longer, s) = Text(list, s) \o Part(m, s) /\ Text(out2, s) = Text(out, s) \o Part(m, s)
    BY <1>1, TextAppend
  <2>2. Text(list, s) = gone \o Text(out, s)
    BY DEF Takes
  <2>4. Text(out, s) \in Seq(Byte) /\ Part(m, s) \in Seq(Byte)
    BY <1>1, TextType, PartType
  <2>5. (gone \o Text(out, s)) \o Part(m, s) = gone \o (Text(out, s) \o Part(m, s))
    BY <1>1, <2>4, TextsAssociative, Zenon
  <2> QED BY <2>1, <2>2, <2>5
<1> HIDE DEF longer, out2
<1>8. ASSUME NEW j \in 1 .. Len(out2), out2[j].s = s
      PROVE  \E k \in 1 .. Len(longer) :
               out2[j] = longer[k] /\ Text(SubSeq(longer, 1, k), s) = gone \o Text(SubSeq(out2, 1, j), s)
  <2>1. CASE j \in 1 .. Len(out)
    <3>1. out2[j] = out[j] /\ SubSeq(out2, 1, j) = SubSeq(out, 1, j)
      BY <1>4, <1>6, <2>1
    <3>2. PICK k \in 1 .. Len(list) :
            out[j] = list[k] /\ Text(SubSeq(list, 1, k), s) = gone \o Text(SubSeq(out, 1, j), s)
      BY <1>8, <2>1, <3>1 DEF Takes
    <3>3. k \in 1 .. Len(longer) /\ longer[k] = list[k] /\ SubSeq(longer, 1, k) = SubSeq(list, 1, k)
      BY <1>3, <1>5, <3>2
    <3>4. Text(SubSeq(longer, 1, k), s) = gone \o Text(SubSeq(out2, 1, j), s)
      BY <3>1, <3>2, <3>3, Zenon
    <3> QED BY <3>1, <3>2, <3>3, <3>4, Zenon
  <2>2. CASE j = Len(out) + 1
    <3>1. Len(list) + 1 \in 1 .. Len(longer) /\ out2[j] = longer[Len(list) + 1]
      BY <1>3, <1>4, <2>2
    <3>2. SubSeq(longer, 1, Len(list) + 1) = longer /\ SubSeq(out2, 1, j) = out2
      BY <1>5, <1>6, <2>2
    <3> QED BY <1>7, <3>1, <3>2
  <2>3. j \in 1 .. Len(out) \/ j = Len(out) + 1
    BY <1>4
  <2> QED BY <2>1, <2>2, <2>3, Zenon
<1>9. Takes(longer, out2, s, gone)
  BY <1>1, <1>2, <1>7, <1>8 DEF Takes
<1> QED BY <1>9 DEF longer, out2

\* Any elements that are kept, behind.
LEMMA TakesBehind ==
  ASSUME NEW list \in Seq(Element), NEW out, NEW s, NEW gone, NEW back \in Seq(Element),
         Takes(list, out, s, gone)
  PROVE  Takes(list \o back, out \o back, s, gone)
<1> DEFINE N == Len(back)
           Upto(n) == SubSeq(back, 1, n)
           G == {n \in 0 .. N : Takes(list \o Upto(n), out \o Upto(n), s, gone)}
<1>1. N \in Nat /\ Upto(N) = back /\ N \in 0 .. N
  BY LenProperties, SubSeqFull
<1>2. out \in Seq(Element)
  BY DEF Takes, Others
<1>3. 0 \in G
  <2>1. Upto(0) = <<>>
    BY SubSeqEmpty
  <2>2. list \o <<>> = list /\ out \o <<>> = out
    BY <1>2, ConcatEmptySeq
  <2>3. 0 \in 0 .. N
    BY <1>1
  <2>4. Takes(list \o Upto(0), out \o Upto(0), s, gone)
    <3> HIDE DEF Upto
    <3> QED BY <2>1, <2>2
  <2> HIDE DEF Upto, N
  <2> QED BY <2>3, <2>4
<1>4. ASSUME NEW n \in 0 .. N, n \in G, n < N PROVE n + 1 \in G
  <2> DEFINE m == back[n + 1]
  <2>1. Upto(n) \in Seq(Element) /\ m \in Element /\ Upto(n + 1) = Append(Upto(n), m)
    BY <1>4, PrefixStep
  <2> HIDE DEF Upto, m
  <2>2. ASSUME NEW l \in Seq(Element)
        PROVE  l \o Upto(n + 1) = Append(l \o Upto(n), m) /\ l \o Upto(n) \in Seq(Element)
    <3>1. l \o Append(Upto(n), m) = Append(l \o Upto(n), m) /\ l \o Upto(n) \in Seq(Element)
      BY <2>1, ConcatAppend
    <3> QED BY <2>1, <3>1, Zenon
  <2>3. Takes(list \o Upto(n), out \o Upto(n), s, gone)
    BY <1>4
  <2>4. Takes(Append(list \o Upto(n), m), Append(out \o Upto(n), m), s, gone)
    BY <2>1, <2>2, <2>3, TakesKeep
  <2>5. Takes(list \o Upto(n + 1), out \o Upto(n + 1), s, gone)
    BY <1>2, <2>2, <2>4
  <2>6. n + 1 \in 0 .. N
    BY <1>1, <1>4
  <2> QED BY <2>5, <2>6
<1>5. N \in G
  <2> HIDE DEF G
  <2>1. \A n \in 0 .. N : n \in G
    BY <1>1, <1>3, <1>4, Upwards
  <2> QED BY <1>1, <2>1
<1> QED BY <1>1, <1>5

\* Two times.
LEMMA TakesTwice ==
  ASSUME NEW list \in Seq(Element), NEW mid, NEW out, NEW s, NEW g, NEW h,
         Takes(list, mid, s, g), Takes(mid, out, s, h)
  PROVE  Takes(list, out, s, g \o h)
<1>1. /\ mid \in Seq(Element) /\ out \in Seq(Element)
      /\ g \in Seq(Byte) /\ h \in Seq(Byte) /\ g \o h \in Seq(Byte)
  BY ConcatProperties DEF Takes, Others
<1>2. ASSUME NEW t \in Seq(Byte) PROVE g \o (h \o t) = (g \o h) \o t
  BY <1>1, TextsAssociative, Zenon
<1>3. Text(list, s) = (g \o h) \o Text(out, s)
  <2>1. Text(list, s) = g \o Text(mid, s) /\ Text(mid, s) = h \o Text(out, s)
    BY DEF Takes
  <2> QED BY <1>1, <1>2, <2>1, TextType
<1>4. ASSUME NEW j \in 1 .. Len(out), out[j].s = s
      PROVE  \E k \in 1 .. Len(list) :
               out[j] = list[k] /\ Text(SubSeq(list, 1, k), s) = (g \o h) \o Text(SubSeq(out, 1, j), s)
  <2>1. PICK i \in 1 .. Len(mid) :
          out[j] = mid[i] /\ Text(SubSeq(mid, 1, i), s) = h \o Text(SubSeq(out, 1, j), s)
    BY <1>4 DEF Takes
  <2>2. PICK k \in 1 .. Len(list) :
          mid[i] = list[k] /\ Text(SubSeq(list, 1, k), s) = g \o Text(SubSeq(mid, 1, i), s)
    BY <1>4, <2>1 DEF Takes
  <2>3. Text(SubSeq(out, 1, j), s) \in Seq(Byte)
    <3>1. j \in 0 .. Len(out)
      BY <1>1, LenProperties
    <3> QED BY <1>1, <3>1, Cut, TextType
  <2> QED BY <1>2, <2>1, <2>2, <2>3
<1>5. Others(list, out, s)
  <2>1. Others(list, mid, s) /\ Others(mid, out, s)
    BY DEF Takes
  <2>2. ASSUME NEW j \in 1 .. Len(out)
        PROVE  \E k \in 1 .. Len(list) :
                 /\ out[j] = list[k]
                 /\ out[j].s # s => Text(SubSeq(list, 1, k), out[j].s) = Text(SubSeq(out, 1, j), out[j].s)
    <3>1. PICK i \in 1 .. Len(mid) :
            /\ out[j] = mid[i]
            /\ out[j].s # s => Text(SubSeq(mid, 1, i), out[j].s) = Text(SubSeq(out, 1, j), out[j].s)
      BY <2>1 DEF Others
    <3>2. PICK k \in 1 .. Len(list) :
            /\ mid[i] = list[k]
            /\ mid[i].s # s => Text(SubSeq(list, 1, k), mid[i].s) = Text(SubSeq(mid, 1, i), mid[i].s)
      BY <2>1 DEF Others
    <3> QED BY <3>1, <3>2
  <2>3. \A r \in Socket \ {s} : Text(out, r) = Text(list, r)
    BY <2>1 DEF Others
  <2>4. OpenLast(list) => OpenLast(out)
    BY <2>1 DEF Others
  <2> QED BY <1>1, <2>2, <2>3, <2>4 DEF Others
<1> QED BY <1>1, <1>3, <1>4, <1>5 DEF Takes

\* RemoveAt, of the first element of its socket.
LEMMA TakesFirst ==
  ASSUME NEW list \in Seq(Element), NEW i \in 1 .. Len(list), NEW s, list[i].s = s,
         \A j \in 1 .. (i - 1) : list[j].s # s
  PROVE  Takes(list, RemoveAt(list, i), s, list[i].message)
<1> DEFINE pre == SubSeq(list, 1, i - 1)
           post == SubSeq(list, i + 1, Len(list))
           m == list[i]
<1>1. /\ pre \in Seq(Element) /\ post \in Seq(Element) /\ m \in Element
      /\ list = Append(pre, m) \o post
  BY CutAround
<1>2. Len(list) \in Nat /\ i - 1 \in 0 .. Len(list)
  BY LenProperties
<1>3. Len(pre) = i - 1 /\ \A j \in 1 .. (i - 1) : pre[j] = list[j]
  BY <1>2, Cut
<1>4. RemoveAt(list, i) = pre \o post
  BY DEF RemoveAt
<1>5. \A j \in 1 .. Len(pre) : pre[j].s # s
  BY <1>3
<1>6. m.s = s
  OBVIOUS
<1> HIDE DEF pre, post, m
<1>7. Takes(pre, pre, s, <<>>)
  <2>1. <<>> \in Seq(Element)
    BY EmptySeq
  <2>2. Takes(<<>> \o pre, <<>> \o pre, s, <<>>)
    BY <1>1, <2>1, TakesNil, TakesBehind
  <2> QED BY <1>1, <2>2, ConcatEmptySeq
<1>8. <<>> \o m.message = m.message
  <2>1. m.message \in Seq(Byte)
    BY <1>1 DEF Element, Byte
  <2> QED BY <2>1, ConcatEmptySeq
<1>9. Takes(Append(pre, m), pre, s, m.message)
  BY <1>1, <1>5, <1>6, <1>7, <1>8, TakesDrop
<1>10. Append(pre, m) \in Seq(Element)
  BY <1>1, AppendProperties
<1>11. Takes(list, pre \o post, s, m.message)
  BY <1>1, <1>9, <1>10, TakesBehind
<1> QED BY <1>4, <1>11 DEF m

\* SubSeq, of what is behind a front of elements of one socket.
LEMMA TakesFront ==
  ASSUME NEW list \in Seq(Element), NEW n \in 0 .. Len(list), NEW s,
         \A j \in 1 .. n : list[j].s = s
  PROVE  Takes(list, SubSeq(list, n + 1, Len(list)), s, Text(SubSeq(list, 1, n), s))
<1> DEFINE pre == SubSeq(list, 1, n)
           post == SubSeq(list, n + 1, Len(list))
<1>1. /\ pre \in Seq(Element) /\ post \in Seq(Element) /\ pre \o post = list
      /\ Len(pre) = n /\ \A j \in 1 .. n : pre[j] = list[j]
  BY Cut
<1>2. \A j \in 1 .. Len(pre) : pre[j].s = s
  BY <1>1
<1> HIDE DEF pre, post
<1>3. Takes(pre, <<>>, s, Text(pre, s))
  BY <1>1, <1>2, TakesAll
<1>4. Takes(pre \o post, <<>> \o post, s, Text(pre, s))
  BY <1>1, <1>3, TakesBehind
<1>5. <<>> \o post = post
  BY <1>1, ConcatEmptySeq
<1> QED BY <1>1, <1>4, <1>5 DEF pre, post

\* Some elements of s are dropped and the rest is kept.
LEMMA OthersKept ==
  ASSUME NEW list \in Seq(Element), NEW s, NEW keep \in Seq(Seq(Element)), Len(keep) = Len(list),
         \A n \in 1 .. Len(list) : (keep[n] = <<>> /\ list[n].s = s) \/ keep[n] = <<list[n]>>
  PROVE  Others(list, FlattenSeq(keep), s)
<1> DEFINE N == Len(list)
           Upto(n) == SubSeq(list, 1, n)
           Kept(n) == SubSeq(keep, 1, n)
           G == {n \in 0 .. N : Others(Upto(n), FlattenSeq(Kept(n)), s)}
<1>1. N \in Nat /\ Upto(N) = list /\ Kept(N) = keep
  BY LenProperties, SubSeqFull
<1>2. 0 \in G
  <2>1. Upto(0) = <<>> /\ Kept(0) = <<>>
    BY SubSeqEmpty
  <2>2. Others(<<>>, <<>>, s)
    BY TakesNil DEF Takes
  <2>3. 0 \in 0 .. N
    BY <1>1
  <2>4. Others(Upto(0), FlattenSeq(Kept(0)), s)
    <3> HIDE DEF Upto, Kept
    <3> QED BY <2>1, <2>2, FlattenEmpty
  <2> HIDE DEF Upto, Kept, N
  <2> QED BY <2>3, <2>4
<1>3. ASSUME NEW n \in 0 .. N, n \in G, n < N PROVE n + 1 \in G
  <2> DEFINE m == list[n + 1]
             q == keep[n + 1]
             D == Seq(Element)
  <2>1. Upto(n) \in Seq(Element) /\ m \in Element /\ Upto(n + 1) = Append(Upto(n), m)
    BY <1>3, PrefixStep
  <2>2. Kept(n) \in Seq(D) /\ q \in D /\ Kept(n + 1) = Append(Kept(n), q)
    <3>1. keep \in Seq(D) /\ n \in 0 .. Len(keep) /\ n < Len(keep)
      BY <1>3
    <3> HIDE DEF D
    <3> QED BY <3>1, PrefixStep
  <2>3. (q = <<>> /\ m.s = s) \/ q = <<m>>
    <3>1. n + 1 \in 1 .. Len(list)
      BY <1>1, <1>3
    <3> QED BY <3>1
  <2>4. Others(Upto(n), FlattenSeq(Kept(n)), s)
    BY <1>3
  <2> HIDE DEF Upto, Kept, m, q
  <2>5. FlattenSeq(Kept(n)) \in Seq(Element) /\ FlattenSeq(Kept(n + 1)) = FlattenSeq(Kept(n)) \o q
    BY <2>2, FlattenType, FlattenAppend
  <2>6. Others(Upto(n + 1), FlattenSeq(Kept(n + 1)), s)
    <3>1. CASE q = <<>> /\ m.s = s
      <4>1. FlattenSeq(Kept(n + 1)) = FlattenSeq(Kept(n))
        BY <2>5, <3>1, ConcatEmptySeq
      <4>2. Others(Append(Upto(n), m), FlattenSeq(Kept(n)), s)
        BY <2>1, <2>4, <3>1, OthersDrop
      <4> QED BY <2>1, <4>1, <4>2
    <3>2. CASE q = <<m>>
      <4>1. FlattenSeq(Kept(n + 1)) = Append(FlattenSeq(Kept(n)), m)
        BY <2>1, <2>5, <3>2, AppendIsConcat
      <4>2. Others(Append(Upto(n), m), Append(FlattenSeq(Kept(n)), m), s)
        BY <2>1, <2>4, OthersKeep
      <4> QED BY <2>1, <4>1, <4>2
    <3> QED BY <2>3, <3>1, <3>2
  <2>7. n + 1 \in 0 .. N
    BY <1>1, <1>3
  <2> QED BY <2>6, <2>7
<1>4. \A n \in 0 .. N : n \in G
  <2> HIDE DEF G
  <2> QED BY <1>1, <1>2, <1>3, Upwards
<1>5. Others(Upto(N), FlattenSeq(Kept(N)), s)
  <2>1. N \in 0 .. N
    BY <1>1
  <2> HIDE DEF Upto, Kept, N
  <2> QED BY <1>4, <2>1
<1> HIDE DEF Upto, Kept
<1> QED BY <1>1, <1>5

\* The elements that clean_list drops are those at the places in a set W.
Cleans(W, list, s, k) ==
  \A n \in 1 .. k : n \in W <=> /\ list[n].s = s
                                /\ (\A i \in 1 .. n : list[i].s = s) \/ n - 1 \notin W

\* There is such a set.
LEMMA CleansExist ==
  ASSUME NEW list, Len(list) \in Nat, NEW s
  PROVE  \E W \in SUBSET (1 .. Len(list)) : Cleans(W, list, s, Len(list))
<1> DEFINE N == Len(list)
           G == {k \in 0 .. N : \E W \in SUBSET (1 .. k) : Cleans(W, list, s, k)}
<1>1. 0 \in G
  <2>1. {} \in SUBSET (1 .. 0) /\ Cleans({}, list, s, 0)
    BY DEF Cleans
  <2> QED BY <2>1
<1>2. ASSUME NEW k \in 0 .. N, k \in G, k < N PROVE k + 1 \in G
  <2>1. PICK W \in SUBSET (1 .. k) : Cleans(W, list, s, k)
    BY <1>2
  <2> DEFINE goes == list[k + 1].s = s /\ ((\A i \in 1 .. (k + 1) : list[i].s = s) \/ k \notin W)
             U == W \cup {n \in {k + 1} : goes}
  <2>2. k \in Nat /\ k + 1 \in 0 .. N /\ k + 1 \notin W
    BY <1>2
  <2>3. U \in SUBSET (1 .. (k + 1))
    <3> SUFFICES ASSUME NEW n \in U PROVE n \in 1 .. (k + 1)
      BY DEF U
    <3>1. n \in 1 .. k \/ n = k + 1
      BY <2>1
    <3> QED BY <2>2, <3>1
  <2>4. ASSUME NEW n \in 1 .. (k + 1)
        PROVE  n \in U <=> /\ list[n].s = s
                           /\ (\A i \in 1 .. n : list[i].s = s) \/ n - 1 \notin U
    <3>1. CASE n = k + 1
      <4>1. n \in U <=> goes
        BY <2>2, <3>1
      <4>2. n - 1 \in U <=> k \in W
        BY <2>2, <3>1
      <4>3. n - 1 = k
        BY <2>2, <3>1
      <4> HIDE DEF U
      <4> QED BY <3>1, <4>1, <4>2, <4>3
    <3>2. CASE n # k + 1
      <4>1. n \in 1 .. k /\ n - 1 # k + 1
        BY <2>2, <3>2
      <4>2. (n \in U <=> n \in W) /\ (n - 1 \in U <=> n - 1 \in W)
        BY <3>2, <4>1
      <4> HIDE DEF U
      <4> QED BY <2>1, <4>1, <4>2 DEF Cleans
    <3> QED BY <3>1, <3>2
  <2>5. Cleans(U, list, s, k + 1)
    BY <2>4 DEF Cleans
  <2> HIDE DEF U
  <2> QED BY <2>2, <2>3, <2>5
<1>3. \A k \in 0 .. N : k \in G
  <2> HIDE DEF G
  <2>1. \A k \in 0 .. N : k \in G /\ k < N => k + 1 \in G
    BY <1>2
  <2>2. N \in Nat /\ 0 \in Nat
    OBVIOUS
  <2> HIDE DEF N
  <2> QED BY <1>1, <2>1, <2>2, Upwards
<1>4. N \in 0 .. N
  OBVIOUS
<1> QED BY <1>3, <1>4

\* clean_list leaves the other sockets their elements, in order.
LEMMA CleanOthers ==
  ASSUME NEW list \in Seq(Element), NEW s
  PROVE  Others(list, clean_list(list, s), s)
<1> DEFINE N == Len(list)
           Body(U) == [n \in 1 .. Len(list) |->
                         list[n].s = s /\ ((\A i \in 1 .. n : list[i].s = s) \/ ~U[n - 1])]
           V == CHOOSE U : U = Body(U)
           keep == [n \in 1 .. Len(list) |-> IF V[n] THEN <<>> ELSE <<list[n]>>]
           D == Seq(Element)
<1>1. N \in Nat /\ \A n \in 1 .. N : list[n] \in Element
  BY LenProperties
<1>2. \E U : U = Body(U)
  <2>1. PICK W \in SUBSET (1 .. N) : Cleans(W, list, s, N)
    BY <1>1, CleansExist
  <2> DEFINE T == [n \in 1 .. N |-> n \in W]
  <2>2. ASSUME NEW n \in 1 .. N PROVE T[n] = Body(T)[n]
    <3>1. CASE n = 1
      <4>1. \A i \in 1 .. 1 : i = 1
        OBVIOUS
      <4>2. n \in W <=> list[n].s = s
        BY <2>1, <3>1, <4>1 DEF Cleans
      <4>3. T[n] <=> list[n].s = s
        BY <4>2
      <4>4. Body(T)[n] <=> list[n].s = s
        <5>1. list[1].s = s <=> \A i \in 1 .. 1 : list[i].s = s
          BY <4>1
        <5>2. Body(T)[n] <=> (list[n].s = s /\ ((\A i \in 1 .. n : list[i].s = s) \/ ~T[n - 1]))
          OBVIOUS
        <5> HIDE DEF T, Body
        <5> QED BY <3>1, <5>1, <5>2
      <4>5. T[n] \in BOOLEAN /\ Body(T)[n] \in BOOLEAN
        OBVIOUS
      <4> HIDE DEF T, Body
      <4> QED BY <4>3, <4>4, <4>5
    <3>2. CASE n # 1
      <4>1. n - 1 \in 1 .. N
        BY <1>1, <3>2
      <4>2. T[n - 1] = (n - 1 \in W)
        BY <4>1
      <4>3. n \in W <=> list[n].s = s /\ ((\A i \in 1 .. n : list[i].s = s) \/ n - 1 \notin W)
        BY <2>1 DEF Cleans
      <4>4. Body(T)[n] <=> (list[n].s = s /\ ((\A i \in 1 .. n : list[i].s = s) \/ ~T[n - 1]))
        OBVIOUS
      <4>5. T[n] = (n \in W) /\ Body(T)[n] \in BOOLEAN
        OBVIOUS
      <4> HIDE DEF T, Body
      <4> QED BY <4>2, <4>3, <4>4, <4>5
    <3> QED BY <3>1, <3>2
  <2>3. T = Body(T)
    BY <2>2
  <2> QED BY <2>3
<1>3. V = Body(V)
  BY <1>2
<1>4. clean_list(list, s) = FlattenSeq(keep)
  BY DEF clean_list
<1> HIDE DEF V
<1>5. ASSUME NEW n \in 1 .. N, V[n] PROVE list[n].s = s
  <2>1. V[n] = Body(V)[n]
    BY <1>3
  <2> QED BY <1>5, <2>1
<1>6. ASSUME NEW n \in 1 .. N
      PROVE  (keep[n] = <<>> /\ list[n].s = s) \/ keep[n] = <<list[n]>>
  BY <1>5
<1>7. \A n \in 1 .. N : <<>> \in D /\ <<list[n]>> \in D
  BY <1>1, EmptySeq, TextOne
<1> HIDE DEF D
<1>8. keep \in Seq(D) /\ Len(keep) = N
  BY <1>1, <1>7
<1> HIDE DEF keep
<1> QED BY <1>4, <1>6, <1>8, OthersKept DEF D

-----------------------------------------------------------------------------
(* handle: a piece more at the end of the text of s.                       *)

\* The first of some places, 0 if there are none: what SelectInSeq finds.
LEMMA FirstPlace ==
  ASSUME NEW N \in Nat, NEW I \in SUBSET (1 .. N), NEW f, f = IF I # {} THEN Min(I) ELSE 0
  PROVE  (I = {} /\ f = 0) \/ (f \in I /\ f # 0 /\ \A j \in I : f <= j)
<1>1. CASE I = {}
  BY <1>1
<1>2. CASE I # {}
  <2>1. I \in SUBSET Nat /\ 0 \notin I
    OBVIOUS
  <2>2. PICK k \in I : \A j \in I : k <= j
    BY <1>2, <2>1, LeastNat
  <2>3. f \in I /\ \A j \in I : f <= j
    BY <1>2, <2>2 DEF Min
  <2> QED BY <2>1, <2>3
<1> QED BY <1>1, <1>2

\* out is list with a piece more: an element is as it was, or is the one with
\* the piece, at the end of the text of s.
Adds(list, out, s, text, whole) ==
  /\ out \in Seq(Element)
  /\ OpenLast(out)
  /\ Text(out, s) = Text(list, s) \o text
  /\ \A r \in Socket \ {s} : Text(out, r) = Text(list, r)
  /\ \A j \in 1 .. Len(out) :
       \/ /\ j \in 1 .. Len(list) /\ out[j] = list[j]
          /\ Text(SubSeq(out, 1, j), out[j].s) = Text(SubSeq(list, 1, j), out[j].s)
       \/ /\ out[j].s = s /\ out[j].complete = whole
          /\ Text(SubSeq(out, 1, j), s) = Text(list, s) \o text

\* A piece that becomes a new element.
LEMMA AddsApart ==
  ASSUME NEW list \in Seq(Element), OpenLast(list), NEW m \in Element,
         \A i \in 1 .. Len(list) : list[i].s = m.s => list[i].complete
  PROVE  Adds(list, Append(list, m), m.s, m.message, m.complete)
<1> DEFINE out == Append(list, m)
<1>1. /\ out \in Seq(Element) /\ Len(out) = Len(list) + 1 /\ out[Len(list) + 1] = m
      /\ \A i \in 1 .. Len(list) : out[i] = list[i]
      /\ Len(list) \in Nat
  BY AppendProperties, LenProperties
<1>2. /\ SubSeq(out, 1, Len(list) + 1) = out
      /\ \A k \in 1 .. Len(list) : SubSeq(out, 1, k) = SubSeq(list, 1, k)
  BY AppendPrefix
<1>3. \A r \in Socket : Text(out, r) = Text(list, r) \o Part(m, r)
  BY TextAppend
<1>4. m.s \in Socket /\ Part(m, m.s) = m.message
  BY DEF Element, Part
<1>5. ASSUME NEW r \in Socket \ {m.s} PROVE Text(out, r) = Text(list, r)
  <2>1. Part(m, r) = <<>> /\ Text(list, r) \o <<>> = Text(list, r)
    BY TextType, ConcatEmptySeq DEF Part
  <2> QED BY <1>3, <2>1
<1>6. Text(out, m.s) = Text(list, m.s) \o m.message
  BY <1>3, <1>4
<1> HIDE DEF out
<1>7. OpenLast(out)
  <2> SUFFICES ASSUME NEW i \in 1 .. Len(out), NEW j \in 1 .. Len(out), i < j, out[i].s = out[j].s
               PROVE  out[i].complete
    BY DEF OpenLast
  <2>1. i \in 1 .. Len(list) /\ out[i] = list[i]
    BY <1>1
  <2>2. CASE j = Len(list) + 1
    BY <1>1, <2>1, <2>2
  <2>3. CASE j # Len(list) + 1
    <3>1. j \in 1 .. Len(list) /\ out[j] = list[j]
      BY <1>1, <2>3
    <3> QED BY <2>1, <3>1 DEF OpenLast
  <2> QED BY <2>2, <2>3
<1>8. ASSUME NEW j \in 1 .. Len(out)
      PROVE  \/ /\ j \in 1 .. Len(list) /\ out[j] = list[j]
                /\ Text(SubSeq(out, 1, j), out[j].s) = Text(SubSeq(list, 1, j), out[j].s)
             \/ /\ out[j].s = m.s /\ out[j].complete = m.complete
                /\ Text(SubSeq(out, 1, j), m.s) = Text(list, m.s) \o m.message
  <2>1. CASE j = Len(list) + 1
    BY <1>1, <1>2, <1>6, <2>1
  <2>2. CASE j # Len(list) + 1
    <3>1. j \in 1 .. Len(list)
      BY <1>1, <2>2
    <3> QED BY <1>1, <1>2, <3>1
  <2> QED BY <2>1, <2>2
<1>9. Adds(list, out, m.s, m.message, m.complete)
  BY <1>1, <1>5, <1>6, <1>7, <1>8 DEF Adds
<1> QED BY <1>9 DEF out

\* A piece that goes to the incomplete element of its socket, at i.
LEMMA AddsThere ==
  ASSUME NEW list \in Seq(Element), OpenLast(list), NEW i \in 1 .. Len(list), ~list[i].complete,
         NEW m \in Element, NEW text \in Seq(Byte), m.s = list[i].s,
         m.message = list[i].message \o text, NEW out \in Seq(Element), Len(out) = Len(list),
         out[i] = m, \A k \in 1 .. Len(list) : k # i => out[k] = list[k]
  PROVE  Adds(list, out, m.s, text, m.complete)
<1> DEFINE pre == SubSeq(list, 1, i - 1)
           post == SubSeq(list, i + 1, Len(list))
           s == m.s
<1>1. Len(list) \in Nat /\ i - 1 \in 0 .. Len(list) /\ i \in 0 .. Len(list)
  BY LenProperties
<1>2. /\ pre \in Seq(Element) /\ post \in Seq(Element) /\ list[i] \in Element
      /\ SubSeq(list, 1, i) = Append(pre, list[i])
      /\ list = Append(pre, list[i]) \o post
  <2>1. \A k \in 1 .. Len(list) :
          /\ SubSeq(list, 1, k - 1) \in Seq(Element) /\ SubSeq(list, k + 1, Len(list)) \in Seq(Element)
          /\ list[k] \in Element
          /\ SubSeq(list, 1, k) = Append(SubSeq(list, 1, k - 1), list[k])
          /\ list = Append(SubSeq(list, 1, k - 1), list[k]) \o SubSeq(list, k + 1, Len(list))
    BY CutAround
  <2> QED BY <2>1, Zenon
<1>3. ASSUME NEW k \in (i + 1) .. Len(list) PROVE list[k].s # s
  <2>1. k \in 1 .. Len(list) /\ i < k
    BY <1>1
  <2> QED BY <2>1 DEF OpenLast
<1>4. Text(post, s) = <<>>
  <2>1. Len(post) = Len(list) - i /\ \A k \in 1 .. (Len(list) - i) : post[k] = list[i + k]
    BY <1>1, Cut
  <2> HIDE DEF post, s
  <2>2. ASSUME NEW k \in 1 .. Len(post) PROVE post[k].s # s
    <3>1. i + k \in (i + 1) .. Len(list) /\ k \in 1 .. (Len(list) - i)
      BY <1>1, <2>1
    <3> QED BY <1>3, <2>1, <3>1
  <2> QED BY <1>2, <2>2, TextOfOthers
<1>5. SubSeq(out, 1, i - 1) = pre /\ SubSeq(out, 1, i) = Append(pre, m)
  <2>1. i \in 1 .. Len(out) /\ i - 1 \in Nat /\ i - 1 <= Len(list)
    BY <1>1
  <2>2. \A k \in 1 .. (i - 1) : out[k] = list[k]
    BY <1>1
  <2>3. SubSeq(out, 1, i - 1) = pre
    BY <2>1, <2>2, SamePrefix
  <2>4. SubSeq(out, 1, i) = Append(SubSeq(out, 1, i - 1), out[i])
    BY <2>1, CutAround
  <2> QED BY <2>3, <2>4
<1>6. out = SubSeq(out, 1, i) \o post
  <2>1. i \in 0 .. Len(out)
    BY <1>1
  <2>2. \A k \in (i + 1) .. Len(out) : out[k] = list[k]
    BY <1>1
  <2>3. SubSeq(out, i + 1, Len(out)) = post
    BY <2>1, <2>2, SameSuffix
  <2>4. SubSeq(out, 1, i) \o SubSeq(out, i + 1, Len(out)) = out
    BY <2>1, Cut
  <2> QED BY <2>3, <2>4
<1> HIDE DEF pre, post
<1>7. m.s \in Socket /\ Part(m, s) = list[i].message \o text /\ Part(list[i], s) = list[i].message
  BY DEF Element, Part
<1>8. list[i].message \in Seq(Byte) /\ Text(pre, s) \in Seq(Byte)
  BY <1>2, TextType DEF Element, Byte
<1>9. Text(list, s) = Text(pre, s) \o list[i].message
  <2>1. Append(pre, list[i]) \in Seq(Element)
        /\ Text(Append(pre, list[i]), s) = Text(pre, s) \o Part(list[i], s)
    BY <1>2, TextAppend
  <2>2. Text(Append(pre, list[i]) \o post, s) = Text(Append(pre, list[i]), s) \o Text(post, s)
    BY <1>2, <2>1, TextConcat
  <2>3. Text(Append(pre, list[i]), s) \o <<>> = Text(Append(pre, list[i]), s)
    BY <2>1, TextType, ConcatEmptySeq
  <2>4. Text(Append(pre, list[i]) \o post, s) = Text(pre, s) \o list[i].message
    BY <1>4, <1>7, <2>1, <2>2, <2>3
  <2> QED BY <1>2, <2>4, Zenon
<1>10. Text(SubSeq(out, 1, i), s) = Text(list, s) \o text
  <2>1. Text(SubSeq(out, 1, i), s) = Text(pre, s) \o Part(m, s)
    <3>1. Text(Append(pre, m), s) = Text(pre, s) \o Part(m, s)
      BY <1>2, TextAppend
    <3> QED BY <1>5, <3>1, Zenon
  <2>2. \A x, y, z \in Seq(Byte) : (x \o y) \o z = x \o (y \o z)
    BY TextsAssociative
  <2>3. (Text(pre, s) \o list[i].message) \o text = Text(pre, s) \o (list[i].message \o text)
    BY <1>8, <2>2, Zenon
  <2> QED BY <1>7, <1>9, <2>1, <2>3
<1>11. Text(out, s) = Text(list, s) \o text
  <2>1. SubSeq(out, 1, i) \in Seq(Element)
    BY <1>2, <1>5, AppendProperties
  <2>2. Text(SubSeq(out, 1, i) \o post, s) = Text(SubSeq(out, 1, i), s) \o Text(post, s)
    BY <1>2, <2>1, TextConcat
  <2>3. Text(SubSeq(out, 1, i), s) \o <<>> = Text(SubSeq(out, 1, i), s)
    BY <2>1, TextType, ConcatEmptySeq
  <2>4. Text(SubSeq(out, 1, i) \o post, s) = Text(list, s) \o text
    BY <1>4, <1>10, <2>2, <2>3
  <2> QED BY <1>6, <2>4
<1>12. ASSUME NEW r \in Socket \ {s}, NEW j \in 0 .. Len(list)
       PROVE  Text(SubSeq(out, 1, j), r) = Text(SubSeq(list, 1, j), r)
  <2>1. \A k \in 1 .. Len(list) : Part(out[k], r) = Part(list[k], r)
    <3>1. Part(out[i], r) = Part(list[i], r)
      BY DEF Part
    <3> QED BY <3>1
  <2>2. /\ SubSeq(out, 1, j) \in Seq(Element) /\ Len(SubSeq(out, 1, j)) = j
        /\ \A k \in 1 .. j : SubSeq(out, 1, j)[k] = out[k]
        /\ SubSeq(list, 1, j) \in Seq(Element) /\ Len(SubSeq(list, 1, j)) = j
        /\ \A k \in 1 .. j : SubSeq(list, 1, j)[k] = list[k]
    BY Cut
  <2>3. \A k \in 1 .. j : k \in 1 .. Len(list)
    BY <1>1
  <2>4. \A k \in 1 .. Len(SubSeq(out, 1, j)) :
          Part(SubSeq(out, 1, j)[k], r) = Part(SubSeq(list, 1, j)[k], r)
    BY <2>1, <2>2, <2>3
  <2>5. Len(SubSeq(out, 1, j)) = Len(SubSeq(list, 1, j))
    BY <2>2
  <2> QED BY <2>2, <2>4, <2>5, TextSame
<1>13. ASSUME NEW r \in Socket \ {s} PROVE Text(out, r) = Text(list, r)
  <2>1. SubSeq(out, 1, Len(list)) = out /\ SubSeq(list, 1, Len(list)) = list /\ Len(list) \in 0 .. Len(list)
    BY <1>1, SubSeqFull
  <2> QED BY <1>12, <2>1
<1>14. OpenLast(out)
  <2> SUFFICES ASSUME NEW a \in 1 .. Len(out), NEW b \in 1 .. Len(out), a < b, out[a].s = out[b].s
               PROVE  out[a].complete
    BY DEF OpenLast
  <2>1. out[a].s = list[a].s /\ out[b].s = list[b].s
    OBVIOUS
  <2>2. list[a].complete
    BY <2>1 DEF OpenLast
  <2>3. a # i
    BY <2>2
  <2> QED BY <2>2, <2>3
<1>15. ASSUME NEW j \in 1 .. Len(out)
       PROVE  \/ /\ j \in 1 .. Len(list) /\ out[j] = list[j]
                 /\ Text(SubSeq(out, 1, j), out[j].s) = Text(SubSeq(list, 1, j), out[j].s)
              \/ /\ out[j].s = s /\ out[j].complete = m.complete
                 /\ Text(SubSeq(out, 1, j), s) = Text(list, s) \o text
  <2>1. CASE j = i
    BY <1>10, <2>1
  <2>2. CASE j # i /\ out[j].s # s
    <3>1. out[j] \in Element
      BY ElementOfSeq
    <3>2. out[j].s \in Socket \ {s}
      BY <2>2, <3>1 DEF Element
    <3>3. j \in 0 .. Len(list)
      BY <1>1
    <3> QED BY <1>12, <2>2, <3>2, <3>3
  <2>3. CASE j # i /\ out[j].s = s
    <3>1. j < i
      <4>1. out[j] = list[j] /\ ~(j \in (i + 1) .. Len(list))
        BY <1>3, <2>3
      <4> QED BY <1>1, <2>3, <4>1
    <3>2. j \in Nat /\ j <= Len(out) /\ j <= Len(list) /\ \A k \in 1 .. j : out[k] = list[k]
      BY <1>1, <3>1
    <3>3. SubSeq(out, 1, j) = SubSeq(list, 1, j)
      BY <3>2, SamePrefix
    <3> QED BY <2>3, <3>3
  <2> QED BY <2>1, <2>2, <2>3
<1> QED BY <1>11, <1>13, <1>14, <1>15 DEF Adds

\* handle adds its piece in one of these two ways.
LEMMA HandleAdds ==
  ASSUME NEW list \in Seq(Element), OpenLast(list), NEW s \in Socket, NEW text \in Seq(Byte),
         text # <<>>, NEW whole \in BOOLEAN
  PROVE  Adds(list, handle(list, s, text, whole), s, text, whole)
<1> DEFINE f == SelectInSeq(list, LAMBDA m : IsOpen(s, m))
           I == {i \in 1 .. Len(list) : IsOpen(s, list[i])}
           new == [s |-> s, message |-> text, complete |-> whole]
           there == [list EXCEPT ![f] = [s |-> s, message |-> @.message \o text, complete |-> whole]]
<1>1. Len(list) \in Nat /\ \A i \in 1 .. Len(list) : list[i] \in Element
  BY LenProperties
<1>2. (I = {} /\ f = 0) \/ (f \in I /\ f # 0 /\ \A j \in I : f <= j)
  <2>1. f = IF I # {} THEN Min(I) ELSE 0
    BY DEF SelectInSeq
  <2>2. I \in SUBSET (1 .. Len(list))
    OBVIOUS
  <2> HIDE DEF f, I
  <2> QED BY <1>1, <2>1, <2>2, FirstPlace
<1>3. handle(list, s, text, whole) = IF f = 0 THEN Append(list, new) ELSE there
  BY DEF handle
<1> HIDE DEF f
<1>4. CASE f = 0
  <2>1. new \in Element /\ new.s = s /\ new.message = text /\ new.complete = whole
    BY DEF Element, Byte
  <2>2. \A i \in 1 .. Len(list) : list[i].s = s => list[i].complete
    BY <1>2, <1>4 DEF IsOpen
  <2>3. handle(list, s, text, whole) = Append(list, new)
    BY <1>3, <1>4
  <2> HIDE DEF new
  <2>4. Adds(list, Append(list, new), new.s, new.message, new.complete)
    BY <2>1, <2>2, AddsApart
  <2> QED BY <2>1, <2>3, <2>4
<1>5. CASE f # 0
  <2>1. f \in 1 .. Len(list) /\ list[f].s = s /\ ~list[f].complete
    BY <1>2, <1>5 DEF IsOpen
  <2> DEFINE old == list[f].message
             m == [s |-> s, message |-> old \o text, complete |-> whole]
  <2>2. list[f] \in Element /\ list[f] = [s |-> s, message |-> old, complete |-> list[f].complete]
    BY <1>1, <2>1 DEF Element
  <2>3. m \in Element
    <3>1. old \in Seq(Byte)
      BY <2>2 DEF Element, Byte
    <3>2. old \o text \in Seq(Byte) /\ Len(old \o text) = Len(old) + Len(text)
      BY <3>1, ConcatProperties
    <3>3. Len(text) # 0 /\ Len(text) \in Nat /\ Len(old) \in Nat
      BY <3>1, EmptySeq, LenProperties
    <3>4. Len(old \o text) # 0
      BY <3>2, <3>3
    <3>5. old \o text # <<>>
      BY <3>4, EmptySeq
    <3> HIDE DEF old
    <3> QED BY <3>2, <3>5 DEF Element, Byte
  <2>4. there = [list EXCEPT ![f] = m]
    OBVIOUS
  <2>5. m.s = s /\ m.message = old \o text /\ m.complete = whole
    OBVIOUS
  <2> HIDE DEF m, there
  <2>6. /\ there \in Seq(Element) /\ Len(there) = Len(list) /\ there[f] = m
        /\ \A k \in 1 .. Len(list) : k # f => there[k] = list[k]
    BY <1>1, <2>1, <2>3, <2>4, ExceptSeq
  <2>7. Adds(list, there, m.s, text, m.complete)
    BY <2>1, <2>3, <2>5, <2>6, AddsThere
  <2> QED BY <1>3, <1>5, <2>5, <2>7
<1> QED BY <1>4, <1>5

-----------------------------------------------------------------------------
(* What a socket's text, list and stream have to do with each other.       *)

\* What has been sent to s, the text sn with message ends at en, is the text
\* tk, that of the list and that of the bytes un, in this order; a complete
\* message ends at a message end, and so does the text before a NUL.
Agrees(s, list, tk, un, en, sn) ==
  /\ sn = (tk \o Text(list, s)) \o WithoutNul(un)
  /\ \A i \in 1 .. Len(list) : list[i].s = s /\ list[i].complete =>
       Len(tk) + Len(Text(SubSeq(list, 1, i), s)) \in en
  /\ \A i \in 1 .. Len(un) : un[i] = Nul =>
       Len(tk) + Len(Text(list, s)) + Len(WithoutNul(SubSeq(un, 1, i))) \in en

\* The text of a prefix of a list or of a stream is a text.
LEMMA PrefixTexts ==
  /\ \A list \in Seq(Element) : \A s : \A i \in 1 .. Len(list) :
       /\ Text(SubSeq(list, 1, i), s) \in Seq(Byte) /\ Len(Text(SubSeq(list, 1, i), s)) \in Nat
  /\ \A un \in Seq(Octet) : \A i \in 1 .. Len(un) :
       /\ SubSeq(un, 1, i) \in Seq(Octet)
       /\ WithoutNul(SubSeq(un, 1, i)) \in Seq(Byte) /\ Len(WithoutNul(SubSeq(un, 1, i))) \in Nat
<1>1. ASSUME NEW list \in Seq(Element), NEW s, NEW i \in 1 .. Len(list)
      PROVE  Text(SubSeq(list, 1, i), s) \in Seq(Byte) /\ Len(Text(SubSeq(list, 1, i), s)) \in Nat
  <2>1. i \in 0 .. Len(list)
    BY LenProperties
  <2> QED BY <2>1, Cut, TextType
<1>2. ASSUME NEW un \in Seq(Octet), NEW i \in 1 .. Len(un)
      PROVE  /\ SubSeq(un, 1, i) \in Seq(Octet)
             /\ WithoutNul(SubSeq(un, 1, i)) \in Seq(Byte) /\ Len(WithoutNul(SubSeq(un, 1, i))) \in Nat
  <2>1. i \in 0 .. Len(un)
    BY LenProperties
  <2> QED BY <2>1, Cut, WithoutNulType
<1> QED BY <1>1, <1>2

\* The text gone leaves the list and is taken.
LEMMA AgreesTakes ==
  ASSUME NEW list \in Seq(Element), NEW out, NEW s, NEW gone, Takes(list, out, s, gone),
         NEW tk \in Seq(Byte), NEW un \in Seq(Octet), NEW en, NEW sn, Agrees(s, list, tk, un, en, sn)
  PROVE  tk \o gone \in Seq(Byte) /\ Agrees(s, out, tk \o gone, un, en, sn)
<1>1. /\ out \in Seq(Element) /\ gone \in Seq(Byte) /\ Text(list, s) = gone \o Text(out, s)
      /\ Text(out, s) \in Seq(Byte)
  BY TextType DEF Takes, Others
<1>2. tk \o gone \in Seq(Byte) /\ Len(tk \o gone) = Len(tk) + Len(gone)
  BY <1>1, Places
<1>3. ASSUME NEW t \in Seq(Byte)
      PROVE  /\ tk \o (gone \o t) = (tk \o gone) \o t
             /\ Len(tk) + Len(gone \o t) = Len(tk \o gone) + Len(t)
             /\ Len(tk \o gone) \in Nat /\ Len(tk) \in Nat /\ Len(gone \o t) \in Nat /\ Len(t) \in Nat
  <2>1. Len(gone \o t) = Len(gone) + Len(t) /\ gone \o t \in Seq(Byte)
    BY <1>1, Places
  <2>2. Len(tk) \in Nat /\ Len(gone) \in Nat /\ Len(t) \in Nat
    BY <1>1, LenProperties
  <2>3. tk \o (gone \o t) = (tk \o gone) \o t
    BY <1>1, TextsAssociative, Zenon
  <2> QED BY <1>2, <2>1, <2>2, <2>3
<1>4. sn = ((tk \o gone) \o Text(out, s)) \o WithoutNul(un)
  <2>1. sn = (tk \o (gone \o Text(out, s))) \o WithoutNul(un)
    BY <1>1 DEF Agrees
  <2>2. tk \o (gone \o Text(out, s)) = (tk \o gone) \o Text(out, s)
    BY <1>1, <1>3, Zenon
  <2> QED BY <2>1, <2>2
<1>5. ASSUME NEW i \in 1 .. Len(out), out[i].s = s, out[i].complete
      PROVE  Len(tk \o gone) + Len(Text(SubSeq(out, 1, i), s)) \in en
  <2>1. PICK k \in 1 .. Len(list) :
          out[i] = list[k] /\ Text(SubSeq(list, 1, k), s) = gone \o Text(SubSeq(out, 1, i), s)
    BY <1>5 DEF Takes
  <2>2. Len(tk) + Len(Text(SubSeq(list, 1, k), s)) \in en
    BY <1>5, <2>1 DEF Agrees
  <2>3. Text(SubSeq(out, 1, i), s) \in Seq(Byte)
    BY <1>1, PrefixTexts
  <2>4. Len(tk) + Len(gone \o Text(SubSeq(out, 1, i), s)) = Len(tk \o gone) + Len(Text(SubSeq(out, 1, i), s))
    BY <1>3, <2>3
  <2> QED BY <2>1, <2>2, <2>4, Zenon
<1>6. ASSUME NEW i \in 1 .. Len(un), un[i] = Nul
      PROVE  Len(tk \o gone) + Len(Text(out, s)) + Len(WithoutNul(SubSeq(un, 1, i))) \in en
  <2>1. Len(tk) + Len(Text(list, s)) + Len(WithoutNul(SubSeq(un, 1, i))) \in en
    BY <1>6 DEF Agrees
  <2>2. Len(tk) + Len(gone \o Text(out, s)) = Len(tk \o gone) + Len(Text(out, s))
    BY <1>1, <1>3
  <2> QED BY <1>1, <2>1, <2>2
<1> QED BY <1>2, <1>4, <1>5, <1>6 DEF Agrees

\* Elements of another socket go.
LEMMA AgreesOthers ==
  ASSUME NEW list \in Seq(Element), NEW out, NEW s, Others(list, out, s), NEW r \in Socket \ {s},
         NEW tk, NEW un, NEW en, NEW sn, Agrees(r, list, tk, un, en, sn)
  PROVE  Agrees(r, out, tk, un, en, sn)
<1>1. Text(out, r) = Text(list, r)
  BY DEF Others
<1>2. ASSUME NEW i \in 1 .. Len(out), out[i].s = r, out[i].complete
      PROVE  Len(tk) + Len(Text(SubSeq(out, 1, i), r)) \in en
  <2>1. PICK k \in 1 .. Len(list) :
          out[i] = list[k] /\ Text(SubSeq(list, 1, k), r) = Text(SubSeq(out, 1, i), r)
    BY <1>2 DEF Others
  <2>2. Len(tk) + Len(Text(SubSeq(list, 1, k), r)) \in en
    BY <1>2, <2>1 DEF Agrees
  <2> QED BY <2>1, <2>2
<1> QED BY <1>1, <1>2 DEF Agrees

\* The bytes front leave the stream, and their text is added to the list.
LEMMA AgreesMoves ==
  ASSUME NEW list \in Seq(Element), NEW out \in Seq(Element), NEW s, NEW tk \in Seq(Byte),
         NEW front \in Seq(Octet), NEW back \in Seq(Octet), NEW en, NEW sn,
         Agrees(s, list, tk, front \o back, en, sn),
         Text(out, s) = Text(list, s) \o WithoutNul(front),
         \A j \in 1 .. Len(out) : out[j].s = s =>
           \/ /\ j \in 1 .. Len(list) /\ out[j] = list[j]
              /\ Text(SubSeq(out, 1, j), s) = Text(SubSeq(list, 1, j), s)
           \/ /\ out[j].complete => Len(front) \in 1 .. Len(front) /\ front[Len(front)] = Nul
              /\ Text(SubSeq(out, 1, j), s) = Text(list, s) \o WithoutNul(front)
  PROVE  Agrees(s, out, tk, back, en, sn)
<1> DEFINE T == Text(list, s)
           w == WithoutNul(front)
<1>1. /\ T \in Seq(Byte) /\ w \in Seq(Byte) /\ T \o w \in Seq(Byte)
      /\ Len(T \o w) = Len(T) + Len(w)
      /\ Len(T) \in Nat /\ Len(w) \in Nat /\ Len(tk) \in Nat
  BY TextType, WithoutNulType, Places, LenProperties
<1>2. /\ front \o back \in Seq(Octet) /\ Len(front \o back) = Len(front) + Len(back)
      /\ \A i \in 1 .. Len(front) : (front \o back)[i] = front[i]
      /\ \A i \in 1 .. Len(back) : (front \o back)[Len(front) + i] = back[i]
      /\ Len(front) \in Nat /\ Len(back) \in Nat
  BY Places, LenProperties
<1> HIDE DEF T, w
<1>3. sn = (tk \o (T \o w)) \o WithoutNul(back)
  <2>1. sn = (tk \o T) \o WithoutNul(front \o back)
    BY DEF Agrees, T
  <2>2. WithoutNul(front \o back) = w \o WithoutNul(back) /\ WithoutNul(back) \in Seq(Byte)
    BY WithoutNulConcat, WithoutNulType DEF w
  <2>3. tk \o T \in Seq(Byte)
    BY <1>1, Places
  <2>4. (tk \o T) \o (w \o WithoutNul(back)) = ((tk \o T) \o w) \o WithoutNul(back)
    BY <1>1, <2>2, <2>3, TextsAssociative, Zenon
  <2>5. (tk \o T) \o w = tk \o (T \o w)
    BY <1>1, TextsAssociative, Zenon
  <2> QED BY <2>1, <2>2, <2>4, <2>5, Zenon
<1>4. ASSUME NEW i \in 1 .. Len(front), front[i] = Nul
      PROVE  Len(tk) + Len(T) + Len(WithoutNul(SubSeq(front, 1, i))) \in en
  <2>1. i \in 1 .. Len(front \o back) /\ (front \o back)[i] = Nul /\ i \in 0 .. Len(front)
    BY <1>2, <1>4
  <2>2. SubSeq(front \o back, 1, i) = SubSeq(front, 1, i)
    BY <2>1, ConcatPrefix
  <2>3. Len(tk) + Len(T) + Len(WithoutNul(SubSeq(front \o back, 1, i))) \in en
    BY <2>1 DEF Agrees, T
  <2> QED BY <2>2, <2>3
<1>5. ASSUME NEW j \in 1 .. Len(out), out[j].s = s, out[j].complete
      PROVE  Len(tk) + Len(Text(SubSeq(out, 1, j), s)) \in en
  <2>1. CASE /\ j \in 1 .. Len(list) /\ out[j] = list[j]
             /\ Text(SubSeq(out, 1, j), s) = Text(SubSeq(list, 1, j), s)
    BY <1>5, <2>1 DEF Agrees
  <2>2. CASE /\ Len(front) \in 1 .. Len(front) /\ front[Len(front)] = Nul
             /\ Text(SubSeq(out, 1, j), s) = T \o w
    <3>1. SubSeq(front, 1, Len(front)) = front
      BY SubSeqFull
    <3>2. Len(tk) + Len(T) + Len(w) \in en
      BY <1>4, <2>2, <3>1 DEF w
    <3>3. Len(tk) + Len(T \o w) = Len(tk) + Len(T) + Len(w)
      BY <1>1
    <3> QED BY <2>2, <3>2, <3>3
  <2> QED BY <1>5, <2>1, <2>2 DEF T, w
<1>6. ASSUME NEW i \in 1 .. Len(back), back[i] = Nul
      PROVE  Len(tk) + Len(Text(out, s)) + Len(WithoutNul(SubSeq(back, 1, i))) \in en
  <2>1. Len(front) + i \in 1 .. Len(front \o back) /\ (front \o back)[Len(front) + i] = Nul /\ i \in 0 .. Len(back)
    BY <1>2, <1>6
  <2>2. Len(tk) + Len(T) + Len(WithoutNul(SubSeq(front \o back, 1, Len(front) + i))) \in en
    BY <2>1 DEF Agrees, T
  <2>3. SubSeq(front \o back, 1, Len(front) + i) = front \o SubSeq(back, 1, i)
    BY <2>1, StreamPrefix, Zenon
  <2> DEFINE b == SubSeq(back, 1, i)
  <2>4. b \in Seq(Octet) /\ WithoutNul(b) \in Seq(Byte) /\ Len(WithoutNul(b)) \in Nat
    BY PrefixTexts
  <2> HIDE DEF b
  <2>5. WithoutNul(front \o b) = w \o WithoutNul(b)
    BY <2>4, WithoutNulConcat, Zenon DEF w
  <2>6. Len(w \o WithoutNul(b)) = Len(w) + Len(WithoutNul(b))
    BY <1>1, <2>4, Places
  <2>7. Len(tk) + Len(T) + (Len(w) + Len(WithoutNul(b))) = Len(tk) + Len(T \o w) + Len(WithoutNul(b))
    BY <1>1, <2>4
  <2>8. Len(tk) + Len(T) + Len(WithoutNul(front \o b)) \in en
    BY <2>2, <2>3 DEF b
  <2>9. Text(out, s) = T \o w
    BY DEF T, w
  <2> QED BY <2>5, <2>6, <2>7, <2>8, <2>9 DEF b
<1>7. Text(out, s) = T \o w
  BY DEF T, w
<1> QED BY <1>3, <1>5, <1>6, <1>7 DEF Agrees

\* More bytes are sent.
LEMMA AgreesMore ==
  ASSUME NEW list \in Seq(Element), NEW s, NEW tk \in Seq(Byte), NEW un \in Seq(Octet),
         NEW more \in Seq(Octet), NEW en, NEW sn, Agrees(s, list, tk, un, en, sn),
         NEW en2, en \subseteq en2,
         \A i \in 1 .. Len(more) : more[i] = Nul =>
           Len(sn) + Len(WithoutNul(SubSeq(more, 1, i))) \in en2
  PROVE  Agrees(s, list, tk, un \o more, en2, sn \o WithoutNul(more))
<1> DEFINE T == Text(list, s)
           w == WithoutNul(un)
<1>1. /\ T \in Seq(Byte) /\ w \in Seq(Byte) /\ tk \o T \in Seq(Byte)
      /\ Len(tk \o T) = Len(tk) + Len(T)
      /\ Len(T) \in Nat /\ Len(w) \in Nat /\ Len(tk) \in Nat
  BY TextType, WithoutNulType, Places, LenProperties
<1>2. /\ un \o more \in Seq(Octet) /\ Len(un \o more) = Len(un) + Len(more)
      /\ \A i \in 1 .. Len(un) : (un \o more)[i] = un[i]
      /\ \A i \in 1 .. Len(more) : (un \o more)[Len(un) + i] = more[i]
      /\ Len(un) \in Nat /\ Len(more) \in Nat
  BY Places, LenProperties
<1> HIDE DEF T, w
<1>3. sn = (tk \o T) \o w /\ Len(sn) = Len(tk) + Len(T) + Len(w)
  <2>1. sn = (tk \o T) \o w
    BY DEF Agrees, T, w
  <2>2. Len((tk \o T) \o w) = Len(tk \o T) + Len(w)
    BY <1>1, Places
  <2> QED BY <1>1, <2>1, <2>2
<1>4. sn \o WithoutNul(more) = (tk \o T) \o WithoutNul(un \o more)
  <2>1. WithoutNul(un \o more) = w \o WithoutNul(more) /\ WithoutNul(more) \in Seq(Byte)
    BY WithoutNulConcat, WithoutNulType DEF w
  <2>2. (tk \o T) \o (w \o WithoutNul(more)) = ((tk \o T) \o w) \o WithoutNul(more)
    BY <1>1, <2>1, TextsAssociative, Zenon
  <2> QED BY <1>3, <2>1, <2>2, Zenon
<1>5. ASSUME NEW i \in 1 .. Len(un \o more), (un \o more)[i] = Nul
      PROVE  Len(tk) + Len(T) + Len(WithoutNul(SubSeq(un \o more, 1, i))) \in en2
  <2>1. CASE i \in 1 .. Len(un)
    <3>1. un[i] = Nul /\ i \in 0 .. Len(un)
      BY <1>2, <1>5, <2>1
    <3>2. SubSeq(un \o more, 1, i) = SubSeq(un, 1, i)
      BY <3>1, ConcatPrefix
    <3>3. Len(tk) + Len(T) + Len(WithoutNul(SubSeq(un, 1, i))) \in en
      BY <2>1, <3>1 DEF Agrees, T
    <3> QED BY <3>2, <3>3
  <2>2. CASE i \notin 1 .. Len(un)
    <3> DEFINE k == i - Len(un)
               b == SubSeq(more, 1, k)
    <3>1. k \in 1 .. Len(more) /\ k \in 0 .. Len(more) /\ Len(un) + k = i
      BY <1>2, <2>2
    <3> HIDE DEF k
    <3>2. SubSeq(un \o more, 1, i) = un \o b /\ more[k] = Nul
      <4>1. (un \o more)[Len(un) + k] = more[k]
        BY <1>2, <3>1
      <4>2. SubSeq(un \o more, 1, Len(un) + k) = un \o b
        BY <1>2, <3>1, StreamPrefix, Zenon
      <4> QED BY <1>5, <3>1, <4>1, <4>2
    <3>3. b \in Seq(Octet) /\ WithoutNul(b) \in Seq(Byte) /\ Len(WithoutNul(b)) \in Nat
      BY <3>1, PrefixTexts
    <3>4. Len(sn) + Len(WithoutNul(b)) \in en2
      BY <3>1, <3>2
    <3> HIDE DEF b
    <3>5. WithoutNul(un \o b) = w \o WithoutNul(b)
      BY <3>3, WithoutNulConcat, Zenon DEF w
    <3>6. Len(w \o WithoutNul(b)) = Len(w) + Len(WithoutNul(b))
      BY <1>1, <3>3, Places
    <3>7. Len(tk) + Len(T) + (Len(w) + Len(WithoutNul(b))) = Len(sn) + Len(WithoutNul(b))
      BY <1>1, <1>3, <3>3
    <3> QED BY <3>2, <3>4, <3>5, <3>6, <3>7
  <2> QED BY <2>1, <2>2
<1>6. ASSUME NEW i \in 1 .. Len(list), list[i].s = s, list[i].complete
      PROVE  Len(tk) + Len(Text(SubSeq(list, 1, i), s)) \in en2
  BY <1>6 DEF Agrees
<1> QED BY <1>4, <1>5, <1>6 DEF Agrees, T

-----------------------------------------------------------------------------
(* The invariant.                                                          *)

\* No more is sent than the messages can hold.
SentBounded == \A s \in Socket : Len(sent[s]) <= messages * MaxLen

\* Every socket that has not ended agrees with what was sent to it.
Sound == \A s \in Socket \ eof : Agrees(s, the_list, taken[s], Unread(s), ends[s], sent[s])

Inv == TypeOK /\ SentBounded /\ OpenLast(the_list) /\ Sound

\* It holds at the start.
LEMMA InitInv == Init => Inv
<1> SUFFICES ASSUME Init PROVE Inv
  OBVIOUS
<1>1. <<>> \in Seq(Element) /\ <<>> \in Seq(Byte) /\ <<>> \in Seq(Octet) /\ Len(<<>>) = 0
  BY EmptySeq
<1>2. MaxMessages \in Nat /\ MaxLen \in Nat /\ 0 * MaxLen = 0
  BY MessagesAssumption
<1>3. TypeOK
  BY <1>1, <1>2 DEF Init, TypeOK, Byte, Octet
<1>4. SentBounded
  BY <1>1, <1>2 DEF Init, SentBounded
<1>5. OpenLast(the_list)
  BY <1>1 DEF Init, OpenLast
<1>6. ASSUME NEW s \in Socket PROVE Agrees(s, the_list, taken[s], Unread(s), ends[s], sent[s])
  <2>1. <<>> \o <<>> = <<>>
    BY <1>1, ConcatEmptySeq
  <2>2. the_list = <<>> /\ taken[s] = <<>> /\ Unread(s) = <<>> /\ sent[s] = <<>>
    BY <2>1 DEF Init, Unread
  <2>3. Text(<<>>, s) = <<>> /\ WithoutNul(<<>>) = <<>>
    BY TextEmpty, WithoutNulEmpty
  <2>4. \A i \in 1 .. Len(<<>>) : FALSE
    BY <1>1
  <2> QED BY <2>1, <2>2, <2>3, <2>4 DEF Agrees
<1> QED BY <1>3, <1>4, <1>5, <1>6 DEF Inv, Sound

\* It says what the invariants of the model say.
LEMMA InvImplies == Inv => InOrder /\ OneOpenAndLast /\ CompleteEndsMessage
<1> SUFFICES ASSUME Inv PROVE InOrder /\ OneOpenAndLast /\ CompleteEndsMessage
  OBVIOUS
<1>1. InOrder
  BY DEF Inv, Sound, Agrees, InOrder
<1>2. OneOpenAndLast
  BY DEF Inv, OpenLast, OneOpenAndLast
<1>3. CompleteEndsMessage
  <2> SUFFICES ASSUME NEW i \in 1 .. Len(the_list), the_list[i].complete, the_list[i].s \notin eof
               PROVE  Len(taken[the_list[i].s]) + Len(Text(SubSeq(the_list, 1, i), the_list[i].s))
                        \in ends[the_list[i].s]
    BY DEF CompleteEndsMessage
  <2>1. the_list[i] \in Element
    BY ElementOfSeq DEF Inv, TypeOK
  <2>2. the_list[i].s \in Socket \ eof
    BY <2>1 DEF Element
  <2> QED BY <2>2 DEF Inv, Sound, Agrees
<1> QED BY <1>1, <1>2, <1>3

\* Unread, of any call, buffer and stream.
Unseen(c, b, st, s) == (IF c.op \in {"incoming", "get", "empty"} /\ c.s = s THEN b ELSE <<>>) \o st[s]

\* It is Unread.
LEMMA UnreadUnseen ==
  ASSUME NEW s
  PROVE  /\ Unread(s) = Unseen(call, buffer, stream, s)
         /\ Unread(s)' = Unseen(call', buffer', stream', s)
  BY DEF Unread, Unseen, Reading

\* The buffer is in front of the stream of the socket that is read.
LEMMA UnseenIs ==
  ASSUME NEW c, NEW b \in Seq(Octet), NEW st \in [Socket -> Seq(Octet)], NEW s \in Socket
  PROVE  /\ Unseen(c, b, st, s) \in Seq(Octet)
         /\ b = <<>> => Unseen(c, b, st, s) = st[s]
         /\ c.s # s => Unseen(c, b, st, s) = st[s]
         /\ c.op \in {"incoming", "get", "empty"} /\ c.s = s => Unseen(c, b, st, s) = b \o st[s]
<1> DEFINE front == IF c.op \in {"incoming", "get", "empty"} /\ c.s = s THEN b ELSE <<>>
<1>1. st[s] \in Seq(Octet) /\ <<>> \in Seq(Octet) /\ <<>> \o st[s] = st[s]
  BY EmptySeq, ConcatEmptySeq
<1>2. front \in Seq(Octet)
  BY <1>1
<1>3. /\ b = <<>> => front = <<>>
      /\ c.s # s => front = <<>>
      /\ c.op \in {"incoming", "get", "empty"} /\ c.s = s => front = b
  OBVIOUS
<1>4. Unseen(c, b, st, s) = front \o st[s]
  BY DEF Unseen
<1> HIDE DEF front
<1>5. front \o st[s] \in Seq(Octet)
  BY <1>1, <1>2, Places
<1>6. front = <<>> => Unseen(c, b, st, s) = st[s]
  BY <1>1, <1>4, Zenon
<1>7. front = b => Unseen(c, b, st, s) = b \o st[s]
  BY <1>4, Zenon
<1> QED BY <1>3, <1>4, <1>5, <1>6, <1>7, Zenon

\* What a call is for.
LEMMA InCall ==
  ASSUME TypeOK
  PROVE  /\ Reading => call \in [op : Ops, s : Socket] /\ call.s \in Socket
         /\ ~Reading => buffer = <<>>
         /\ Idle.op = "idle" /\ Exited.op = "exited"
<1>1. Idle.op = "idle" /\ Exited.op = "exited"
  BY DEF Idle, Exited
<1>2. call \in {Idle, Exited} \cup [op : Ops, s : Socket]
  BY DEF TypeOK
<1>3. ASSUME Reading PROVE call \in [op : Ops, s : Socket]
  BY <1>1, <1>2, <1>3 DEF Reading
<1>4. ASSUME ~Reading PROVE buffer = <<>>
  BY <1>4 DEF TypeOK
<1> QED BY <1>1, <1>3, <1>4

\* A step that leaves the list, its text and what is unread as they are.
LEMMA QuietStep ==
  ASSUME Inv, TypeOK', UNCHANGED <<the_list, eof, messages, sent, ends, taken>>,
         \A s \in Socket : Unread(s)' = Unread(s)
  PROVE  Inv'
<1>1. SentBounded' /\ OpenLast(the_list')
  BY DEF Inv, SentBounded
<1>2. ASSUME NEW s \in Socket \ eof'
      PROVE  Agrees(s, the_list', taken'[s], Unread(s)', ends'[s], sent'[s])
  <2>1. Agrees(s, the_list, taken[s], Unread(s), ends[s], sent[s])
    BY <1>2 DEF Inv, Sound
  <2> QED BY <2>1
<1>3. Sound'
  BY <1>2 DEF Sound
<1> QED BY <1>1, <1>3 DEF Inv

\* A step that does not touch the stream, with no bytes in the buffer.
LEMMA UnreadStays ==
  ASSUME Inv, TypeOK', buffer = <<>>, buffer' = <<>>, stream' = stream
  PROVE  \A s \in Socket : Unread(s)' = Unread(s)
<1>1. /\ buffer \in Seq(Octet) /\ stream \in [Socket -> Seq(Octet)]
      /\ buffer' \in Seq(Octet) /\ stream' \in [Socket -> Seq(Octet)]
  BY DEF Inv, TypeOK, Octet
<1>2. ASSUME NEW s \in Socket PROVE Unread(s)' = Unread(s)
  <2>1. Unseen(call, buffer, stream, s) = stream[s]
    BY <1>1, UnseenIs
  <2>2. Unseen(call', buffer', stream', s) = stream'[s]
    BY <1>1, UnseenIs
  <2> QED BY <2>1, <2>2, UnreadUnseen
<1> QED BY <1>2

\* A step that takes the text gone of s from the list.
LEMMA TakingStep ==
  ASSUME Inv, TypeOK', NEW s \in Socket, NEW gone, Takes(the_list, the_list', s, gone),
         taken' = [taken EXCEPT ![s] = @ \o gone],
         UNCHANGED <<eof, messages, sent, ends>>, \A r \in Socket : Unread(r)' = Unread(r)
  PROVE  Inv'
<1>1. /\ the_list \in Seq(Element) /\ taken \in [Socket -> Seq(Byte)]
      /\ buffer \in Seq(Octet) /\ stream \in [Socket -> Seq(Octet)]
  BY Zenon DEF Inv, TypeOK, Byte, Octet
<1>2. SentBounded' /\ OpenLast(the_list')
  BY DEF Inv, SentBounded, Takes, Others
<1>3. ASSUME NEW r \in Socket \ eof'
      PROVE  Agrees(r, the_list', taken'[r], Unread(r)', ends'[r], sent'[r])
  <2>1. Agrees(r, the_list, taken[r], Unread(r), ends[r], sent[r])
    BY <1>3 DEF Inv, Sound
  <2>2. taken[r] \in Seq(Byte) /\ Unread(r) \in Seq(Octet)
    <3>1. Unseen(call, buffer, stream, r) \in Seq(Octet)
      BY <1>1, UnseenIs
    <3>2. taken[r] \in Seq(Byte)
      BY <1>1
    <3> QED BY <3>1, <3>2, UnreadUnseen
  <2>3. CASE r = s
    <3>1. Agrees(r, the_list', taken[r] \o gone, Unread(r), ends[r], sent[r])
      BY <1>1, <2>1, <2>2, <2>3, AgreesTakes
    <3>2. taken'[r] = taken[r] \o gone
      BY <1>1, <2>3
    <3> QED BY <3>1, <3>2
  <2>4. CASE r # s
    <3>1. r \in Socket \ {s} /\ taken'[r] = taken[r]
      BY <1>1, <2>4
    <3>2. Others(the_list, the_list', s)
      BY DEF Takes
    <3>3. Agrees(r, the_list', taken[r], Unread(r), ends[r], sent[r])
      BY <1>1, <2>1, <3>1, <3>2, AgreesOthers
    <3> QED BY <3>1, <3>3
  <2> QED BY <2>3, <2>4
<1>4. Sound'
  BY <1>3 DEF Sound
<1> QED BY <1>2, <1>4 DEF Inv

\* A step of a reading call keeps the types when what it writes has its types.
LEMMA ReadingTyped ==
  ASSUME TypeOK, Reading, UNCHANGED <<call, eof, closed, messages, sent, ends, taken>>,
         the_list' \in Seq(Element), buffer' \in Seq(Octet), stream' \in [Socket -> Seq(Octet)]
  PROVE  TypeOK'
<1>1. /\ buffer' \in Seq(0 .. MaxMessages)
      /\ stream' \in [Socket -> Seq(0 .. MaxMessages)]
  BY DEF Octet
<1>2. Reading'
  BY DEF Reading
<1>3. call' \in {Idle, Exited} \cup [op : Ops, s : Socket]
  BY DEF TypeOK
<1>4. closed' \in SUBSET Socket /\ eof' \in SUBSET closed' /\ messages' \in 0 .. MaxMessages
  BY DEF TypeOK
<1>5. /\ sent' \in [Socket -> Seq(1 .. MaxMessages)]
      /\ ends' \in [Socket -> SUBSET (0 .. MaxMessages * MaxLen)]
      /\ taken' \in [Socket -> Seq(1 .. MaxMessages)]
  BY Zenon DEF TypeOK
<1> QED BY <1>1, <1>2, <1>3, <1>4, <1>5, Zenon DEF TypeOK

\* A read moves bytes from the stream to the buffer.
LEMMA ReadChunkStep == Inv /\ ReadChunk => Inv'
<1> SUFFICES ASSUME Inv, ReadChunk PROVE Inv'
  OBVIOUS
<1>0. TypeOK
  BY DEF Inv
<1>1. /\ Reading /\ buffer = <<>> /\ call.s \in Socket
      /\ call.op \in {"incoming", "get", "empty"}
      /\ UNCHANGED <<the_list, call, eof, taken, closed, messages, sent, ends>>
  BY <1>0, InCall DEF ReadChunk, BufferDone, Reading
<1>2. PICK n \in 1 .. (MAXBUFF - 1) :
        /\ n <= Len(stream[call.s])
        /\ buffer' = SubSeq(stream[call.s], 1, n)
        /\ stream' = [stream EXCEPT ![call.s] = SubSeq(@, n + 1, Len(@))]
  BY DEF ReadChunk
<1> DEFINE st == stream[call.s]
<1>3. /\ stream \in [Socket -> Seq(Octet)] /\ buffer \in Seq(Octet) /\ st \in Seq(Octet)
  BY <1>0, <1>1 DEF TypeOK, Octet
<1>4. n \in 0 .. Len(st)
  BY <1>2, <1>3, LenProperties, MessagesAssumption
<1>5. /\ buffer' \in Seq(Octet) /\ SubSeq(st, n + 1, Len(st)) \in Seq(Octet)
      /\ buffer' \o SubSeq(st, n + 1, Len(st)) = st
  BY <1>2, <1>3, <1>4, Cut
<1>6. /\ stream' \in [Socket -> Seq(Octet)]
      /\ stream'[call.s] = SubSeq(st, n + 1, Len(st))
      /\ \A r \in Socket : r # call.s => stream'[r] = stream[r]
  BY <1>1, <1>2, <1>3, <1>5
<1> HIDE DEF st
<1>7. TypeOK'
  <2>1. the_list' \in Seq(Element)
    BY <1>0, <1>1 DEF TypeOK
  <2> QED BY <1>0, <1>1, <1>5, <1>6, <2>1, ReadingTyped
<1>8. ASSUME NEW r \in Socket PROVE Unread(r)' = Unread(r)
  <2>1. Unseen(call, buffer, stream, r) = stream[r]
    BY <1>1, <1>3, UnseenIs
  <2>2. CASE r = call.s
    <3>1. Unseen(call, buffer', stream', r) = buffer' \o stream'[r]
      BY <1>1, <1>5, <1>6, <2>2, UnseenIs
    <3> QED BY <1>1, <1>5, <1>6, <2>1, <2>2, <3>1, UnreadUnseen DEF st
  <2>3. CASE r # call.s
    <3>1. Unseen(call, buffer', stream', r) = stream'[r]
      BY <1>5, <1>6, <2>3, UnseenIs
    <3> QED BY <1>1, <1>6, <2>1, <2>3, <3>1, UnreadUnseen
  <2> QED BY <2>2, <2>3
<1> QED BY <1>1, <1>7, <1>8, QuietStep

\* Where the NUL is, if there is one, that ends the first piece of a buffer.
LEMMA FirstNul ==
  ASSUME NEW b \in Seq(Octet), NEW end, end = SelectInSeq(b, LAMBDA x : x = Nul)
  PROVE  \/ end = 0 /\ \A i \in 1 .. Len(b) : b[i] # Nul
         \/ end \in 1 .. Len(b) /\ b[end] = Nul /\ \A i \in 1 .. (end - 1) : b[i] # Nul
<1> DEFINE I == {i \in 1 .. Len(b) : b[i] = Nul}
<1>1. Len(b) \in Nat
  BY LenProperties
<1>2. end = IF I # {} THEN Min(I) ELSE 0
  BY DEF SelectInSeq
<1>3. (I = {} /\ end = 0) \/ (end \in I /\ end # 0 /\ \A j \in I : end <= j)
  <2>1. I \in SUBSET (1 .. Len(b))
    OBVIOUS
  <2> HIDE DEF I
  <2> QED BY <1>1, <1>2, <2>1, FirstPlace
<1>4. CASE I = {} /\ end = 0
  BY <1>4
<1>5. CASE end \in I /\ \A j \in I : end <= j
  <2>1. ASSUME NEW i \in 1 .. (end - 1) PROVE b[i] # Nul
    <3>1. i \in 1 .. Len(b) /\ ~(end <= i)
      BY <1>1, <1>5
    <3> QED BY <1>5, <3>1
  <2> QED BY <1>5, <2>1
<1> QED BY <1>3, <1>4, <1>5

\* The first NUL of the bytes b is at end, or there is none and end is 0.
NulAt(b, end) ==
  \/ end = 0 /\ \A i \in 1 .. Len(b) : b[i] # Nul
  \/ end \in 1 .. Len(b) /\ b[end] = Nul /\ \A i \in 1 .. (end - 1) : b[i] # Nul

\* front is what the piece that ends there takes from b.
PieceOf(b, end, last, front) ==
  /\ SubSeq(b, 1, last) \in Seq(Byte) /\ Len(SubSeq(b, 1, last)) = last /\ last \in Nat
  /\ WithoutNul(front) = SubSeq(b, 1, last)
  /\ SubSeq(b, last + 2, Len(b)) \in Seq(Octet)
  /\ b = front \o SubSeq(b, last + 2, Len(b))
  /\ end > 0 => Len(front) \in 1 .. Len(front) /\ front[Len(front)] = Nul

\* The bytes that TakePiece removes from a buffer: a text, and a NUL behind it
\* unless the buffer ends.
LEMMA PieceCut ==
  ASSUME NEW b \in Seq(Octet), b # <<>>, NEW end, NulAt(b, end),
         NEW last, last = IF end = 0 THEN Len(b) ELSE end - 1
  PROVE  \E front \in Seq(Octet) : PieceOf(b, end, last, front)
<1>0. SUFFICES \E front \in Seq(Octet) :
                 /\ SubSeq(b, 1, last) \in Seq(Byte) /\ Len(SubSeq(b, 1, last)) = last /\ last \in Nat
                 /\ WithoutNul(front) = SubSeq(b, 1, last)
                 /\ SubSeq(b, last + 2, Len(b)) \in Seq(Octet)
                 /\ b = front \o SubSeq(b, last + 2, Len(b))
                 /\ end > 0 => Len(front) \in 1 .. Len(front) /\ front[Len(front)] = Nul
  BY Zenon DEF PieceOf
<1>1. Len(b) \in Nat /\ Len(b) # 0
  BY EmptySeq, LenProperties
<1>2. \/ end = 0 /\ \A i \in 1 .. Len(b) : b[i] # Nul
      \/ end \in 1 .. Len(b) /\ b[end] = Nul /\ \A i \in 1 .. (end - 1) : b[i] # Nul
  BY DEF NulAt
<1>3. CASE end = 0
  <2>1. last = Len(b) /\ SubSeq(b, 1, last) = b /\ \A i \in 1 .. Len(b) : b[i] # Nul
    BY <1>2, <1>3, SubSeqFull
  <2>2. b \in Seq(Byte) /\ WithoutNul(b) = b
    BY <2>1, WithoutNulPlain
  <2>3. SubSeq(b, last + 2, Len(b)) = <<>>
    <3>1. last + 2 \in Int /\ Len(b) \in Int /\ last + 2 > Len(b)
      BY <1>1, <2>1
    <3> QED BY <3>1, SubSeqEmpty
  <2>4. b \o <<>> = b /\ <<>> \in Seq(Octet)
    BY ConcatEmptySeq, EmptySeq
  <2>5. ~(end > 0)
    BY <1>3
  <2>6. /\ SubSeq(b, 1, last) \in Seq(Byte) /\ Len(SubSeq(b, 1, last)) = last /\ last \in Nat
        /\ WithoutNul(b) = SubSeq(b, 1, last)
    BY <1>1, <2>1, <2>2
  <2>7. SubSeq(b, last + 2, Len(b)) \in Seq(Octet) /\ b = b \o SubSeq(b, last + 2, Len(b))
    BY <2>3, <2>4
  <2> QED BY <2>5, <2>6, <2>7, Zenon
<1>4. CASE end # 0
  <2> DEFINE text == SubSeq(b, 1, last)
             front == SubSeq(b, 1, end)
             rest == SubSeq(b, last + 2, Len(b))
  <2>1. /\ end \in 1 .. Len(b) /\ b[end] = Nul /\ end - 1 = last /\ last + 2 = end + 1
        /\ last \in 0 .. Len(b) /\ end \in 0 .. Len(b) /\ last \in Nat
        /\ \A i \in 1 .. last : b[i] # Nul
    <3>1. end \in 1 .. Len(b) /\ b[end] = Nul /\ \A i \in 1 .. (end - 1) : b[i] # Nul
      BY <1>2, <1>4
    <3>2. last = end - 1
      BY <1>4
    <3>3. \A i \in 1 .. last : b[i] # Nul
      BY <3>1, <3>2
    <3>4. \A x \in 1 .. Len(b) : x - 1 + 2 = x + 1 /\ x - 1 \in 0 .. Len(b) /\ x \in 0 .. Len(b) /\ x - 1 \in Nat
      BY <1>1
    <3> QED BY <3>1, <3>2, <3>3, <3>4
  <2>2. text \in Seq(Octet) /\ Len(text) = last /\ \A i \in 1 .. last : text[i] = b[i]
    BY <2>1, StreamCut, Zenon
  <2>3. text \in Seq(Byte) /\ WithoutNul(text) = text
    <3> HIDE DEF text
    <3> QED BY <2>1, <2>2, WithoutNulPlain
  <2>4. /\ front \in Seq(Octet) /\ Len(front) = end /\ (\A i \in 1 .. end : front[i] = b[i])
        /\ rest \in Seq(Octet) /\ front \o rest = b
    <3>1. SubSeq(b, end + 1, Len(b)) = rest
      BY <2>1
    <3> HIDE DEF rest
    <3> QED BY <2>1, <3>1, Cut
  <2>5. front = text \o <<Nul>>
    <3>1. front = Append(text, b[end])
      BY <2>1, CutAround
    <3>2. Append(text, Nul) = text \o <<Nul>>
      <4> HIDE DEF text
      <4>1. Nul \in Octet
        BY MessagesAssumption DEF Nul, Octet
      <4> QED BY <2>2, <4>1, AppendIsConcat
    <3> QED BY <2>1, <3>1, <3>2
  <2> HIDE DEF text, front, rest
  <2>6. WithoutNul(front) = text
    <3>1. Nul \in Octet
      BY MessagesAssumption DEF Nul, Octet
    <3>2. WithoutNul(<<Nul>>) = <<>> /\ <<Nul>> \in Seq(Octet)
      BY <3>1, WithoutNulOne DEF Letter
    <3>3. WithoutNul(text \o <<Nul>>) = WithoutNul(text) \o WithoutNul(<<Nul>>)
      BY <2>2, <3>2, WithoutNulConcat
    <3> QED BY <2>3, <2>5, <3>2, <3>3, ConcatEmptySeq
  <2>7. Len(front) \in 1 .. Len(front) /\ front[Len(front)] = Nul
    <3>1. end \in 1 .. end
      BY <2>1
    <3> QED BY <2>1, <2>4, <3>1
  <2> QED BY <2>1, <2>2, <2>3, <2>4, <2>6, <2>7 DEF text, rest
<1> QED BY <1>3, <1>4

\* A piece goes from the buffer to the list.
LEMMA TakePieceStep == Inv /\ TakePiece => Inv'
<1> SUFFICES ASSUME Inv, TakePiece PROVE Inv'
  OBVIOUS
<1> DEFINE end == SelectInSeq(buffer, LAMBDA b : b = Nul)
           last == IF end = 0 THEN Len(buffer) ELSE end - 1
           text == SubSeq(buffer, 1, last)
           c == call.s
<1>0. TypeOK /\ OpenLast(the_list)
  BY DEF Inv
<1>1. /\ Reading /\ buffer # <<>> /\ c \in Socket
      /\ call.op \in {"incoming", "get", "empty"}
      /\ UNCHANGED <<call, eof, taken, stream, closed, messages, sent, ends>>
  BY <1>0, InCall DEF TakePiece, Reading, peerVars
<1>2. /\ the_list' = IF IsPiece(last) THEN handle(the_list, c, text, IsWhole(end)) ELSE the_list
      /\ buffer' = SubSeq(buffer, last + 2, Len(buffer))
  BY DEF TakePiece
<1>3. /\ the_list \in Seq(Element) /\ taken \in [Socket -> Seq(Byte)]
      /\ buffer \in Seq(Octet) /\ stream \in [Socket -> Seq(Octet)]
  BY <1>0 DEF TypeOK, Byte, Octet
<1>4. NulAt(buffer, end)
  BY <1>3, FirstNul DEF NulAt
<1>5. last = IF end = 0 THEN Len(buffer) ELSE end - 1
  OBVIOUS
<1> HIDE DEF end, last, c
<1>6. PICK front \in Seq(Octet) : PieceOf(buffer, end, last, front)
  BY <1>1, <1>3, <1>4, <1>5, PieceCut
<1>7. /\ text \in Seq(Byte) /\ Len(text) = last /\ last \in Nat
      /\ WithoutNul(front) = text
      /\ SubSeq(buffer, last + 2, Len(buffer)) \in Seq(Octet)
      /\ buffer = front \o SubSeq(buffer, last + 2, Len(buffer))
      /\ end > 0 => Len(front) \in 1 .. Len(front) /\ front[Len(front)] = Nul
  BY <1>6, Zenon DEF PieceOf
<1> HIDE DEF text
<1>8. /\ the_list' \in Seq(Element) /\ OpenLast(the_list')
      /\ Text(the_list', c) = Text(the_list, c) \o text
      /\ \A r \in Socket \ {c} : Text(the_list', r) = Text(the_list, r)
      /\ \A j \in 1 .. Len(the_list') :
           \/ /\ j \in 1 .. Len(the_list) /\ the_list'[j] = the_list[j]
              /\ Text(SubSeq(the_list', 1, j), the_list'[j].s) = Text(SubSeq(the_list, 1, j), the_list'[j].s)
           \/ /\ the_list'[j].s = c /\ the_list'[j].complete = IsWhole(end)
              /\ Text(SubSeq(the_list', 1, j), c) = Text(the_list, c) \o text
  <2>1. CASE IsPiece(last)
    <3>1. text # <<>>
      BY <1>7, <2>1, EmptySeq DEF IsPiece
    <3>2. IsWhole(end) \in BOOLEAN
      BY DEF IsWhole
    <3>3. Adds(the_list, the_list', c, text, IsWhole(end))
      BY <1>0, <1>1, <1>2, <1>3, <1>7, <2>1, <3>1, <3>2, HandleAdds
    <3> QED BY <3>3 DEF Adds
  <2>2. CASE ~IsPiece(last)
    <3>1. text = <<>>
      BY <1>7, <2>2, EmptySeq DEF IsPiece
    <3>2. the_list' = the_list
      BY <1>2, <2>2
    <3>3. Text(the_list, c) \o <<>> = Text(the_list, c)
      BY <1>3, TextType, ConcatEmptySeq
    <3> QED BY <1>0, <1>3, <3>1, <3>2, <3>3
  <2> QED BY <2>1, <2>2
<1>9. /\ buffer' \in Seq(Octet) /\ buffer = front \o buffer'
  BY <1>2, <1>7
<1>10. TypeOK'
  <2>1. stream' \in [Socket -> Seq(Octet)]
    BY <1>1, <1>3
  <2> QED BY <1>0, <1>1, <1>8, <1>9, <2>1, ReadingTyped
<1>11. ASSUME NEW r \in Socket \ eof'
      PROVE  Agrees(r, the_list', taken'[r], Unread(r)', ends'[r], sent'[r])
  <2>1. Agrees(r, the_list, taken[r], Unread(r), ends[r], sent[r])
    BY <1>1, <1>11 DEF Inv, Sound
  <2>2. r \in Socket /\ taken[r] \in Seq(Byte) /\ stream[r] \in Seq(Octet)
    BY <1>3
  <2>3. CASE r = c
    <3>1. Unread(r) = buffer \o stream[r] /\ Unread(r)' = buffer' \o stream[r]
      <4>1. call.op \in {"incoming", "get", "empty"} /\ call.s = r
        BY <1>1, <2>3 DEF c
      <4>2. /\ Unseen(call, buffer, stream, r) = buffer \o stream[r]
            /\ Unseen(call, buffer', stream, r) = buffer' \o stream[r]
        BY <4>1 DEF Unseen
      <4> QED BY <1>1, <4>2, UnreadUnseen, Zenon
    <3>2. buffer' \o stream[r] \in Seq(Octet)
      BY <1>9, <2>2, Places
    <3>3. Unread(r) = front \o (buffer' \o stream[r])
      <4>1. \A x, y, z \in Seq(Octet) : (x \o y) \o z = x \o (y \o z)
        BY StreamsAssociative, Zenon
      <4>2. front \in Seq(Octet) /\ buffer' \in Seq(Octet) /\ stream[r] \in Seq(Octet)
        BY <1>7, <1>9, <2>2
      <4>3. (front \o buffer') \o stream[r] = front \o (buffer' \o stream[r])
        BY <4>1, <4>2, Zenon
      <4> QED BY <1>9, <3>1, <4>3, Zenon
    <3> DEFINE back == buffer' \o stream[r]
    <3> HIDE DEF back
    <3>4. Agrees(r, the_list, taken[r], front \o back, ends[r], sent[r])
      BY <2>1, <3>3 DEF back
    <3>5. \A j \in 1 .. Len(the_list') : the_list'[j].s = r =>
            \/ /\ j \in 1 .. Len(the_list) /\ the_list'[j] = the_list[j]
               /\ Text(SubSeq(the_list', 1, j), r) = Text(SubSeq(the_list, 1, j), r)
            \/ /\ the_list'[j].complete => Len(front) \in 1 .. Len(front) /\ front[Len(front)] = Nul
               /\ Text(SubSeq(the_list', 1, j), r) = Text(the_list, r) \o WithoutNul(front)
      BY <1>7, <1>8, <2>3 DEF IsWhole
    <3>6. Text(the_list', r) = Text(the_list, r) \o WithoutNul(front)
      BY <1>7, <1>8, <2>3
    <3>7. Agrees(r, the_list', taken[r], back, ends[r], sent[r])
      BY <1>3, <1>7, <1>8, <2>2, <3>2, <3>4, <3>5, <3>6, AgreesMoves DEF back
    <3> QED BY <1>1, <3>1, <3>7 DEF back
  <2>4. CASE r # c
    <3>1. Unread(r)' = Unread(r)
      <4>1. \A b \in Seq(Octet) : call.s # r => Unseen(call, b, stream, r) = stream[r]
        <5>1. stream \in [Socket -> Seq(Octet)]
          BY <1>3
        <5> QED BY <2>2, <5>1, UnseenIs, Zenon
      <4>2. call.s # r
        BY <2>4 DEF c
      <4>3. /\ Unseen(call, buffer, stream, r) = stream[r]
            /\ Unseen(call, buffer', stream, r) = stream[r]
        BY <1>3, <1>9, <4>1, <4>2
      <4> QED BY <1>1, <4>3, UnreadUnseen
    <3>2. Text(the_list', r) = Text(the_list, r)
      BY <1>8, <2>2, <2>4
    <3>3. ASSUME NEW j \in 1 .. Len(the_list'), the_list'[j].s = r, the_list'[j].complete
          PROVE  Len(taken[r]) + Len(Text(SubSeq(the_list', 1, j), r)) \in ends[r]
      <4>1. /\ j \in 1 .. Len(the_list) /\ the_list'[j] = the_list[j]
            /\ Text(SubSeq(the_list', 1, j), r) = Text(SubSeq(the_list, 1, j), r)
        BY <1>8, <2>4, <3>3
      <4> QED BY <2>1, <3>3, <4>1 DEF Agrees
    <3>4. Agrees(r, the_list', taken[r], Unread(r), ends[r], sent[r])
      BY <2>1, <3>2, <3>3 DEF Agrees
    <3> QED BY <1>1, <3>1, <3>4
  <2> QED BY <2>3, <2>4
<1>12. Sound'
  BY <1>11 DEF Sound
<1>13. SentBounded'
  BY <1>1 DEF Inv, SentBounded
<1> QED BY <1>8, <1>10, <1>12, <1>13 DEF Inv

\* A stream ends: clean_list.
LEMMA ReadEndStep == Inv /\ ReadEnd => Inv'
<1> SUFFICES ASSUME Inv, ReadEnd PROVE Inv'
  OBVIOUS
<1>0. TypeOK
  BY DEF Inv
<1>1. /\ Reading /\ buffer = <<>> /\ call.s \in Socket /\ call.s \in closed
      /\ the_list' = clean_list(the_list, call.s)
      /\ eof' = eof \cup {call.s}
      /\ call' = Idle
      /\ UNCHANGED <<buffer, taken, stream, closed, messages, sent, ends>>
  BY <1>0, InCall DEF ReadEnd, BufferDone, test_ready, peerVars
<1>2. the_list \in Seq(Element)
  BY <1>0 DEF TypeOK
<1>3. Others(the_list, the_list', call.s)
  BY <1>1, <1>2, CleanOthers
<1>4. TypeOK'
  <2>1. the_list' \in Seq(Element)
    BY <1>3 DEF Others
  <2> QED BY <1>0, <1>1, <2>1 DEF TypeOK
<1>5. \A s \in Socket : Unread(s)' = Unread(s)
  BY <1>1, <1>4, UnreadStays
<1>6. ASSUME NEW r \in Socket \ eof'
      PROVE  Agrees(r, the_list', taken'[r], Unread(r)', ends'[r], sent'[r])
  <2>1. r \in Socket \ {call.s} /\ r \in Socket \ eof
    BY <1>1
  <2>2. Agrees(r, the_list, taken[r], Unread(r), ends[r], sent[r])
    BY <2>1 DEF Inv, Sound
  <2>3. Agrees(r, the_list', taken[r], Unread(r), ends[r], sent[r])
    BY <1>2, <1>3, <2>1, <2>2, AgreesOthers
  <2> QED BY <1>1, <1>5, <2>3
<1>7. Sound'
  BY <1>6 DEF Sound
<1>8. SentBounded' /\ OpenLast(the_list')
  BY <1>1, <1>3 DEF Inv, SentBounded, Others
<1> QED BY <1>4, <1>7, <1>8 DEF Inv

\* What get_next_message takes is the first element of its socket.
LEMMA FirstWholeIsFirst ==
  ASSUME the_list \in Seq(Element), OpenLast(the_list), NEW s, NumMessages(s) > 0
  PROVE  /\ FirstWhole(s) \in 1 .. Len(the_list) /\ the_list[FirstWhole(s)].s = s
         /\ \A j \in 1 .. (FirstWhole(s) - 1) : the_list[j].s # s
<1> DEFINE A == {i \in 1 .. Len(the_list) :
                   the_list[i].s = s /\ \A j \in 1 .. i : ~IsOpen(s, the_list[j])}
           I == {i \in 1 .. Len(the_list) : the_list[i].s = s /\ the_list[i].complete}
           f == FirstWhole(s)
<1>1. Len(the_list) \in Nat
  BY LenProperties
<1>2. A # {}
  <2>1. NumMessages(s) = Cardinality(A)
    BY DEF NumMessages
  <2> HIDE DEF A
  <2>2. Cardinality({}) = 0
    BY FS_EmptySet
  <2>3. NumMessages(s) # 0
    OBVIOUS
  <2> QED BY <2>1, <2>2, <2>3
<1>3. I # {}
  <2>1. PICK a \in A : TRUE
    BY <1>2
  <2>2. a \in 1 .. a /\ a \in 1 .. Len(the_list)
    BY <1>1
  <2>3. the_list[a].s = s /\ ~IsOpen(s, the_list[a])
    BY <2>2
  <2> QED BY <2>2, <2>3 DEF IsOpen
<1>4. f = IF I # {} THEN Min(I) ELSE 0
  BY DEF FirstWhole, SelectInSeq
<1>5. f \in I /\ \A j \in I : f <= j
  <2>1. I \in SUBSET (1 .. Len(the_list))
    OBVIOUS
  <2> HIDE DEF f, I
  <2> QED BY <1>1, <1>3, <1>4, <2>1, FirstPlace
<1> HIDE DEF f
<1>6. ASSUME NEW j \in 1 .. (f - 1) PROVE the_list[j].s # s
  <2>1. j \in 1 .. Len(the_list) /\ j < f /\ ~(f <= j) /\ f \in 1 .. Len(the_list)
    BY <1>1, <1>5
  <2>2. the_list[j].s = s => the_list[j].complete
    BY <1>5, <2>1 DEF OpenLast
  <2> QED BY <1>5, <2>1, <2>2
<1> QED BY <1>5, <1>6 DEF f

\* A message is taken.
LEMMA GetMessageStep == Inv /\ GetMessage => Inv'
<1> SUFFICES ASSUME Inv, GetMessage PROVE Inv'
  OBVIOUS
<1> DEFINE s == call.s
           i == FirstWhole(s)
           gone == the_list[i].message
<1>0. TypeOK /\ OpenLast(the_list)
  BY DEF Inv
<1>1. /\ Reading /\ buffer = <<>> /\ s \in Socket /\ NumMessages(s) > 0
      /\ the_list' = RemoveAt(the_list, i)
      /\ taken' = [taken EXCEPT ![s] = @ \o gone]
      /\ call' = Idle
      /\ UNCHANGED <<buffer, eof, stream, closed, messages, sent, ends>>
  BY <1>0, InCall DEF GetMessage, BufferDone, peerVars
<1>2. the_list \in Seq(Element) /\ taken \in [Socket -> Seq(Byte)]
  BY <1>0 DEF TypeOK, Byte
<1>3. /\ i \in 1 .. Len(the_list) /\ the_list[i].s = s
      /\ \A j \in 1 .. (i - 1) : the_list[j].s # s
  BY <1>0, <1>1, <1>2, FirstWholeIsFirst
<1> HIDE DEF s, i
<1>4. Takes(the_list, the_list', s, gone)
  <2>1. Takes(the_list, RemoveAt(the_list, i), s, the_list[i].message)
    BY <1>2, <1>3, TakesFirst
  <2> QED BY <1>1, <2>1, Zenon
<1> HIDE DEF gone
<1>5. TypeOK'
  <2>1. the_list' \in Seq(Element) /\ gone \in Seq(Byte)
    BY <1>4 DEF Takes, Others
  <2>2. taken[s] \o gone \in Seq(Byte)
    BY <1>1, <1>2, <2>1, Places
  <2>3. taken' \in [Socket -> Seq(Byte)]
    BY <1>1, <1>2, <2>2
  <2> QED BY <1>0, <1>1, <2>1, <2>3 DEF TypeOK, Byte
<1>6. \A r \in Socket : Unread(r)' = Unread(r)
  BY <1>1, <1>5, UnreadStays
<1> QED BY <1>1, <1>4, <1>5, <1>6, TakingStep

\* The text that is gone, by its length.
LEMMA GoneIs ==
  ASSUME NEW list \in Seq(Element), NEW out, NEW s, NEW gone, Takes(list, out, s, gone)
  PROVE  SubSeq(Text(list, s), 1, Len(Text(list, s)) - Len(Text(out, s))) = gone
<1>1. /\ gone \in Seq(Byte) /\ Text(out, s) \in Seq(Byte) /\ Text(list, s) = gone \o Text(out, s)
      /\ Len(Text(list, s)) = Len(gone) + Len(Text(out, s))
      /\ Len(gone) \in Nat /\ Len(Text(out, s)) \in Nat
  <2>1. gone \in Seq(Byte) /\ Text(list, s) = gone \o Text(out, s) /\ Text(out, s) \in Seq(Byte)
    BY TextType DEF Takes, Others
  <2>2. Len(gone \o Text(out, s)) = Len(gone) + Len(Text(out, s))
    BY <2>1, Places
  <2> QED BY <2>1, <2>2, LenProperties
<1> DEFINE t == Text(out, s)
<1> HIDE DEF t
<1>2. Len(gone) \in 0 .. Len(gone) /\ Len(Text(list, s)) - Len(t) = Len(gone)
  BY <1>1 DEF t
<1>3. SubSeq(gone \o t, 1, Len(gone)) = SubSeq(gone, 1, Len(gone))
  BY <1>1, <1>2, ConcatPrefix DEF t
<1>4. SubSeq(gone, 1, Len(gone)) = gone
  BY <1>1, SubSeqFull
<1> QED BY <1>1, <1>2, <1>3, <1>4 DEF t

\* What is left when the elements of s at the head have gone.
LEMMA HeadTakes ==
  ASSUME NEW list \in Seq(Element), NEW s, NEW head, head = SelectInSeq(list, LAMBDA m : m.s # s),
         NEW rest, rest = IF head = 0 THEN <<>> ELSE SubSeq(list, head, Len(list))
  PROVE  \E gone : Takes(list, rest, s, gone)
<1> DEFINE I == {i \in 1 .. Len(list) : list[i].s # s}
<1>1. Len(list) \in Nat
  BY LenProperties
<1>2. head = IF I # {} THEN Min(I) ELSE 0
  BY DEF SelectInSeq
<1>3. (I = {} /\ head = 0) \/ (head \in I /\ head # 0 /\ \A j \in I : head <= j)
  <2>1. I \in SUBSET (1 .. Len(list))
    OBVIOUS
  <2> HIDE DEF I
  <2> QED BY <1>1, <1>2, <2>1, FirstPlace
<1>4. CASE head = 0
  <2>1. rest = <<>> /\ \A i \in 1 .. Len(list) : list[i].s = s
    BY <1>3, <1>4
  <2> QED BY <2>1, TakesAll
<1>5. CASE head # 0
  <2> DEFINE n == head - 1
  <2>1. head \in 1 .. Len(list) /\ \A j \in I : head <= j
    BY <1>3, <1>5
  <2>2. n \in 0 .. Len(list) /\ n + 1 = head
    BY <1>1, <2>1
  <2>3. ASSUME NEW j \in 1 .. n PROVE list[j].s = s
    <3>1. j \in 1 .. Len(list) /\ ~(head <= j)
      BY <1>1, <2>1
    <3> QED BY <2>1, <3>1
  <2> HIDE DEF n
  <2>4. Takes(list, SubSeq(list, n + 1, Len(list)), s, Text(SubSeq(list, 1, n), s))
    BY <2>2, <2>3, TakesFront
  <2>5. rest = SubSeq(list, n + 1, Len(list))
    BY <1>5, <2>2
  <2> QED BY <2>4, <2>5
<1> QED BY <1>4, <1>5

\* And when the first element of s in a list goes.
LEMMA NextTakes ==
  ASSUME NEW list \in Seq(Element), NEW s, NEW next, next = SelectInSeq(list, LAMBDA m : m.s = s),
         next # 0
  PROVE  \E gone : Takes(list, RemoveAt(list, next), s, gone)
<1> DEFINE I == {i \in 1 .. Len(list) : list[i].s = s}
<1>1. Len(list) \in Nat
  BY LenProperties
<1>2. next = IF I # {} THEN Min(I) ELSE 0
  BY DEF SelectInSeq
<1>3. next \in I /\ \A j \in I : next <= j
  <2>1. I \in SUBSET (1 .. Len(list))
    OBVIOUS
  <2>2. (I = {} /\ next = 0) \/ (next \in I /\ next # 0 /\ \A j \in I : next <= j)
    <3> HIDE DEF I
    <3> QED BY <1>1, <1>2, <2>1, FirstPlace
  <2> QED BY <2>2
<1>4. ASSUME NEW j \in 1 .. (next - 1) PROVE list[j].s # s
  <2>1. j \in 1 .. Len(list) /\ ~(next <= j)
    BY <1>1, <1>3
  <2> QED BY <1>3, <2>1
<1>5. next \in 1 .. Len(list) /\ list[next].s = s
  BY <1>3
<1>6. Takes(list, RemoveAt(list, next), s, list[next].message)
  BY <1>4, <1>5, TakesFirst
<1> QED BY <1>6

\* empty_incoming_messages.
LEMMA EmptyMessagesStep == Inv /\ EmptyMessages => Inv'
<1> SUFFICES ASSUME Inv, EmptyMessages PROVE Inv'
  OBVIOUS
<1> DEFINE s == call.s
           head == SelectInSeq(the_list, LAMBDA m : m.s # s)
           rest == IF head = 0 THEN <<>> ELSE SubSeq(the_list, head, Len(the_list))
           next == SelectInSeq(rest, LAMBDA m : m.s = s)
           Leaves(list) ==
             /\ the_list' = list
             /\ taken' = [taken EXCEPT ![s] =
                            @ \o SubSeq(Text(the_list, s), 1, Len(Text(the_list, s)) - Len(Text(list, s)))]
             /\ call' = Idle
<1>0. TypeOK /\ OpenLast(the_list)
  BY DEF Inv
<1>1. /\ Reading /\ buffer = <<>> /\ s \in Socket
      /\ UNCHANGED <<buffer, eof, stream, closed, messages, sent, ends>>
  BY <1>0, InCall DEF EmptyMessages, BufferDone, peerVars
<1>2. the_list \in Seq(Element) /\ taken \in [Socket -> Seq(Byte)]
  BY <1>0 DEF TypeOK, Byte
<1>3. PICK gone : Takes(the_list, rest, s, gone)
  BY <1>2, HeadTakes
<1>4. \/ Leaves(rest)
      \/ next # 0 /\ Leaves(RemoveAt(rest, next))
      \/ call' = Exited /\ UNCHANGED <<the_list, taken>>
  BY DEF EmptyMessages
<1>5. ASSUME next # 0 PROVE \E g : Takes(the_list, RemoveAt(rest, next), s, g)
  <2>1. rest \in Seq(Element)
    BY <1>3 DEF Takes, Others
  <2> HIDE DEF rest, s
  <2>2. PICK h : Takes(rest, RemoveAt(rest, next), s, h)
    BY <1>5, <2>1, NextTakes
  <2> HIDE DEF next
  <2>3. Takes(the_list, RemoveAt(rest, next), s, gone \o h)
    BY <1>2, <1>3, <2>2, TakesTwice
  <2> QED BY <2>3
<1> HIDE DEF rest, next, head, s
<1>6. ASSUME NEW out, NEW g, Takes(the_list, out, s, g), Leaves(out) PROVE Inv'
  <2>1. taken' = [taken EXCEPT ![s] = @ \o g] /\ the_list' = out /\ call' = Idle
    BY <1>2, <1>6, GoneIs
  <2>2. out \in Seq(Element) /\ g \in Seq(Byte)
    BY <1>6 DEF Takes, Others
  <2>3. TypeOK'
    <3>1. taken[s] \o g \in Seq(Byte)
      BY <1>1, <1>2, <2>2, Places
    <3>2. taken' \in [Socket -> Seq(Byte)]
      BY <1>1, <1>2, <2>1, <3>1
    <3> QED BY <1>0, <1>1, <2>1, <2>2, <3>2 DEF TypeOK, Byte
  <2>4. \A r \in Socket : Unread(r)' = Unread(r)
    BY <1>1, <2>3, UnreadStays
  <2> QED BY <1>1, <1>6, <2>1, <2>3, <2>4, TakingStep
<1>7. ASSUME call' = Exited, UNCHANGED <<the_list, taken>> PROVE Inv'
  <2>1. TypeOK'
    BY <1>0, <1>1, <1>7 DEF TypeOK
  <2>2. \A r \in Socket : Unread(r)' = Unread(r)
    BY <1>1, <2>1, UnreadStays
  <2> QED BY <1>1, <1>7, <2>1, <2>2, QuietStep
<1>8. CASE Leaves(rest)
  <2> HIDE DEF Leaves
  <2> QED BY <1>3, <1>6, <1>8
<1>9. CASE next # 0 /\ Leaves(RemoveAt(rest, next))
  <2> HIDE DEF Leaves
  <2>1. PICK g : Takes(the_list, RemoveAt(rest, next), s, g)
    BY <1>5, <1>9
  <2> QED BY <1>6, <1>9, <2>1
<1> HIDE DEF Leaves
<1> QED BY <1>4, <1>7, <1>8, <1>9

\* What as many messages can hold.
LEMMA Products ==
  ASSUME NEW m \in Nat, NEW n \in Nat, NEW k \in Nat, m < n
  PROVE  /\ m * k \in Nat /\ (m + 1) * k \in Nat /\ n * k \in Nat
         /\ (m + 1) * k = m * k + k
         /\ (m + 1) * k <= n * k
<1>1. (m + 1) * k = m * k + k /\ m * k \in Nat /\ (m + 1) * k \in Nat /\ n * k \in Nat
  OBVIOUS
<1> DEFINE d == n - (m + 1)
<1>2. d \in Nat /\ n = (m + 1) + d
  OBVIOUS
<1> HIDE DEF d
<1>3. n * k = (m + 1) * k + d * k /\ d * k \in Nat
  BY <1>2
<1> QED BY <1>1, <1>3

\* The bytes that a call of send_a_message writes: a NUL is the last of them,
\* and is there only when the whole text is.
LEMMA SentBytes ==
  ASSUME NEW b \in Byte, NEW len \in Nat, NEW result \in 1 .. (len + 1),
         NEW more, more = SubSeq(Append([i \in 1 .. len |-> b], Nul), 1, result)
  PROVE  /\ more \in Seq(Octet) /\ WithoutNul(more) \in Seq(Byte)
         /\ Len(WithoutNul(more)) \in 0 .. len
         /\ \A i \in 1 .. Len(more) : more[i] = Nul =>
              ~(result <= len) /\ Len(WithoutNul(SubSeq(more, 1, i))) = len
<1> DEFINE text == [i \in 1 .. len |-> b]
           bytes == Append(text, Nul)
<1>1. /\ b \in Octet /\ b # Nul /\ Nul \in Octet
  BY MessagesAssumption DEF Byte, Octet, Nul
<1>2. text \in Seq(Octet) /\ Len(text) = len /\ \A i \in 1 .. len : text[i] = b
  BY <1>1
<1> HIDE DEF text
<1>3. /\ bytes \in Seq(Octet) /\ Len(bytes) = len + 1 /\ bytes[len + 1] = Nul
      /\ \A i \in 1 .. len : bytes[i] = b
      /\ bytes = text \o <<Nul>>
  BY <1>1, <1>2, AppendProperties, AppendIsConcat
<1>4. text \in Seq(Byte) /\ WithoutNul(text) = text
  BY <1>1, <1>2, WithoutNulPlain
<1>5. WithoutNul(bytes) = text
  <2>1. WithoutNul(<<Nul>>) = <<>> /\ <<Nul>> \in Seq(Octet)
    BY <1>1, WithoutNulOne DEF Letter
  <2>2. WithoutNul(text \o <<Nul>>) = WithoutNul(text) \o WithoutNul(<<Nul>>)
    BY <1>2, <2>1, WithoutNulConcat
  <2>3. text \o <<>> = text
    BY <1>2, ConcatEmptySeq
  <2> HIDE DEF bytes, text
  <2> QED BY <1>3, <1>4, <2>1, <2>2, <2>3, Zenon
<1>6. more = SubSeq(bytes, 1, result)
  BY DEF text
<1> HIDE DEF bytes
<1>7. result \in 0 .. Len(bytes)
  BY <1>3
<1>8. more \in Seq(Octet) /\ Len(more) = result /\ \A i \in 1 .. result : more[i] = bytes[i]
  BY <1>3, <1>6, <1>7, Cut
<1>9. CASE result <= len
  <2>1. \A i \in 1 .. Len(more) : more[i] # Nul
    BY <1>1, <1>3, <1>8, <1>9
  <2>2. more \in Seq(Byte) /\ WithoutNul(more) = more
    BY <1>8, <2>1, WithoutNulPlain
  <2>3. Len(WithoutNul(more)) \in 0 .. len
    BY <1>8, <1>9, <2>2
  <2>4. WithoutNul(more) \in Seq(Byte)
    BY <2>2
  <2>5. ASSUME NEW i \in 1 .. Len(more), more[i] = Nul PROVE FALSE
    BY <2>1, <2>5
  <2> QED BY <1>8, <2>3, <2>4, <2>5, Zenon
<1>10. CASE result = len + 1
  <2>1. more = bytes
    BY <1>3, <1>6, <1>10, SubSeqFull
  <2>2. ASSUME NEW i \in 1 .. Len(more), more[i] = Nul PROVE SubSeq(more, 1, i) = more
    <3>1. i = len + 1
      BY <1>1, <1>3, <2>1, <2>2
    <3> QED BY <1>3, <2>1, <3>1, SubSeqFull
  <2>3. ~(result <= len) /\ len \in 0 .. len
    BY <1>10
  <2>4. WithoutNul(more) = text /\ Len(WithoutNul(more)) = len
    BY <1>2, <1>5, <2>1
  <2>5. ASSUME NEW i \in 1 .. Len(more), more[i] = Nul
        PROVE  ~(result <= len) /\ Len(WithoutNul(SubSeq(more, 1, i))) = len
    BY <2>2, <2>3, <2>4, <2>5
  <2>6. WithoutNul(more) \in Seq(Byte)
    BY <1>4, <2>4
  <2>7. Len(WithoutNul(more)) \in 0 .. len
    BY <2>3, <2>4
  <2> QED BY <1>8, <2>5, <2>6, <2>7, Zenon
<1>11. result <= len \/ result = len + 1
  OBVIOUS
<1> QED BY <1>9, <1>10, <1>11, Zenon

\* A message is sent, or its beginning.
LEMMA SendMessageStep ==
  ASSUME NEW s \in Socket, NEW len \in 0 .. MaxLen, Inv, SendMessage(s, len)
  PROVE  Inv'
<1> DEFINE b == messages + 1
<1>0. TypeOK
  BY DEF Inv
<1>1. /\ MaxMessages \in Nat /\ MaxLen \in Nat /\ messages \in Nat /\ messages < MaxMessages
      /\ messages' = messages + 1 /\ messages + 1 \in 0 .. MaxMessages
      /\ UNCHANGED <<the_list, call, buffer, eof, taken, closed>>
  BY <1>0, MessagesAssumption DEF SendMessage, TypeOK, listVars
<1>2. PICK result \in 1 .. (len + 1) :
        /\ stream' = [stream EXCEPT ![s] = @ \o SubSeq(Append([i \in 1 .. len |-> b], Nul), 1, result)]
        /\ sent' = [sent EXCEPT ![s] =
                      @ \o WithoutNul(SubSeq(Append([i \in 1 .. len |-> b], Nul), 1, result))]
        /\ ends' = IF result <= len THEN ends
                   ELSE [ends EXCEPT ![s] = @ \cup {Len(sent[s]) + len}]
  BY DEF SendMessage
<1> DEFINE more == SubSeq(Append([i \in 1 .. len |-> b], Nul), 1, result)
<1>3. len \in Nat /\ len <= MaxLen /\ b \in Byte
  BY <1>1 DEF Byte
<1> HIDE DEF b
<1>4. /\ more \in Seq(Octet) /\ WithoutNul(more) \in Seq(Byte)
      /\ Len(WithoutNul(more)) \in 0 .. len
      /\ \A i \in 1 .. Len(more) : more[i] = Nul =>
           ~(result <= len) /\ Len(WithoutNul(SubSeq(more, 1, i))) = len
  <2>1. more = SubSeq(Append([i \in 1 .. len |-> b], Nul), 1, result)
    OBVIOUS
  <2>2. b \in Byte /\ len \in Nat /\ result \in 1 .. (len + 1)
    BY <1>3
  <2> HIDE DEF more
  <2>3. \A x : x = SubSeq(Append([i \in 1 .. len |-> b], Nul), 1, result) =>
          /\ x \in Seq(Octet) /\ WithoutNul(x) \in Seq(Byte)
          /\ Len(WithoutNul(x)) \in 0 .. len
          /\ \A i \in 1 .. Len(x) : x[i] = Nul =>
               ~(result <= len) /\ Len(WithoutNul(SubSeq(x, 1, i))) = len
    BY <2>2, SentBytes
  <2> QED BY <2>1, <2>3, Zenon
<1>5. /\ stream' = [stream EXCEPT ![s] = @ \o more]
      /\ sent' = [sent EXCEPT ![s] = @ \o WithoutNul(more)]
  BY <1>2
<1> HIDE DEF more
<1>6. /\ the_list \in Seq(Element) /\ taken \in [Socket -> Seq(Byte)]
      /\ buffer \in Seq(Octet) /\ stream \in [Socket -> Seq(Octet)]
      /\ sent \in [Socket -> Seq(Byte)]
      /\ ends \in [Socket -> SUBSET (0 .. MaxMessages * MaxLen)]
  BY <1>0 DEF TypeOK, Byte, Octet
<1>7. /\ messages * MaxLen \in Nat /\ (messages + 1) * MaxLen \in Nat /\ MaxMessages * MaxLen \in Nat
      /\ (messages + 1) * MaxLen = messages * MaxLen + MaxLen
      /\ (messages + 1) * MaxLen <= MaxMessages * MaxLen
  BY <1>1, Products
<1>8. \A r \in Socket : Len(sent[r]) \in Nat /\ Len(sent[r]) <= messages * MaxLen
  BY <1>6, LenProperties DEF Inv, SentBounded
<1> DEFINE p == messages * MaxLen
           q == (messages + 1) * MaxLen
           z == MaxMessages * MaxLen
<1>9. p \in Nat /\ q \in Nat /\ z \in Nat /\ q = p + MaxLen /\ q <= z
  BY <1>7
<1>10. \A r \in Socket : Len(sent[r]) \in Nat /\ Len(sent[r]) <= p
  BY <1>8
<1>11. ends \in [Socket -> SUBSET (0 .. z)]
  BY <1>6
<1> HIDE DEF p, q, z
<1>12. /\ stream[s] \o more \in Seq(Octet)
       /\ sent[s] \o WithoutNul(more) \in Seq(Byte)
       /\ Len(sent[s] \o WithoutNul(more)) = Len(sent[s]) + Len(WithoutNul(more))
  <2>1. stream[s] \in Seq(Octet) /\ sent[s] \in Seq(Byte)
    BY <1>6
  <2> QED BY <1>4, <2>1, Places
<1>13. /\ stream' \in [Socket -> Seq(Octet)] /\ stream'[s] = stream[s] \o more
       /\ \A r \in Socket : r # s => stream'[r] = stream[r]
       /\ sent' \in [Socket -> Seq(Byte)] /\ sent'[s] = sent[s] \o WithoutNul(more)
       /\ \A r \in Socket : r # s => sent'[r] = sent[r]
  BY <1>5, <1>6, <1>12
<1>14. /\ ends' \in [Socket -> SUBSET (0 .. z)]
       /\ \A r \in Socket : ends[r] \subseteq ends'[r]
       /\ ~(result <= len) => Len(sent[s]) + len \in ends'[s]
  <2>1. Len(sent[s]) + len \in 0 .. z
    BY <1>1, <1>3, <1>9, <1>10
  <2> QED BY <1>2, <1>11, <2>1
<1>15. TypeOK'
  <2>1. ends' \in [Socket -> SUBSET (0 .. MaxMessages * MaxLen)]
    BY <1>14 DEF z
  <2>2. Reading' = Reading
    BY <1>1 DEF Reading
  <2>3. /\ stream' \in [Socket -> Seq(0 .. MaxMessages)]
        /\ sent' \in [Socket -> Seq(1 .. MaxMessages)]
    BY <1>13 DEF Byte, Octet
  <2>4. /\ the_list' \in Seq(Element) /\ call' \in {Idle, Exited} \cup [op : Ops, s : Socket]
        /\ buffer' \in Seq(0 .. MaxMessages) /\ (buffer' # <<>> => Reading')
    BY <1>0, <1>1, <2>2 DEF TypeOK
  <2>5. /\ closed' \in SUBSET Socket /\ eof' \in SUBSET closed' /\ messages' \in 0 .. MaxMessages
        /\ taken' \in [Socket -> Seq(1 .. MaxMessages)]
    BY <1>0, <1>1 DEF TypeOK
  <2> QED BY <2>1, <2>3, <2>4, <2>5, Zenon DEF TypeOK
<1>16. SentBounded'
  <2>1. ASSUME NEW r \in Socket PROVE Len(sent'[r]) <= q
    <3>1. CASE r = s
      <4>1. Len(sent'[r]) = Len(sent[s]) + Len(WithoutNul(more))
        BY <1>12, <1>13, <3>1
      <4>2. Len(sent[s]) \in Nat /\ Len(sent[s]) <= p
        BY <1>10
      <4>3. Len(WithoutNul(more)) \in Nat /\ Len(WithoutNul(more)) <= MaxLen
        BY <1>1, <1>3, <1>4
      <4> QED BY <1>1, <1>9, <4>1, <4>2, <4>3
    <3>2. CASE r # s
      <4>1. sent'[r] = sent[r] /\ Len(sent[r]) \in Nat /\ Len(sent[r]) <= p
        BY <1>10, <1>13, <3>2
      <4> QED BY <1>1, <1>9, <4>1
    <3> QED BY <3>1, <3>2
  <2> QED BY <1>1, <2>1 DEF SentBounded, q
<1>17. ASSUME NEW r \in Socket \ eof'
       PROVE  Agrees(r, the_list', taken'[r], Unread(r)', ends'[r], sent'[r])
  <2>1. Agrees(r, the_list, taken[r], Unread(r), ends[r], sent[r])
    BY <1>1, <1>17 DEF Inv, Sound
  <2>2. taken[r] \in Seq(Byte) /\ Unseen(call, buffer, stream, r) \in Seq(Octet)
        /\ ends[r] \subseteq ends'[r]
    BY <1>6, <1>14, UnseenIs
  <2>3. CASE r = s
    <3> DEFINE front == IF call.op \in {"incoming", "get", "empty"} /\ call.s = r THEN buffer ELSE <<>>
    <3>1. front \in Seq(Octet) /\ stream[r] \in Seq(Octet)
      BY <1>6, EmptySeq
    <3>2. /\ Unseen(call, buffer, stream, r) = front \o stream[r]
          /\ Unseen(call, buffer, stream', r) = front \o stream'[r]
      BY DEF Unseen
    <3> HIDE DEF front
    <3>3. \A x, y, w \in Seq(Octet) : (x \o y) \o w = x \o (y \o w)
      BY StreamsAssociative, Zenon
    <3>4. (front \o stream[r]) \o more = front \o (stream[r] \o more)
      BY <1>4, <3>1, <3>3, Zenon
    <3>5. Unread(r)' = Unread(r) \o more
      BY <1>1, <1>13, <2>3, <3>2, <3>4, UnreadUnseen
    <3>6. Unread(r) \in Seq(Octet)
      BY <2>2, UnreadUnseen
    <3>7. \A i \in 1 .. Len(more) : more[i] = Nul =>
            Len(sent[r]) + Len(WithoutNul(SubSeq(more, 1, i))) \in ends'[r]
      BY <1>4, <1>14, <2>3
    <3>8. Agrees(r, the_list, taken[r], Unread(r) \o more, ends'[r], sent[r] \o WithoutNul(more))
      BY <1>4, <1>6, <2>1, <2>2, <3>6, <3>7, AgreesMore
    <3> QED BY <1>1, <1>13, <2>3, <3>5, <3>8
  <2>4. CASE r # s
    <3>1. stream'[r] = stream[r] /\ sent'[r] = sent[r]
      BY <1>13, <2>4
    <3>2. ends'[r] = ends[r]
      BY <1>2, <1>11, <2>4
    <3>3. Unread(r)' = Unread(r)
      <4>1. Unseen(call, buffer, stream', r) = Unseen(call, buffer, stream, r)
        BY <3>1 DEF Unseen
      <4> QED BY <1>1, <4>1, UnreadUnseen
    <3> QED BY <1>1, <2>1, <3>1, <3>2, <3>3
  <2> QED BY <2>3, <2>4
<1>18. Sound'
  BY <1>17 DEF Sound
<1>19. OpenLast(the_list')
  BY <1>1 DEF Inv
<1> QED BY <1>15, <1>16, <1>18, <1>19 DEF Inv

\* The steps that change the call, or close a stream, and nothing else.
LEMMA OtherStep ==
  ASSUME Inv,
         \/ ReadFails \/ WaitReturns \/ NothingToTake \/ UNCHANGED vars
         \/ \E s \in Socket : Close(s) \/ \E op \in Ops : Call(op, s)
  PROVE  Inv'
<1>0. TypeOK
  BY DEF Inv
<1>1. ASSUME call' \in {Idle, Exited} \cup [op : Ops, s : Socket], buffer = <<>>,
             UNCHANGED <<the_list, buffer, eof, taken, stream, closed, messages, sent, ends>>
      PROVE  Inv'
  <2>1. TypeOK'
    BY <1>0, <1>1 DEF TypeOK
  <2>2. \A r \in Socket : Unread(r)' = Unread(r)
    BY <1>1, <2>1, UnreadStays
  <2> QED BY <1>1, <2>1, <2>2, QuietStep
<1>2. CASE ReadFails
  BY <1>1, <1>2 DEF ReadFails, BufferDone, peerVars
<1>3. CASE NothingToTake
  BY <1>1, <1>3 DEF NothingToTake, BufferDone, peerVars
<1>4. CASE WaitReturns
  <2>1. ~Reading
    BY <1>4 DEF WaitReturns, In, Reading
  <2> QED BY <1>0, <1>1, <1>4, <2>1, InCall DEF WaitReturns, peerVars
<1>5. ASSUME NEW s \in Socket, NEW op \in Ops, Call(op, s) PROVE Inv'
  <2>1. ~Reading
    BY <1>0, <1>5, InCall DEF Call, Reading
  <2>2. buffer = <<>> /\ [op |-> op, s |-> s] \in [op : Ops, s : Socket]
    BY <1>0, <2>1, InCall
  <2> QED BY <1>1, <1>5, <2>2 DEF Call, peerVars
<1>6. ASSUME NEW s \in Socket, Close(s) PROVE Inv'
  <2>1. TypeOK'
    BY <1>0, <1>6 DEF Close, TypeOK, listVars, Reading
  <2>2. \A r \in Socket : Unread(r)' = Unread(r)
    BY <1>6 DEF Close, listVars, Unread, Reading
  <2> QED BY <1>6, <2>1, <2>2, QuietStep DEF Close, listVars
<1>7. CASE UNCHANGED vars
  <2>1. TypeOK'
    BY <1>0, <1>7 DEF vars, listVars, peerVars, TypeOK, Reading
  <2>2. \A r \in Socket : Unread(r)' = Unread(r)
    BY <1>7 DEF vars, listVars, peerVars, Unread, Reading
  <2> QED BY <1>7, <2>1, <2>2, QuietStep DEF vars, listVars, peerVars
<1> QED BY <1>2, <1>3, <1>4, <1>5, <1>6, <1>7

\* Every step keeps the invariant.
LEMMA InvNext == Inv /\ [Next]_vars => Inv'
<1> SUFFICES ASSUME Inv, [Next]_vars PROVE Inv'
  OBVIOUS
<1>1. CASE Receiver
  BY <1>1, ReadChunkStep, TakePieceStep, ReadEndStep, GetMessageStep, EmptyMessagesStep, OtherStep
     DEF Receiver
<1>2. ASSUME NEW s \in Socket, NEW op \in Ops, Call(op, s) PROVE Inv'
  BY <1>2, OtherStep
<1>3. ASSUME NEW s \in Socket, NEW len \in 0 .. MaxLen, SendMessage(s, len) PROVE Inv'
  BY <1>3, SendMessageStep
<1>4. ASSUME NEW s \in Socket, Close(s) PROVE Inv'
  BY <1>4, OtherStep
<1>5. CASE UNCHANGED vars
  BY <1>5, OtherStep
<1> QED BY <1>1, <1>2, <1>3, <1>4, <1>5 DEF Next

\* The invariant holds in every state.
LEMMA InvAlways == Spec => []Inv
<1> QED BY InitInv, InvNext, PTL DEF Spec

-----------------------------------------------------------------------------
(* The theorems.                                                           *)

\* TypeOK: the list never holds an empty text, and no byte outlives its read.
THEOREM MessagesTypeCorrect == Spec => []TypeOK
<1>1. Inv => TypeOK
  BY DEF Inv
<1> QED BY <1>1, InvAlways, PTL

\* InOrder: what has been sent and not yet taken lies in the list and in the
\* stream, in order and each byte once, wherever handle, clean_list,
\* get_next_message and empty_incoming_messages cut it.
THEOREM TextInOrder == Spec => []InOrder
<1> QED BY InvImplies, InvAlways, PTL

\* OneOpenAndLast: handle, and what leaves the list, keep one incomplete
\* message of a socket at most, as its last.
THEOREM OneIncomplete == Spec => []OneOpenAndLast
<1> QED BY InvImplies, InvAlways, PTL

\* CompleteEndsMessage: what handle marks complete is never a beginning only.
THEOREM CompleteIsWhole == Spec => []CompleteEndsMessage
<1> QED BY InvImplies, InvAlways, PTL

=============================================================================
