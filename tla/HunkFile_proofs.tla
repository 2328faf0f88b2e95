--------------------------- MODULE HunkFile_proofs ---------------------------
(***************************************************************************)
(* Proofs about HunkFile: an object that can be written is read back as it *)
(* was, and what was read is written as the same file.                     *)
(***************************************************************************)
EXTENDS HunkFile, WellFoundedInduction, TLAPS

-----------------------------------------------------------------------------
(* What is defined by recursion over 0 .. n.  A step is a function of the  *)
(* position and the result so far.                                         *)

\* A set of numbers that is not empty has a least one.
LEMMA Least ==
  ASSUME NEW T \in SUBSET Nat, T # {}
  PROVE  \E x \in T : \A y \in T : x <= y
<1>1. PICK x \in T : \A y \in T : ~(<<y, x>> \in OpToRel(<, Nat))
  BY NatLessThanWellFounded, WFMin
<1>2. \A y \in T : ~(y < x)
  BY <1>1 DEF OpToRel
<1> QED
  BY <1>2

\* Induction over 0 .. n for a property that is a set.
LEMMA UpTo ==
  ASSUME NEW n \in Nat, NEW P, 0 \in P, \A k \in 1 .. n : k - 1 \in P => k \in P
  PROVE  0 .. n \subseteq P
<1> DEFINE T == {k \in 0 .. n : k \notin P}
<1> SUFFICES ASSUME T # {} PROVE FALSE
  OBVIOUS
<1>1. T \in SUBSET Nat
  OBVIOUS
<1>2. PICK k \in T : \A y \in T : k <= y
  <2> HIDE DEF T
  <2> QED
    BY <1>1, Least
<1>3. k # 0 /\ k \in 0 .. n /\ k - 1 \in 0 .. n
  BY <1>2
<1>4. k - 1 \notin T
  BY <1>2, <1>3
<1> QED
  BY <1>2, <1>3, <1>4

\* g holds the results of steps from base.
IsRecursion(g, n, base, step) ==
  g = [k \in 0 .. n |-> IF k = 0 THEN base ELSE step[<<k, g[k - 1]>>]]

Recurs(g, D, n, base, step) ==
  g \in [0 .. n -> D] /\ g[0] = base /\ \A k \in 1 .. n : g[k] = step[<<k, g[k - 1]>>]

LEMMA RecursionExists ==
  ASSUME NEW D, NEW n \in Nat, NEW base \in D, NEW step \in [(1 .. n) \X D -> D]
  PROVE  \E g : Recurs(g, D, n, base, step)
<1> DEFINE P == {m \in 0 .. n : \E g : IsRecursion(g, m, base, step) /\ g \in [0 .. m -> D]}
<1>1. 0 \in P
  <2>1. IsRecursion([k \in 0 .. 0 |-> base], 0, base, step)
    BY DEF IsRecursion
  <2>2. [k \in 0 .. 0 |-> base] \in [0 .. 0 -> D]
    OBVIOUS
  <2> QED
    BY <2>1, <2>2
<1>2. ASSUME NEW m \in 1 .. n, m - 1 \in P
      PROVE  m \in P
  <2>1. PICK h : IsRecursion(h, m - 1, base, step) /\ h \in [0 .. m - 1 -> D]
    BY <1>2
  <2> DEFINE g == [k \in 0 .. m |-> IF k = m THEN step[<<m, h[m - 1]>>] ELSE h[k]]
  <2>2. g \in [0 .. m -> D]
    BY <2>1
  <2>3. \A k \in 0 .. m : g[k] = IF k = 0 THEN base ELSE step[<<k, g[k - 1]>>]
    <3> SUFFICES ASSUME NEW k \in 0 .. m PROVE g[k] = IF k = 0 THEN base ELSE step[<<k, g[k - 1]>>]
      OBVIOUS
    <3>1. CASE k = m
      BY <3>1
    <3>2. CASE k # m
      <4>1. k \in 0 .. m - 1
        BY <3>2
      <4>2. h[k] = IF k = 0 THEN base ELSE step[<<k, h[k - 1]>>]
        BY <2>1, <4>1 DEF IsRecursion
      <4>3. g[k] = h[k] /\ (k # 0 => g[k - 1] = h[k - 1])
        BY <4>1, <3>2
      <4> HIDE DEF g
      <4> QED
        BY <4>2, <4>3
    <3> QED
      BY <3>1, <3>2
  <2> HIDE DEF g
  <2>4. IsRecursion(g, m, base, step)
    BY <2>2, <2>3 DEF IsRecursion
  <2> QED
    BY <2>2, <2>4
<1>3. 0 .. n \subseteq P
  <2> HIDE DEF P
  <2> QED
    BY <1>1, <1>2, UpTo
<1>4. PICK g : IsRecursion(g, n, base, step) /\ g \in [0 .. n -> D]
  BY <1>3
<1>5. g[0] = base
  BY <1>4 DEF IsRecursion
<1>6. ASSUME NEW k \in 1 .. n PROVE g[k] = step[<<k, g[k - 1]>>]
  <2>1. k \in 0 .. n /\ k # 0
    OBVIOUS
  <2> QED
    BY <1>4, <2>1 DEF IsRecursion
<1> QED
  BY <1>4, <1>5, <1>6 DEF Recurs

-----------------------------------------------------------------------------
(* The elements of a sequence at given positions *)

IsFilter(g, q, set) ==
  g = [n \in 0 .. Len(q) |->
         IF n = 0 THEN <<>> ELSE IF n \in set THEN Append(g[n - 1], q[n]) ELSE g[n - 1]]

LEMMA FilterExists ==
  ASSUME NEW V, NEW q \in Seq(V), NEW set
  PROVE  \E g : IsFilter(g, q, set)
<1> DEFINE D == (1 .. Len(q)) \X Seq(V)
           step == [x \in D |-> IF x[1] \in set THEN Append(x[2], q[x[1]]) ELSE x[2]]
<1>1. Len(q) \in Nat /\ <<>> \in Seq(V)
  OBVIOUS
<1>2. step \in [D -> Seq(V)]
  <2> SUFFICES ASSUME NEW x \in D
               PROVE  (IF x[1] \in set THEN Append(x[2], q[x[1]]) ELSE x[2]) \in Seq(V)
    OBVIOUS
  <2>1. x[1] \in 1 .. Len(q) /\ x[2] \in Seq(V)
    OBVIOUS
  <2> QED
    BY <2>1
<1>3. \A k \in 1 .. Len(q), r \in Seq(V) :
        step[<<k, r>>] = IF k \in set THEN Append(r, q[k]) ELSE r
  OBVIOUS
<1> HIDE DEF step
<1>3a. PICK g : Recurs(g, Seq(V), Len(q), <<>>, step)
  BY <1>1, <1>2, RecursionExists
<1>4. g \in [0 .. Len(q) -> Seq(V)] /\ g[0] = <<>> /\ \A k \in 1 .. Len(q) : g[k] = step[<<k, g[k - 1]>>]
  BY <1>3a DEF Recurs
<1>5. ASSUME NEW k \in 0 .. Len(q)
      PROVE  g[k] = IF k = 0 THEN <<>> ELSE IF k \in set THEN Append(g[k - 1], q[k]) ELSE g[k - 1]
  <2>1. CASE k = 0
    BY <2>1, <1>4
  <2>2. CASE k # 0
    <3>1. k \in 1 .. Len(q) /\ k - 1 \in 0 .. Len(q)
      BY <1>1, <2>2
    <3>2. g[k - 1] \in Seq(V)
      BY <1>4, <3>1
    <3>3. step[<<k, g[k - 1]>>] = IF k \in set THEN Append(g[k - 1], q[k]) ELSE g[k - 1]
      BY <1>3, <3>1, <3>2
    <3> QED
      BY <2>2, <1>4, <3>1, <3>3
  <2> QED
    BY <2>1, <2>2
<1>6. g = [k \in 0 .. Len(q) |-> g[k]]
  BY <1>4
<1>7. IsFilter(g, q, set)
  BY <1>5, <1>6 DEF IsFilter
<1> QED
  BY <1>7

\* g holds what is left of the beginnings of q.
Filters(g, V, q, set) ==
  /\ g \in [0 .. Len(q) -> Seq(V)]
  /\ g[0] = <<>>
  /\ \A k \in 1 .. Len(q) : g[k] = IF k \in set THEN Append(g[k - 1], q[k]) ELSE g[k - 1]
  /\ Filtered(q, set) = g[Len(q)]

LEMMA FilteredFilters ==
  ASSUME NEW V, NEW q \in Seq(V), NEW set
  PROVE  \E g : Filters(g, V, q, set)
<1> DEFINE g == CHOOSE g : IsFilter(g, q, set)
<1>1. IsFilter(g, q, set)
  BY FilterExists
<1>2. Filtered(q, set) = g[Len(q)]
  BY DEF Filtered, IsFilter
<1> HIDE DEF g
<1>a. Len(q) \in Nat
  OBVIOUS
<1>b. g = [k \in 0 .. Len(q) |-> g[k]]
  BY <1>1 DEF IsFilter
<1>c. g[0] = <<>>
  BY <1>1, <1>a DEF IsFilter
<1>d. ASSUME NEW k \in 1 .. Len(q)
      PROVE  g[k] = IF k \in set THEN Append(g[k - 1], q[k]) ELSE g[k - 1]
  <2>1. k \in 0 .. Len(q) /\ k # 0
    BY <1>a
  <2> QED
    BY <1>1, <2>1 DEF IsFilter
<1>3. /\ Len(q) \in Nat
      /\ g = [k \in 0 .. Len(q) |-> g[k]]
      /\ g[0] = <<>>
      /\ \A k \in 1 .. Len(q) : g[k] = IF k \in set THEN Append(g[k - 1], q[k]) ELSE g[k - 1]
  BY <1>a, <1>b, <1>c, <1>d
<1> DEFINE P == {k \in 0 .. Len(q) : g[k] \in Seq(V)}
<1>4. 0 \in P
  BY <1>3
<1>5. ASSUME NEW k \in 1 .. Len(q), k - 1 \in P PROVE k \in P
  <2>1. g[k - 1] \in Seq(V) /\ q[k] \in V /\ k \in 0 .. Len(q)
    BY <1>3, <1>5
  <2>2. Append(g[k - 1], q[k]) \in Seq(V)
    BY <2>1
  <2> QED
    BY <1>d, <2>1, <2>2
<1>6. 0 .. Len(q) \subseteq P
  <2> HIDE DEF P
  <2> QED
    BY <1>3, <1>4, <1>5, UpTo
<1>7. g \in [0 .. Len(q) -> Seq(V)]
  BY <1>3, <1>6
<1> QED
  BY <1>2, <1>3, <1>7 DEF Filters

\* p lists the positions in set up to n in ascending order.
Enumerates(p, m, set, n) ==
  /\ p \in [1 .. m -> 1 .. n]
  /\ \A i, j \in 1 .. m : i < j => p[i] < p[j]
  /\ {p[i] : i \in 1 .. m} = set \cap (1 .. n)

LEMMA FilteredInOrder ==
  ASSUME NEW V, NEW q \in Seq(V), NEW set
  PROVE  /\ Filtered(q, set) \in Seq(V)
         /\ \E p : /\ Enumerates(p, Len(Filtered(q, set)), set, Len(q))
                   /\ \A i \in 1 .. Len(Filtered(q, set)) : Filtered(q, set)[i] = q[p[i]]
<1>0. PICK g : Filters(g, V, q, set)
  BY FilteredFilters
<1>1. /\ g \in [0 .. Len(q) -> Seq(V)]
      /\ g[0] = <<>>
      /\ \A k \in 1 .. Len(q) : g[k] = IF k \in set THEN Append(g[k - 1], q[k]) ELSE g[k - 1]
      /\ Filtered(q, set) = g[Len(q)]
  BY <1>0 DEF Filters
<1>2. Len(q) \in Nat
  OBVIOUS
<1> DEFINE Ordered(k, p) == Enumerates(p, Len(g[k]), set, k) /\ \A i \in 1 .. Len(g[k]) : g[k][i] = q[p[i]]
           P == {k \in 0 .. Len(q) : \E p : Ordered(k, p)}
<1>3. 0 \in P
  <2>1. Ordered(0, <<>>)
    BY <1>1 DEF Enumerates
  <2> QED
    BY <1>2, <2>1
<1>4. ASSUME NEW k \in 1 .. Len(q), k - 1 \in P
      PROVE  k \in P
  <2>1. PICK p : Ordered(k - 1, p)
    BY <1>4
  <2>2. CASE k \notin set
    <3>1. g[k] = g[k - 1] /\ set \cap (1 .. k) = set \cap (1 .. k - 1) /\ k \in 0 .. Len(q)
      BY <1>1, <2>2
    <3>2. Ordered(k, p)
      BY <2>1, <3>1 DEF Enumerates
    <3> QED
      BY <3>1, <3>2
  <2>3. CASE k \in set
    <3> DEFINE m == Len(g[k - 1])
               r == [i \in 1 .. m + 1 |-> IF i = m + 1 THEN k ELSE p[i]]
    <3>a. g[k] = Append(g[k - 1], q[k])
      BY <1>1, <2>3
    <3>b. k - 1 \in 0 .. Len(q) /\ k \in 0 .. Len(q) /\ q[k] \in V
      BY <1>2
    <3>c. g[k - 1] \in Seq(V)
      BY <1>1, <3>b
    <3>d. m \in Nat /\ Len(g[k]) = m + 1 /\ g[k][m + 1] = q[k] /\ \A i \in 1 .. m : g[k][i] = g[k - 1][i]
      BY <3>a, <3>b, <3>c
    <3>1. /\ g[k] = Append(g[k - 1], q[k]) /\ g[k - 1] \in Seq(V) /\ k \in 0 .. Len(q) /\ m \in Nat
          /\ Len(g[k]) = m + 1 /\ g[k][m + 1] = q[k] /\ \A i \in 1 .. m : g[k][i] = g[k - 1][i]
      BY <3>a, <3>b, <3>c, <3>d
    <3>2. Enumerates(p, m, set, k - 1) /\ \A i \in 1 .. m : g[k - 1][i] = q[p[i]]
      BY <2>1
    <3> HIDE DEF m
    <3>3. /\ r[m + 1] = k
          /\ \A i \in 1 .. m : r[i] = p[i] /\ p[i] \in 1 .. k - 1
          /\ DOMAIN r = 1 .. m + 1
      BY <3>1, <3>2 DEF Enumerates
    <3>4. r \in [1 .. m + 1 -> 1 .. k]
      <4>1. ASSUME NEW i \in 1 .. m + 1 PROVE r[i] \in 1 .. k
        <5>1. CASE i = m + 1
          BY <5>1, <3>3
        <5>2. CASE i # m + 1
          <6>1. i \in 1 .. m
            BY <3>1, <5>2
          <6> HIDE DEF r
          <6> QED
            BY <6>1, <3>3
        <5> QED
          BY <5>1, <5>2
      <4> QED
        BY <4>1
    <3>5. \A i, j \in 1 .. m + 1 : i < j => r[i] < r[j]
      <4> SUFFICES ASSUME NEW i \in 1 .. m + 1, NEW j \in 1 .. m + 1, i < j PROVE r[i] < r[j]
        OBVIOUS
      <4> HIDE DEF r
      <4>1. i \in 1 .. m
        BY <3>1
      <4>2. CASE j = m + 1
        BY <3>3, <4>1, <4>2
      <4>3. CASE j # m + 1
        <5>1. j \in 1 .. m
          BY <3>1, <4>3
        <5> QED
          BY <3>2, <3>3, <4>1, <5>1 DEF Enumerates
      <4> QED
        BY <4>2, <4>3
    <3> HIDE DEF r
    <3>6. {r[i] : i \in 1 .. m + 1} = set \cap (1 .. k)
      <4>1. \A i \in 1 .. m + 1 : r[i] \in set \cap (1 .. k)
        <5> SUFFICES ASSUME NEW i \in 1 .. m + 1 PROVE r[i] \in set \cap (1 .. k)
          OBVIOUS
        <5>1. CASE i = m + 1
          BY <5>1, <3>3, <2>3
        <5>2. CASE i # m + 1
          <6>1. i \in 1 .. m
            BY <3>1, <5>2
          <6>2. p[i] \in set \cap (1 .. k - 1)
            BY <3>2, <6>1 DEF Enumerates
          <6> QED
            BY <3>3, <6>1, <6>2
        <5> QED
          BY <5>1, <5>2
      <4>2. ASSUME NEW x \in set \cap (1 .. k) PROVE \E i \in 1 .. m + 1 : r[i] = x
        <5>1. CASE x = k
          BY <5>1, <3>3, <3>1
        <5>2. CASE x # k
          <6>1. x \in set \cap (1 .. k - 1)
            BY <5>2
          <6>2. PICK i \in 1 .. m : p[i] = x
            BY <3>2, <6>1 DEF Enumerates
          <6> QED
            BY <3>1, <3>3, <6>2
        <5> QED
          BY <5>1, <5>2
      <4> QED
        BY <4>1, <4>2
    <3>7. \A i \in 1 .. m + 1 : g[k][i] = q[r[i]]
      <4> SUFFICES ASSUME NEW i \in 1 .. m + 1 PROVE g[k][i] = q[r[i]]
        OBVIOUS
      <4>1. CASE i = m + 1
        BY <4>1, <3>1, <3>3
      <4>2. CASE i # m + 1
        <5>1. i \in 1 .. m
          BY <3>1, <4>2
        <5> QED
          BY <5>1, <3>1, <3>2, <3>3
      <4> QED
        BY <4>1, <4>2
    <3>8. Ordered(k, r)
      BY <3>1, <3>4, <3>5, <3>6, <3>7 DEF Enumerates
    <3> QED
      BY <3>1, <3>8
  <2> QED
    BY <2>2, <2>3
<1>5. 0 .. Len(q) \subseteq P
  <2> HIDE DEF P
  <2> QED
    BY <1>2, <1>3, <1>4, UpTo
<1>6. PICK p : Ordered(Len(q), p)
  BY <1>2, <1>5
<1> QED
  BY <1>1, <1>2, <1>6

-----------------------------------------------------------------------------
(* Sequences one after the other *)

IsSeqs(F, V) ==
  /\ Len(F) \in Nat
  /\ Len(F) = 0 => F = <<>>
  /\ \A k \in 1 .. Len(F) : F[k] \in Seq(V) /\ Len(F[k]) \in Nat

LEMMA IsSequence ==
  ASSUME NEW V, NEW n \in Nat, NEW f \in [1 .. n -> V]
  PROVE  f \in Seq(V) /\ Len(f) = n /\ (n = 0 => f = <<>>)
  OBVIOUS

LEMMA Concat ==
  ASSUME NEW V, NEW a \in Seq(V), NEW b \in Seq(V)
  PROVE  /\ a \o b \in Seq(V) /\ Len(a) \in Nat /\ Len(b) \in Nat /\ Len(a \o b) = Len(a) + Len(b)
         /\ \A i \in 1 .. Len(a) : (a \o b)[i] = a[i]
         /\ \A i \in 1 .. Len(b) : (a \o b)[Len(a) + i] = b[i]
         /\ <<>> \o b = b /\ a \o <<>> = a
  OBVIOUS

LEMMA ConcatNext ==
  ASSUME NEW V, NEW a \in Seq(V), NEW b \in Seq(V), NEW i \in 1 .. Len(b)
  PROVE  (a \o b)[Len(a) + i] = b[i]
  OBVIOUS

IsFlat(h, F) == h = [i \in 1 .. Len(F) |-> IF i = 1 THEN F[i] ELSE h[i - 1] \o F[i]]

LEMMA FlatExists ==
  ASSUME NEW V, NEW F, IsSeqs(F, V)
  PROVE  \E h : IsFlat(h, F)
<1> DEFINE D == (1 .. Len(F)) \X Seq(V)
           step == [x \in D |-> x[2] \o F[x[1]]]
<1>1. Len(F) \in Nat /\ <<>> \in Seq(V) /\ \A k \in 1 .. Len(F) : F[k] \in Seq(V)
  BY DEF IsSeqs
<1>2. step \in [D -> Seq(V)]
  <2> SUFFICES ASSUME NEW x \in D PROVE x[2] \o F[x[1]] \in Seq(V)
    OBVIOUS
  <2>1. x[1] \in 1 .. Len(F) /\ x[2] \in Seq(V)
    OBVIOUS
  <2> QED
    BY <1>1, <2>1
<1>3. \A k \in 1 .. Len(F), r \in Seq(V) : step[<<k, r>>] = r \o F[k]
  OBVIOUS
<1> HIDE DEF step
<1>4. PICK g : Recurs(g, Seq(V), Len(F), <<>>, step)
  BY <1>1, <1>2, RecursionExists
<1>5. g \in [0 .. Len(F) -> Seq(V)] /\ g[0] = <<>> /\ \A k \in 1 .. Len(F) : g[k] = step[<<k, g[k - 1]>>]
  BY <1>4 DEF Recurs
<1>6. ASSUME NEW k \in 1 .. Len(F) PROVE g[k - 1] \in Seq(V) /\ g[k] = g[k - 1] \o F[k]
  <2>1. k - 1 \in 0 .. Len(F)
    BY <1>1
  <2>2. g[k - 1] \in Seq(V)
    BY <1>5, <2>1
  <2> QED
    BY <1>3, <1>5, <2>2
<1> DEFINE h == [i \in 1 .. Len(F) |-> g[i]]
<1>7. ASSUME NEW i \in 1 .. Len(F) PROVE h[i] = IF i = 1 THEN F[i] ELSE h[i - 1] \o F[i]
  <2>1. CASE i = 1
    <3>1. i - 1 = 0
      BY <2>1
    <3>2. g[i] = <<>> \o F[i]
      BY <1>5, <1>6, <3>1
    <3>3. F[i] \in Seq(V)
      BY <1>1
    <3>4. g[i] = F[i]
      BY <3>2, <3>3
    <3> QED
      BY <2>1, <3>4
  <2>2. CASE i # 1
    <3>1. i - 1 \in 1 .. Len(F)
      BY <1>1, <2>2
    <3> QED
      BY <1>6, <2>2, <3>1
  <2> QED
    BY <2>1, <2>2
<1>8. h = [i \in 1 .. Len(F) |-> h[i]]
  OBVIOUS
<1> HIDE DEF h
<1>9. IsFlat(h, F)
  BY <1>7, <1>8 DEF IsFlat
<1> QED
  BY <1>9

\* g holds the beginnings of F one after the other.
Flattens(g, V, F) ==
  /\ g \in [0 .. Len(F) -> Seq(V)]
  /\ g[0] = <<>>
  /\ \A k \in 1 .. Len(F) : g[k] = g[k - 1] \o F[k]
  /\ FlattenSeq(F) = g[Len(F)]

LEMMA FlattenFlattens ==
  ASSUME NEW V, NEW F, IsSeqs(F, V)
  PROVE  \E g : Flattens(g, V, F)
<1> DEFINE h == CHOOSE h : IsFlat(h, F)
<1>1. IsFlat(h, F)
  BY FlatExists
<1>2. Len(F) # 0 => FlattenSeq(F) = h[Len(F)]
  BY DEF FlattenSeq, IsFlat
<1>3. Len(F) = 0 => FlattenSeq(F) = <<>>
  BY DEF FlattenSeq, IsSeqs
<1> HIDE DEF h
<1>4. ASSUME NEW k \in 1 .. Len(F) PROVE h[k] = IF k = 1 THEN F[k] ELSE h[k - 1] \o F[k]
  BY <1>1 DEF IsFlat
<1>5. Len(F) \in Nat /\ \A k \in 1 .. Len(F) : F[k] \in Seq(V)
  BY DEF IsSeqs
<1> DEFINE g == [k \in 0 .. Len(F) |-> IF k = 0 THEN <<>> ELSE h[k]]
           P == {k \in 0 .. Len(F) : g[k] \in Seq(V)}
<1>6. g[0] = <<>> /\ \A k \in 1 .. Len(F) : g[k] = h[k]
  BY <1>5
<1>7. ASSUME NEW k \in 1 .. Len(F) PROVE g[k] = g[k - 1] \o F[k]
  <2>1. CASE k = 1
    <3>1. g[k - 1] = <<>> /\ g[k] = F[1] /\ F[1] \in Seq(V)
      BY <2>1, <1>4, <1>5, <1>6
    <3> HIDE DEF g
    <3> QED
      BY <2>1, <3>1
  <2>2. CASE k # 1
    <3>1. k - 1 \in 1 .. Len(F)
      BY <1>5, <2>2
    <3> HIDE DEF g
    <3> QED
      BY <2>2, <3>1, <1>4, <1>6
  <2> QED
    BY <2>1, <2>2
<1>8. DOMAIN g = 0 .. Len(F) /\ g = [k \in 0 .. Len(F) |-> g[k]]
  OBVIOUS
<1> HIDE DEF g
<1>9. 0 .. Len(F) \subseteq P
  <2>1. 0 \in P
    <3>1. g[0] \in Seq(V) /\ 0 \in 0 .. Len(F)
      BY <1>5, <1>6
    <3> QED
      BY <3>1
  <2>2. ASSUME NEW k \in 1 .. Len(F), k - 1 \in P PROVE k \in P
    <3>1. g[k - 1] \in Seq(V) /\ F[k] \in Seq(V) /\ k \in 0 .. Len(F)
      BY <1>5, <2>2
    <3>2. g[k] = g[k - 1] \o F[k]
      BY <1>7
    <3>3. g[k] \in Seq(V)
      BY <3>1, <3>2, Concat
    <3> QED
      BY <3>1, <3>3
  <2> HIDE DEF P
  <2> QED
    BY <1>5, <2>1, <2>2, UpTo
<1>10. g \in [0 .. Len(F) -> Seq(V)]
  BY <1>8, <1>9
<1>11. FlattenSeq(F) = g[Len(F)]
  <2>1. CASE Len(F) = 0
    BY <2>1, <1>3, <1>6
  <2>2. CASE Len(F) # 0
    <3>1. Len(F) \in 1 .. Len(F)
      BY <1>5, <2>2
    <3> QED
      BY <1>2, <1>6, <2>2, <3>1
  <2> QED
    BY <2>1, <2>2
<1> QED
  BY <1>6, <1>7, <1>10, <1>11 DEF Flattens

\* e[k] is where the k-th sequence ends when all are put one after the other,
\* and r the result.
Places(e, V, F, r) ==
  /\ e \in [0 .. Len(F) -> Nat]
  /\ e[0] = 0
  /\ \A k \in 1 .. Len(F) : e[k] = e[k - 1] + Len(F[k])
  /\ r \in Seq(V)
  /\ Len(r) = e[Len(F)]
  /\ \A k \in 1 .. Len(F) : \A j \in 1 .. Len(F[k]) : e[k - 1] + j \in 1 .. Len(r) /\ r[e[k - 1] + j] = F[k][j]

LEMMA FlattenPlaces ==
  ASSUME NEW V, NEW F, IsSeqs(F, V)
  PROVE  \E e : Places(e, V, F, FlattenSeq(F))
<1>1. PICK g : Flattens(g, V, F)
  BY FlattenFlattens
<1>2. /\ g \in [0 .. Len(F) -> Seq(V)] /\ g[0] = <<>>
      /\ \A k \in 1 .. Len(F) : g[k] = g[k - 1] \o F[k]
      /\ FlattenSeq(F) = g[Len(F)]
  BY <1>1 DEF Flattens
<1> DEFINE e == [k \in 0 .. Len(F) |-> Len(g[k])]
<1>3. Len(F) \in Nat /\ \A k \in 1 .. Len(F) : F[k] \in Seq(V) /\ Len(F[k]) \in Nat
  BY DEF IsSeqs
<1>4. e \in [0 .. Len(F) -> Nat]
  BY <1>2
<1>5. e[0] = 0
  BY <1>2, <1>3
<1>6. ASSUME NEW k \in 1 .. Len(F)
      PROVE  /\ g[k - 1] \in Seq(V) /\ e[k - 1] = Len(g[k - 1]) /\ e[k] = Len(g[k]) /\ e[k] = e[k - 1] + Len(F[k])
             /\ e[k - 1] \in Nat /\ k \in 0 .. Len(F) /\ k - 1 \in 0 .. Len(F)
  <2>1. k - 1 \in 0 .. Len(F) /\ k \in 0 .. Len(F)
    BY <1>3
  <2>2. g[k - 1] \in Seq(V)
    BY <1>2, <2>1
  <2>3. g[k] = g[k - 1] \o F[k] /\ F[k] \in Seq(V)
    BY <1>2, <1>3
  <2>4. Len(g[k]) = Len(g[k - 1]) + Len(F[k]) /\ Len(g[k - 1]) \in Nat
    BY <2>2, <2>3, Concat
  <2>5. e[k - 1] = Len(g[k - 1]) /\ e[k] = Len(g[k])
    BY <2>1
  <2> QED
    BY <2>1, <2>2, <2>4, <2>5
<1> DEFINE P == {m \in 0 .. Len(F) :
             \A k \in 1 .. m : \A j \in 1 .. Len(F[k]) : e[k - 1] + j \in 1 .. e[m] /\ g[m][e[k - 1] + j] = F[k][j]}
<1> HIDE DEF e
<1>7. 0 \in P
  BY <1>3
<1>8. ASSUME NEW m \in 1 .. Len(F), m - 1 \in P PROVE m \in P
  <2> SUFFICES ASSUME NEW k \in 1 .. m, NEW j \in 1 .. Len(F[k])
               PROVE  e[k - 1] + j \in 1 .. e[m] /\ g[m][e[k - 1] + j] = F[k][j]
    BY <1>6
  <2>0. k \in 1 .. Len(F)
    BY <1>3
  <2>a. g[m] = g[m - 1] \o F[m]
    BY <1>2
  <2>b. F[m] \in Seq(V)
    BY <1>3
  <2>1. g[m] = g[m - 1] \o F[m] /\ F[m] \in Seq(V) /\ k \in 1 .. Len(F)
    BY <2>0, <2>a, <2>b
  <2>c. g[m - 1] \in Seq(V) /\ Len(g[m - 1]) = e[m - 1] /\ e[m] = e[m - 1] + Len(F[m]) /\ e[m - 1] \in Nat
    BY <1>6
  <2>d. /\ \A i \in 1 .. e[m - 1] : g[m][i] = g[m - 1][i]
        /\ \A i \in 1 .. Len(F[m]) : g[m][e[m - 1] + i] = F[m][i]
        /\ Len(F[m]) \in Nat
    <3> DEFINE a == g[m - 1]
               b == F[m]
    <3>1. a \in Seq(V) /\ b \in Seq(V) /\ g[m] = a \o b /\ Len(a) = e[m - 1]
      BY <2>1, <2>c
    <3> HIDE DEF a, b
    <3>2. \A i \in 1 .. Len(a) : (a \o b)[i] = a[i]
      BY <3>1, Concat
    <3>3. ASSUME NEW i \in 1 .. Len(b) PROVE (a \o b)[Len(a) + i] = b[i]
      BY <3>1, ConcatNext
    <3>4. Len(b) \in Nat
      BY <3>1
    <3> QED
      BY <3>1, <3>2, <3>3, <3>4 DEF a, b
  <2>e. e[m - 1] \in Nat /\ Len(F[m]) \in Nat /\ e[m] = e[m - 1] + Len(F[m])
    BY <2>c, <2>d
  <2>2. CASE k = m
    <3>1. j \in 1 .. Len(F[m])
      BY <2>2
    <3>2. e[m - 1] + j \in 1 .. e[m]
      BY <3>1, <2>e
    <3> QED
      BY <2>2, <2>d, <3>1, <3>2
  <2>3. CASE k # m
    <3>1. k \in 1 .. m - 1
      BY <2>3
    <3>2. e[k - 1] + j \in 1 .. e[m - 1] /\ g[m - 1][e[k - 1] + j] = F[k][j]
      BY <1>8, <3>1
    <3>3. e[k - 1] + j \in 1 .. e[m]
      BY <3>2, <2>e
    <3> QED
      BY <2>d, <3>2, <3>3
  <2> QED
    BY <2>2, <2>3
<1>9. 0 .. Len(F) \subseteq P
  <2> HIDE DEF P
  <2> QED
    BY <1>3, <1>7, <1>8, UpTo
<1>10. Len(F) \in P
  BY <1>3, <1>9
<1>11. FlattenSeq(F) \in Seq(V) /\ Len(FlattenSeq(F)) = e[Len(F)]
  BY <1>2, <1>3 DEF e
<1>12. Places(e, V, F, FlattenSeq(F))
  BY <1>2, <1>4, <1>5, <1>6, <1>10, <1>11 DEF Places
<1> QED
  BY <1>12

\* Every element of the result comes from one of the sequences, and the
\* sequences do not overlap.
LEMMA PlacesCover ==
  ASSUME NEW V, NEW F, IsSeqs(F, V), NEW e, NEW r, Places(e, V, F, r), NEW x \in 1 .. Len(r)
  PROVE  \E k \in 1 .. Len(F) : \E j \in 1 .. Len(F[k]) : x = e[k - 1] + j
<1> DEFINE P == {m \in 0 .. Len(F) : x <= e[m] => \E k \in 1 .. m : \E j \in 1 .. Len(F[k]) : x = e[k - 1] + j}
<1>1. Len(F) \in Nat /\ x \in Nat /\ x >= 1 /\ \A k \in 1 .. Len(F) : Len(F[k]) \in Nat
  BY DEF Places, IsSeqs
<1>2. 0 \in P
  BY <1>1 DEF Places
<1>3. ASSUME NEW m \in 1 .. Len(F), m - 1 \in P PROVE m \in P
  <2>1. m \in 0 .. Len(F) /\ m - 1 \in 0 .. Len(F) /\ m \in 1 .. m
    BY <1>1
  <2>2. e[m - 1] \in Nat /\ e[m] = e[m - 1] + Len(F[m])
    BY <2>1 DEF Places
  <2>3. CASE x <= e[m - 1]
    <3>1. PICK k \in 1 .. m - 1 : \E j \in 1 .. Len(F[k]) : x = e[k - 1] + j
      BY <1>3, <2>3
    <3>2. k \in 1 .. m
      OBVIOUS
    <3> QED
      BY <2>1, <3>1, <3>2
  <2>4. CASE ~(x <= e[m - 1])
    <3>1. ASSUME x <= e[m] PROVE \E k \in 1 .. m : \E j \in 1 .. Len(F[k]) : x = e[k - 1] + j
      <4>1. x - e[m - 1] \in 1 .. Len(F[m]) /\ x = e[m - 1] + (x - e[m - 1])
        BY <1>1, <2>2, <2>4, <3>1
      <4> QED
        BY <2>1, <4>1
    <3> QED
      BY <2>1, <3>1
  <2> QED
    BY <2>3, <2>4
<1>4. 0 .. Len(F) \subseteq P
  <2> HIDE DEF P
  <2> QED
    BY <1>1, <1>2, <1>3, UpTo
<1>5. Len(F) \in P
  BY <1>1, <1>4
<1>6. x <= e[Len(F)]
  BY <1>1 DEF Places
<1> QED
  BY <1>5, <1>6

LEMMA PlacesGrow ==
  ASSUME NEW V, NEW F, IsSeqs(F, V), NEW e, NEW r, Places(e, V, F, r),
         NEW k \in 0 .. Len(F), NEW m \in 0 .. Len(F), k <= m
  PROVE  e[k] <= e[m]
<1> DEFINE P == {i \in 0 .. Len(F) : k <= i => e[k] <= e[i]}
<1>1. /\ Len(F) \in Nat /\ \A i \in 0 .. Len(F) : e[i] \in Nat
      /\ \A i \in 1 .. Len(F) : Len(F[i]) \in Nat
  BY DEF Places, IsSeqs
<1>2. 0 \in P
  BY <1>1
<1>3. ASSUME NEW i \in 1 .. Len(F), i - 1 \in P PROVE i \in P
  <2>1. i \in 0 .. Len(F) /\ i - 1 \in 0 .. Len(F) /\ Len(F[i]) \in Nat /\ e[i] = e[i - 1] + Len(F[i])
    BY <1>1 DEF Places
  <2>2. e[i - 1] \in Nat /\ e[i] \in Nat /\ e[k] \in Nat
    BY <1>1, <2>1
  <2>3. CASE k = i
    BY <2>1, <2>2, <2>3
  <2>4. CASE k # i
    BY <1>3, <2>1, <2>2, <2>4
  <2> QED
    BY <2>3, <2>4
<1>4. 0 .. Len(F) \subseteq P
  <2> HIDE DEF P
  <2> QED
    BY <1>1, <1>2, <1>3, UpTo
<1> QED
  BY <1>4

-----------------------------------------------------------------------------
(* A sequence of n elements cut into pieces *)

\* st lists the places before which it is cut, m of them.
PieceEnd(st, m, n, k) == IF k = m THEN n ELSE st[k + 1] - 1
CutsInto(st, m, cuts, n) ==
  /\ m \in Nat /\ n \in Nat /\ (m = 0 <=> n = 0)
  /\ m # 0 => st[1] = 1
  /\ \A k \in 1 .. m : /\ st[k] \in 1 .. n /\ st[k] \in cuts
                       /\ PieceEnd(st, m, n, k) \in st[k] .. n
                       /\ \A i \in st[k] + 1 .. PieceEnd(st, m, n, k) : i \notin cuts

Starts(n, cuts) == Filtered([i \in 1 .. n |-> i], cuts)

LEMMA StartsCut ==
  ASSUME NEW n \in Nat, NEW cuts \in SUBSET (1 .. n), n # 0 => 1 \in cuts
  PROVE  CutsInto(Starts(n, cuts), Len(Starts(n, cuts)), cuts, n)
<1> DEFINE q == [i \in 1 .. n |-> i]
           st == Starts(n, cuts)
           m == Len(st)
<1>1. q \in Seq(1 .. n) /\ Len(q) = n
  OBVIOUS
<1>2. st = Filtered(q, cuts)
  BY DEF Starts
<1> HIDE DEF q, st
<1>0. st \in Seq(1 .. n) /\ \E p : Enumerates(p, Len(st), cuts, Len(q)) /\ \A i \in 1 .. Len(st) : st[i] = q[p[i]]
  BY <1>1, <1>2, FilteredInOrder
<1>a. Len(q) = n
  BY <1>1
<1>b. PICK p : Enumerates(p, Len(st), cuts, n) /\ \A i \in 1 .. Len(st) : st[i] = q[p[i]]
  BY <1>0, <1>a
<1>3. Enumerates(p, m, cuts, n) /\ (\A i \in 1 .. m : st[i] = q[p[i]]) /\ m \in Nat
  BY <1>0, <1>b
<1>4. \A i \in 1 .. m : st[i] = p[i] /\ p[i] \in 1 .. n
  BY <1>3 DEF Enumerates, q
<1>5. /\ \A i, j \in 1 .. m : i < j => st[i] < st[j]
      /\ \A i \in 1 .. m : st[i] \in cuts /\ st[i] \in 1 .. n
      /\ \A c \in cuts : \E i \in 1 .. m : st[i] = c
  BY <1>3, <1>4 DEF Enumerates
<1> HIDE DEF m
<1>6. m = 0 <=> n = 0
  <2>1. ASSUME n # 0 PROVE m # 0
    BY <2>1, <1>5
  <2>2. ASSUME m # 0 PROVE n # 0
    <3>1. 1 \in 1 .. m
      BY <2>2, <1>3
    <3> QED
      BY <3>1, <1>5
  <2> QED
    BY <2>1, <2>2
<1>7. ASSUME m # 0 PROVE st[1] = 1
  <2>1. PICK k \in 1 .. m : st[k] = 1
    BY <1>5, <1>6, <1>7
  <2>2. 1 \in 1 .. m
    BY <1>3, <1>7
  <2>3. 1 < k => st[1] < 1 /\ st[1] \in 1 .. n
    BY <1>5, <2>1, <2>2
  <2> QED
    BY <2>1, <2>3
<1>8. ASSUME NEW k \in 1 .. m
      PROVE  /\ PieceEnd(st, m, n, k) \in st[k] .. n
             /\ \A i \in st[k] + 1 .. PieceEnd(st, m, n, k) : i \notin cuts
  <2>1. k # m => k + 1 \in 1 .. m /\ st[k] < st[k + 1] /\ st[k + 1] \in 1 .. n
    BY <1>3, <1>5
  <2>2. st[k] \in 1 .. n
    BY <1>5
  <2>3. PieceEnd(st, m, n, k) \in st[k] .. n
    BY <2>1, <2>2 DEF PieceEnd
  <2>4. ASSUME NEW i \in st[k] + 1 .. PieceEnd(st, m, n, k), i \in cuts PROVE FALSE
    <3>1. PICK j \in 1 .. m : st[j] = i
      BY <1>5, <2>4
    <3>2. st[k] < st[j] /\ st[j] \in 1 .. n
      BY <1>5, <2>2, <2>3, <3>1
    <3>3. ~(j < k) /\ j # k
      BY <1>5, <2>2, <3>2
    <3>4. k # m /\ k + 1 <= j
      BY <1>3, <3>3
    <3>5. i <= st[k + 1] - 1
      BY <3>4 DEF PieceEnd
    <3>6. CASE j = k + 1
      BY <2>1, <3>1, <3>2, <3>4, <3>5, <3>6
    <3>7. CASE j # k + 1
      <4>1. st[k + 1] < st[j]
        BY <1>3, <1>5, <2>1, <3>4, <3>7
      <4> QED
        BY <2>1, <3>1, <3>2, <3>4, <3>5, <4>1
    <3> QED
      BY <3>6, <3>7
  <2> QED
    BY <2>3, <2>4
<1>9. CutsInto(st, m, cuts, n)
  BY <1>3, <1>5, <1>6, <1>7, <1>8 DEF CutsInto
<1> QED
  BY <1>9 DEF m, st

\* Every place is in a piece.
LEMMA PiecesCover ==
  ASSUME NEW st, NEW m, NEW cuts, NEW n, CutsInto(st, m, cuts, n), NEW i \in 1 .. n
  PROVE  \E k \in 1 .. m : i \in st[k] .. PieceEnd(st, m, n, k)
<1> DEFINE P == {j \in 0 .. m : j # 0 /\ i <= PieceEnd(st, m, n, j) => \E k \in 1 .. j : i \in st[k] .. PieceEnd(st, m, n, k)}
<1>1. /\ m \in Nat /\ n \in Nat /\ m # 0 /\ st[1] = 1
      /\ \A k \in 1 .. m : st[k] \in 1 .. n /\ PieceEnd(st, m, n, k) \in st[k] .. n
  BY DEF CutsInto
<1>2. 0 \in P
  BY <1>1
<1>3. ASSUME NEW j \in 1 .. m, j - 1 \in P PROVE j \in P
  <2> SUFFICES ASSUME i <= PieceEnd(st, m, n, j)
               PROVE  \E k \in 1 .. j : i \in st[k] .. PieceEnd(st, m, n, k)
    BY <1>1
  <2>1. j \in 1 .. j /\ st[j] \in 1 .. n /\ PieceEnd(st, m, n, j) \in st[j] .. n
    BY <1>1
  <2>2. CASE i >= st[j]
    BY <2>1, <2>2
  <2>3. CASE ~(i >= st[j])
    <3>1. j # 1 /\ j - 1 \in 1 .. m
      BY <1>1, <2>1, <2>3
    <3>2. PieceEnd(st, m, n, j - 1) = st[j] - 1
      BY <1>1, <3>1 DEF PieceEnd
    <3>3. i <= PieceEnd(st, m, n, j - 1)
      BY <2>1, <2>3, <3>2
    <3>4. PICK k \in 1 .. j - 1 : i \in st[k] .. PieceEnd(st, m, n, k)
      BY <1>3, <3>1, <3>3
    <3>5. k \in 1 .. j
      BY <1>1
    <3> QED
      BY <3>4, <3>5
  <2> QED
    BY <2>2, <2>3
<1>4. 0 .. m \subseteq P
  <2> HIDE DEF P
  <2> QED
    BY <1>1, <1>2, <1>3, UpTo
<1>5. m \in 0 .. m /\ i <= n
  BY <1>1
<1>6. PieceEnd(st, m, n, m) = n
  BY DEF PieceEnd
<1>7. m \in P
  BY <1>4, <1>5
<1> QED
  BY <1>1, <1>5, <1>6, <1>7

\* Sequences as long as the pieces make up a sequence as long as the one that
\* was cut, and each begins where its piece did.
LEMMA FlattenPieces ==
  ASSUME NEW st, NEW m, NEW cuts, NEW n, CutsInto(st, m, cuts, n),
         NEW V, NEW F, IsSeqs(F, V), Len(F) = m,
         \A k \in 1 .. m : Len(F[k]) = PieceEnd(st, m, n, k) - st[k] + 1
  PROVE  /\ FlattenSeq(F) \in Seq(V) /\ Len(FlattenSeq(F)) = n
         /\ \A k \in 1 .. m : \A i \in st[k] .. PieceEnd(st, m, n, k) : FlattenSeq(F)[i] = F[k][i - st[k] + 1]
<1>1. PICK e : Places(e, V, F, FlattenSeq(F))
  BY FlattenPlaces
<1> DEFINE r == FlattenSeq(F)
<1> HIDE DEF r
<1>2. /\ e \in [0 .. m -> Nat] /\ e[0] = 0
      /\ \A k \in 1 .. m : e[k] = e[k - 1] + Len(F[k])
      /\ r \in Seq(V) /\ Len(r) = e[m]
      /\ \A k \in 1 .. m : \A j \in 1 .. Len(F[k]) : r[e[k - 1] + j] = F[k][j]
  BY <1>1 DEF Places, r
<1>3. /\ m \in Nat /\ n \in Nat /\ (m = 0 <=> n = 0) /\ (m # 0 => st[1] = 1)
      /\ \A k \in 1 .. m : st[k] \in 1 .. n /\ PieceEnd(st, m, n, k) \in st[k] .. n
  BY DEF CutsInto
<1> DEFINE P == {k \in 0 .. m : IF k = m THEN e[k] = n ELSE e[k] = st[k + 1] - 1}
<1>4. 0 \in P
  BY <1>2, <1>3
<1>5. ASSUME NEW k \in 1 .. m, k - 1 \in P PROVE k \in P
  <2>0. k - 1 # m /\ (k - 1) + 1 = k
    BY <1>3
  <2>a. e[k - 1] = st[(k - 1) + 1] - 1
    BY <1>5, <2>0
  <2>1. e[k - 1] = st[k] - 1 /\ e[k] = e[k - 1] + Len(F[k])
    BY <1>2, <2>0, <2>a
  <2>2. st[k] \in 1 .. n /\ PieceEnd(st, m, n, k) \in st[k] .. n
    BY <1>3
  <2>3. e[k] = PieceEnd(st, m, n, k)
    <3> DEFINE a == st[k]
               b == PieceEnd(st, m, n, k)
               l == Len(F[k])
    <3>1. l = b - a + 1
      OBVIOUS
    <3>0. n \in Nat /\ a \in 1 .. n /\ b \in a .. n
      BY <1>3, <2>2
    <3>3. a \in Nat /\ b \in Nat
      <4> HIDE DEF a, b
      <4> QED
        BY <3>0
    <3>4. e[k] = (a - 1) + l
      BY <2>1
    <3> HIDE DEF a, b, l
    <3>2. e[k] = b
      BY <3>1, <3>3, <3>4
    <3> QED
      BY <3>2 DEF b
  <2> QED
    BY <1>3, <2>3 DEF PieceEnd
<1>6. 0 .. m \subseteq P
  <2> HIDE DEF P
  <2> QED
    BY <1>3, <1>4, <1>5, UpTo
<1>7. e[m] = n
  BY <1>3, <1>6
<1>8. ASSUME NEW k \in 1 .. m, NEW i \in st[k] .. PieceEnd(st, m, n, k)
      PROVE  r[i] = F[k][i - st[k] + 1]
  <2>0. k - 1 # m /\ (k - 1) + 1 = k /\ k - 1 \in 0 .. m
    BY <1>3
  <2>a. e[k - 1] = st[(k - 1) + 1] - 1
    BY <1>6, <2>0
  <2>1. e[k - 1] = st[k] - 1
    BY <2>0, <2>a
  <2>2. st[k] \in 1 .. n /\ PieceEnd(st, m, n, k) \in st[k] .. n
    BY <1>3
  <2>3. i - st[k] + 1 \in 1 .. Len(F[k]) /\ e[k - 1] + (i - st[k] + 1) = i
    BY <2>1, <2>2
  <2> QED
    BY <1>2, <2>3
<1> QED
  BY <1>2, <1>7, <1>8 DEF r

\* What changes only at cuts is the same within a piece.
LEMMA SameInPiece ==
  ASSUME NEW st, NEW m, NEW cuts, NEW n, CutsInto(st, m, cuts, n), NEW v,
         \A i \in 2 .. n : i \notin cuts => v[i] = v[i - 1],
         NEW k \in 1 .. m, NEW i \in st[k] .. PieceEnd(st, m, n, k)
  PROVE  v[i] = v[st[k]]
<1> DEFINE a == st[k]
           z == PieceEnd(st, m, n, k)
           P == {d \in 0 .. z - a : v[a + d] = v[a]}
<1>1. a \in 1 .. n /\ z \in a .. n /\ n \in Nat /\ \A j \in a + 1 .. z : j \notin cuts
  BY DEF CutsInto
<1> HIDE DEF a, z
<1>2. 0 \in P
  BY <1>1
<1>3. ASSUME NEW d \in 1 .. z - a, d - 1 \in P PROVE d \in P
  <2>1. a + d \in a + 1 .. z /\ a + d \in 2 .. n /\ (a + d) - 1 = a + (d - 1)
    BY <1>1
  <2>2. v[a + d] = v[(a + d) - 1]
    BY <1>1, <2>1
  <2>3. v[a + (d - 1)] = v[a]
    BY <1>3
  <2> QED
    BY <1>1, <2>1, <2>2, <2>3
<1>4. z - a \in Nat
  BY <1>1
<1>5. 0 .. z - a \subseteq P
  <2> HIDE DEF P
  <2> QED
    BY <1>2, <1>3, <1>4, UpTo
<1>6. i - a \in 0 .. z - a /\ a + (i - a) = i
  BY <1>1 DEF a, z
<1> QED
  BY <1>5, <1>6 DEF a

-----------------------------------------------------------------------------
(* Writing a block and reading it *)

FixupRecord ==
  [section : Nat, offset : Nat, width : {1, 2, 4}, target : Nat, block : Nat, group : Nat]

\* The fixups of an object that was not read from a file.
Fresh(q) ==
  /\ q \in Seq(FixupRecord)
  /\ \A i \in 1 .. Len(q) : q[i].block = 0 /\ q[i].group = 0 /\ q[i].width \in {2, 4}

BlockCuts(q) == {i \in 1 .. Len(q) : i = 1 \/ ~SameBlock(q[i - 1], q[i])}
GroupCuts(q) == {i \in 1 .. Len(q) : i = 1 \/ ~SameGroup(q[i - 1], q[i])}

LEMMA PiecesAre ==
  ASSUME NEW q, Len(q) \in Nat, NEW cuts \in SUBSET (1 .. Len(q)), Len(q) # 0 => 1 \in cuts
  PROVE  LET st == Starts(Len(q), cuts)
         IN  Pieces(q, cuts) = [k \in 1 .. Len(st) |-> SubSeq(q, st[k], PieceEnd(st, Len(st), Len(q), k))]
  BY DEF Pieces, Starts, PieceEnd

LEMMA PieceType ==
  ASSUME NEW V, NEW q \in Seq(V), NEW a \in 1 .. Len(q), NEW z \in a .. Len(q)
  PROVE  /\ SubSeq(q, a, z) \in Seq(V) /\ Len(SubSeq(q, a, z)) = z - a + 1
         /\ \A i \in 1 .. z - a + 1 : SubSeq(q, a, z)[i] = q[a + i - 1]
         /\ \A i \in a .. z : SubSeq(q, a, z)[i - a + 1] = q[i]
<1>1. SubSeq(q, a, z) \in Seq(V) /\ Len(SubSeq(q, a, z)) = z - a + 1
  OBVIOUS
<1>2. ASSUME NEW i \in 1 .. z - a + 1 PROVE SubSeq(q, a, z)[i] = q[a + i - 1]
  OBVIOUS
<1>3. ASSUME NEW i \in a .. z PROVE SubSeq(q, a, z)[i - a + 1] = q[i]
  <2>1. i - a + 1 \in 1 .. z - a + 1 /\ a + (i - a + 1) - 1 = i
    OBVIOUS
  <2> QED
    BY <1>2, <2>1
<1> QED
  BY <1>1, <1>2, <1>3

\* A piece all of whose fixups have the kind of the first.
OneBlock(p) == Fresh(p) /\ Len(p) \in Nat \ {0} /\ \A i \in 1 .. Len(p) : p[i].width = p[1].width

GroupStarts(p) == Starts(Len(p), GroupCuts(p))
GroupCount(p) == Len(GroupStarts(p))
GroupEnd(p, k) == PieceEnd(GroupStarts(p), GroupCount(p), Len(p), k)
GroupPiece(p, k) == SubSeq(p, GroupStarts(p)[k], GroupEnd(p, k))

\* What is read is p with section s and the numbers of its block and group.
Read(p, i, s, b, k) ==
  [section |-> s, offset |-> p[i].offset, width |-> p[i].width, target |-> p[i].target, block |-> b, group |-> k]

LEMMA GroupsCut ==
  ASSUME NEW p \in Seq(FixupRecord), Len(p) # 0
  PROVE  /\ CutsInto(GroupStarts(p), GroupCount(p), GroupCuts(p), Len(p))
         /\ Block(p) = [kind |-> RecordKind(p[1]), groups |-> [k \in 1 .. GroupCount(p) |-> Group(GroupPiece(p, k))]]
<1>1. Len(p) \in Nat /\ GroupCuts(p) \in SUBSET (1 .. Len(p)) /\ 1 \in GroupCuts(p)
  BY DEF GroupCuts
<1>2. CutsInto(GroupStarts(p), GroupCount(p), GroupCuts(p), Len(p))
  BY <1>1, StartsCut DEF GroupStarts, GroupCount
<1> DEFINE st == GroupStarts(p)
           m == GroupCount(p)
<1>3. m \in Nat
  BY <1>2 DEF CutsInto
<1>4. Pieces(p, GroupCuts(p)) = [k \in 1 .. m |-> GroupPiece(p, k)]
  BY <1>1, PiecesAre DEF GroupStarts, GroupCount, GroupEnd, GroupPiece
<1>5. Runs(p, SameGroup) = Pieces(p, GroupCuts(p))
  BY DEF Runs, GroupCuts
<1> HIDE DEF st, m
<1>6. Block(p) = [kind |-> RecordKind(p[1]), groups |-> [k \in 1 .. m |-> Group(GroupPiece(p, k))]]
  BY <1>4, <1>5 DEF Block
<1> QED
  BY <1>2, <1>6 DEF st, m

LEMMA GroupBounds ==
  ASSUME NEW p \in Seq(FixupRecord), Len(p) # 0, NEW k \in 1 .. GroupCount(p)
  PROVE  /\ GroupStarts(p)[k] \in 1 .. Len(p) /\ GroupEnd(p, k) \in GroupStarts(p)[k] .. Len(p)
         /\ GroupPiece(p, k) \in Seq(FixupRecord)
         /\ Len(GroupPiece(p, k)) = GroupEnd(p, k) - GroupStarts(p)[k] + 1
         /\ \A i \in 1 .. Len(GroupPiece(p, k)) : GroupPiece(p, k)[i] = p[GroupStarts(p)[k] + i - 1]
<1>1. CutsInto(GroupStarts(p), GroupCount(p), GroupCuts(p), Len(p))
  BY GroupsCut
<1> DEFINE a == GroupStarts(p)[k]
           z == GroupEnd(p, k)
<1>2. a \in 1 .. Len(p) /\ z \in a .. Len(p)
  BY <1>1 DEF CutsInto, GroupEnd
<1> HIDE DEF a, z
<1>3. GroupPiece(p, k) = SubSeq(p, a, z)
  BY DEF GroupPiece, a, z
<1> QED
  BY <1>2, <1>3, PieceType DEF a, z

\* The fixups of a group have the target of the first.
LEMMA GroupTarget ==
  ASSUME NEW p, OneBlock(p), NEW k \in 1 .. GroupCount(p), NEW i \in GroupStarts(p)[k] .. GroupEnd(p, k)
  PROVE  p[i].target = p[GroupStarts(p)[k]].target
<1> DEFINE v == [j \in 1 .. Len(p) |-> p[j].target]
<1>1. p \in Seq(FixupRecord) /\ Len(p) # 0 /\ Len(p) \in Nat
  BY DEF OneBlock, Fresh
<1>2. CutsInto(GroupStarts(p), GroupCount(p), GroupCuts(p), Len(p))
  BY <1>1, GroupsCut
<1>3. ASSUME NEW j \in 2 .. Len(p), j \notin GroupCuts(p) PROVE v[j] = v[j - 1]
  <2>1. j \in 1 .. Len(p) /\ j - 1 \in 1 .. Len(p) /\ j # 1
    BY <1>1
  <2>2. SameGroup(p[j - 1], p[j])
    BY <1>3, <2>1 DEF GroupCuts
  <2>3. p[j - 1].group = 0 /\ p[j].group = 0
    BY <2>1 DEF OneBlock, Fresh
  <2> QED
    BY <2>1, <2>2, <2>3 DEF SameGroup
<1> HIDE DEF v
<1>4. v[i] = v[GroupStarts(p)[k]]
  BY <1>2, <1>3, SameInPiece DEF GroupEnd
<1>5. GroupStarts(p)[k] \in 1 .. Len(p) /\ GroupEnd(p, k) \in GroupStarts(p)[k] .. Len(p)
  BY <1>1, GroupBounds
<1>6. i \in 1 .. Len(p)
  BY <1>5
<1> QED
  BY <1>4, <1>5, <1>6 DEF v

LEMMA BlockRead ==
  ASSUME NEW p, OneBlock(p), NEW s \in Nat, NEW b \in Nat
  PROVE  /\ ParsedBlock(s, b, Block(p)) \in Seq(FixupRecord)
         /\ Len(ParsedBlock(s, b, Block(p))) = Len(p)
         /\ \A k \in 1 .. GroupCount(p) : \A i \in GroupStarts(p)[k] .. GroupEnd(p, k) :
              ParsedBlock(s, b, Block(p))[i] = Read(p, i, s, b, k)
<1> DEFINE m == GroupCount(p)
           groups == [k \in 1 .. m |-> Group(GroupPiece(p, k))]
           F == [g \in 1 .. m |-> ParsedGroup(s, b, g, Block(p))]
<1>1. p \in Seq(FixupRecord) /\ Len(p) # 0 /\ Len(p) \in Nat
  BY DEF OneBlock, Fresh
<1>2. CutsInto(GroupStarts(p), m, GroupCuts(p), Len(p))
  BY <1>1, GroupsCut
<1>3. m \in Nat
  BY <1>2 DEF CutsInto
<1>a. Block(p) = [kind |-> RecordKind(p[1]), groups |-> groups]
  BY <1>1, GroupsCut
<1>4. Block(p).kind = RecordKind(p[1]) /\ Block(p).groups = groups
  <2> HIDE DEF groups
  <2> QED
    BY <1>a
<1>5. WidthOf(Block(p).kind) = p[1].width /\ p[1].width \in {2, 4}
  <2>1. 1 \in 1 .. Len(p)
    BY <1>1
  <2>2. p[1].width \in {2, 4}
    BY <2>1 DEF OneBlock, Fresh
  <2> QED
    BY <2>2, <1>4 DEF WidthOf, RecordKind
<1>6. ParsedBlock(s, b, Block(p)) = FlattenSeq(F)
  BY <1>3, <1>4 DEF ParsedBlock
<1> HIDE DEF m
<1>7. ASSUME NEW k \in 1 .. m
      PROVE  /\ F[k] \in Seq(FixupRecord)
             /\ Len(F[k]) = GroupEnd(p, k) - GroupStarts(p)[k] + 1
             /\ \A i \in GroupStarts(p)[k] .. GroupEnd(p, k) : F[k][i - GroupStarts(p)[k] + 1] = Read(p, i, s, b, k)
  <2> DEFINE a == GroupStarts(p)[k]
             z == GroupEnd(p, k)
             n == z - a + 1
  <2>1. /\ a \in 1 .. Len(p) /\ z \in a .. Len(p) /\ Len(GroupPiece(p, k)) = n
        /\ \A i \in 1 .. n : GroupPiece(p, k)[i] = p[a + i - 1]
        /\ GroupPiece(p, k) \in Seq(FixupRecord)
    BY <1>1, GroupBounds DEF m
  <2>a. \A i \in a .. z : p[i].target = p[a].target
    BY GroupTarget DEF m
  <2> HIDE DEF a, z
  <2>2. n \in Nat \ {0} /\ 1 \in 1 .. n /\ DOMAIN GroupPiece(p, k) = 1 .. n /\ a + 1 - 1 = a
    BY <2>1
  <2>3. Block(p).groups[k] = [target |-> p[a].target, offsets |-> [i \in 1 .. n |-> p[a + i - 1].offset]]
    <3>1. Block(p).groups[k] = Group(GroupPiece(p, k))
      BY <1>4
    <3>2. GroupPiece(p, k)[1] = p[a]
      BY <2>1, <2>2
    <3>3. [i \in 1 .. n |-> GroupPiece(p, k)[i].offset] = [i \in 1 .. n |-> p[a + i - 1].offset]
      BY <2>1
    <3> HIDE DEF n
    <3> QED
      BY <2>2, <3>1, <3>2, <3>3 DEF Group
  <2>4. F[k] = [i \in 1 .. n |-> [section |-> s, offset |-> p[a + i - 1].offset, width |-> p[1].width,
                                  target |-> p[a].target, block |-> b, group |-> k]]
    <3> HIDE DEF n
    <3> DEFINE o == [i \in 1 .. n |-> p[a + i - 1].offset]
    <3>1. DOMAIN o = 1 .. n /\ \A i \in 1 .. n : o[i] = p[a + i - 1].offset
      OBVIOUS
    <3>2. Block(p).groups[k] = [target |-> p[a].target, offsets |-> o]
      BY <2>3
    <3> HIDE DEF o
    <3>3. Block(p).groups[k].offsets = o /\ Block(p).groups[k].target = p[a].target
      BY <3>2
    <3>4. F[k] = ParsedGroup(s, b, k, Block(p))
      OBVIOUS
    <3> HIDE DEF F
    <3>5. F[k] = [i \in 1 .. n |-> [section |-> s, offset |-> o[i], width |-> p[1].width,
                                    target |-> p[a].target, block |-> b, group |-> k]]
      BY <1>5, <3>1, <3>3, <3>4 DEF ParsedGroup
    <3> QED
      BY <3>1, <3>5
  <2>5. \A i \in 1 .. n : a + i - 1 \in a .. z /\ a + i - 1 \in 1 .. Len(p)
    BY <2>1, <1>1
  <2>6. ASSUME NEW i \in 1 .. n
        PROVE  /\ F[k][i] = Read(p, a + i - 1, s, b, k)
               /\ F[k][i] \in FixupRecord
    <3>1. F[k][i] = [section |-> s, offset |-> p[a + i - 1].offset, width |-> p[1].width,
                     target |-> p[a].target, block |-> b, group |-> k]
      <4> HIDE DEF F
      <4> QED
        BY <2>4
    <3>2. p[a + i - 1].target = p[a].target /\ p[a + i - 1].width = p[1].width
      BY <2>5, <2>a DEF OneBlock
    <3>3. p[a + i - 1] \in FixupRecord /\ k \in Nat
      BY <1>1, <2>5
    <3>4. F[k][i] = Read(p, a + i - 1, s, b, k)
      <4> HIDE DEF F
      <4> QED
        BY <3>1, <3>2 DEF Read
    <3>5. Read(p, a + i - 1, s, b, k) \in FixupRecord
      BY <3>3 DEF Read, FixupRecord
    <3> HIDE DEF F
    <3> QED
      BY <3>4, <3>5
  <2> HIDE DEF F
  <2>7. F[k] \in Seq(FixupRecord) /\ Len(F[k]) = n
    <3>1. F[k] = [i \in 1 .. n |-> F[k][i]]
      BY <2>4
    <3>2. n \in Nat
      BY <2>2
    <3> HIDE DEF n
    <3>3. F[k] \in [1 .. n -> FixupRecord]
      BY <3>1, <2>6
    <3> QED
      BY <3>2, <3>3
  <2>8. ASSUME NEW i \in a .. z PROVE F[k][i - a + 1] = Read(p, i, s, b, k)
    <3>1. i - a + 1 \in 1 .. n /\ a + (i - a + 1) - 1 = i
      BY <2>1
    <3>2. F[k][i - a + 1] = Read(p, a + (i - a + 1) - 1, s, b, k)
      BY <2>6, <3>1
    <3> QED
      BY <3>1, <3>2
  <2> QED
    BY <2>7, <2>8 DEF a, z
<1>8. Len(F) = m
  BY <1>3
<1> HIDE DEF F
<1>9. IsSeqs(F, FixupRecord)
  <2>1. \A k \in 1 .. m : F[k] \in Seq(FixupRecord) /\ Len(F[k]) \in Nat
    BY <1>7
  <2>2. F \in [1 .. m -> Seq(FixupRecord)]
    BY <2>1 DEF F
  <2>3. Len(F) = 0 => F = <<>>
    BY <1>3, <1>8, <2>2, IsSequence
  <2> QED
    BY <1>3, <1>8, <2>1, <2>3 DEF IsSeqs
<1>10. \A k \in 1 .. m : Len(F[k]) = PieceEnd(GroupStarts(p), m, Len(p), k) - GroupStarts(p)[k] + 1
  BY <1>7 DEF GroupEnd, m
<1>11. /\ FlattenSeq(F) \in Seq(FixupRecord) /\ Len(FlattenSeq(F)) = Len(p)
       /\ \A k \in 1 .. m : \A i \in GroupStarts(p)[k] .. PieceEnd(GroupStarts(p), m, Len(p), k) :
            FlattenSeq(F)[i] = F[k][i - GroupStarts(p)[k] + 1]
  BY <1>2, <1>8, <1>9, <1>10, FlattenPieces
<1>12. ASSUME NEW k \in 1 .. m, NEW i \in GroupStarts(p)[k] .. GroupEnd(p, k)
       PROVE  FlattenSeq(F)[i] = Read(p, i, s, b, k)
  <2>1. FlattenSeq(F)[i] = F[k][i - GroupStarts(p)[k] + 1]
    BY <1>11 DEF GroupEnd, m
  <2>2. F[k][i - GroupStarts(p)[k] + 1] = Read(p, i, s, b, k)
    BY <1>7
  <2> QED
    BY <2>1, <2>2
<1> QED
  BY <1>6, <1>11, <1>12 DEF m

LEMMA GroupIs ==
  ASSUME NEW p \in Seq(FixupRecord), Len(p) # 0, NEW k \in 1 .. GroupCount(p)
  PROVE  Group(GroupPiece(p, k)) =
           [target |-> p[GroupStarts(p)[k]].target,
            offsets |-> [i \in 1 .. GroupEnd(p, k) - GroupStarts(p)[k] + 1 |-> p[GroupStarts(p)[k] + i - 1].offset]]
<1> DEFINE a == GroupStarts(p)[k]
           n == GroupEnd(p, k) - a + 1
           g == GroupPiece(p, k)
<1>1. a \in 1 .. Len(p) /\ n \in Nat \ {0} /\ g \in Seq(FixupRecord) /\ Len(g) = n /\ \A i \in 1 .. n : g[i] = p[a + i - 1]
  BY GroupBounds
<1> HIDE DEF a, n, g
<1>2. DOMAIN g = 1 .. n /\ 1 \in 1 .. n /\ a + 1 - 1 = a
  BY <1>1
<1>3. g[1] = p[a]
  BY <1>1, <1>2
<1>4. [i \in DOMAIN g |-> g[i].offset] = [i \in 1 .. n |-> p[a + i - 1].offset]
  BY <1>1, <1>2
<1>5. Group(g) = [target |-> p[a].target, offsets |-> [i \in 1 .. n |-> p[a + i - 1].offset]]
  BY <1>3, <1>4 DEF Group
<1> QED
  BY <1>5 DEF a, n, g

\* What was read from a block is cut into groups where the block was, by their
\* numbers and no longer by their targets, and written as the same block.
LEMMA BlockAgain ==
  ASSUME NEW p, OneBlock(p), NEW s \in Nat, NEW b \in Nat \ {0}
  PROVE  Block(ParsedBlock(s, b, Block(p))) = Block(p)
<1> DEFINE r == ParsedBlock(s, b, Block(p))
           st == GroupStarts(p)
           m == GroupCount(p)
<1>1. p \in Seq(FixupRecord) /\ Len(p) # 0 /\ Len(p) \in Nat
  BY DEF OneBlock, Fresh
<1>2. r \in Seq(FixupRecord) /\ Len(r) = Len(p)
  BY BlockRead
<1>a. ASSUME NEW k \in 1 .. m, NEW i \in st[k] .. GroupEnd(p, k)
      PROVE  /\ r[i].offset = p[i].offset /\ r[i].width = p[i].width /\ r[i].target = p[i].target
             /\ r[i].block = b /\ r[i].group = k
  <2>1. r[i] = Read(p, i, s, b, k)
    BY BlockRead
  <2> HIDE DEF r
  <2> QED
    BY <2>1 DEF Read
<1>3. CutsInto(st, m, GroupCuts(p), Len(p))
  BY <1>1, GroupsCut
<1>4. /\ m \in Nat \ {0} /\ st[1] = 1
      /\ \A k \in 1 .. m : st[k] \in 1 .. Len(p) /\ st[k] \in GroupCuts(p) /\ GroupEnd(p, k) \in st[k] .. Len(p)
      /\ \A k \in 1 .. m : \A i \in st[k] + 1 .. GroupEnd(p, k) : i \notin GroupCuts(p)
      /\ \A k \in 1 .. m : k # m => GroupEnd(p, k) = st[k + 1] - 1
  BY <1>1, <1>3 DEF CutsInto, GroupEnd, PieceEnd
<1>5. \A i \in 1 .. Len(p) : \E k \in 1 .. m : i \in st[k] .. GroupEnd(p, k)
  BY <1>3, PiecesCover DEF GroupEnd
<1> HIDE DEF r, st, m
<1>6. ASSUME NEW i \in 1 .. Len(p) PROVE i \in GroupCuts(r) <=> i \in GroupCuts(p)
  <2>1. CASE i = 1
    BY <2>1, <1>1, <1>2 DEF GroupCuts
  <2>2. CASE i # 1
    <3>1. PICK k \in 1 .. m : i \in st[k] .. GroupEnd(p, k)
      BY <1>5
    <3>2. r[i].width = p[i].width /\ r[i].block = b /\ r[i].group = k
      BY <1>a, <3>1
    <3>3. i - 1 \in 1 .. Len(p)
      BY <1>1, <2>2
    <3>4. CASE i = st[k]
      <4>1. k # 1 /\ k - 1 \in 1 .. m /\ (k - 1) + 1 = k /\ k - 1 # m
        BY <1>4, <2>2, <3>4
      <4>2. GroupEnd(p, k - 1) = i - 1
        BY <1>4, <3>4, <4>1
      <4>3. st[k - 1] <= i - 1 /\ st[k - 1] \in 1 .. Len(p)
        BY <1>4, <4>1, <4>2
      <4>4. i - 1 \in st[k - 1] .. GroupEnd(p, k - 1)
        BY <3>3, <4>2, <4>3
      <4>5. r[i - 1].group = k - 1
        BY <1>a, <4>1, <4>4
      <4>6. ~SameGroup(r[i - 1], r[i])
        BY <3>2, <4>1, <4>5 DEF SameGroup
      <4>7. i \in GroupCuts(r)
        BY <1>2, <4>6 DEF GroupCuts
      <4> QED
        BY <1>4, <3>4, <4>7
    <3>5. CASE i # st[k]
      <4>1. i \in st[k] + 1 .. GroupEnd(p, k) /\ i - 1 \in st[k] .. GroupEnd(p, k)
        BY <1>4, <3>1, <3>5
      <4>2. i \notin GroupCuts(p)
        BY <1>4, <4>1
      <4>3. r[i - 1].width = p[i - 1].width /\ r[i - 1].block = b /\ r[i - 1].group = k
        BY <1>a, <4>1
      <4>4. p[i - 1].width = p[i].width
        BY <3>3 DEF OneBlock
      <4>5. RecordKind(r[i - 1]) = RecordKind(r[i])
        BY <3>2, <4>3, <4>4 DEF RecordKind
      <4>6. SameGroup(r[i - 1], r[i])
        BY <3>2, <4>3, <4>5 DEF SameGroup, SameBlock
      <4> QED
        BY <2>2, <4>2, <4>6 DEF GroupCuts
    <3> QED
      BY <3>4, <3>5
  <2> QED
    BY <2>1, <2>2
<1>7. GroupCuts(r) = GroupCuts(p)
  <2>1. GroupCuts(r) \subseteq 1 .. Len(p) /\ GroupCuts(p) \subseteq 1 .. Len(p)
    BY <1>2 DEF GroupCuts
  <2> QED
    BY <1>6, <2>1
<1>8. GroupStarts(r) = st /\ GroupCount(r) = m /\ \A k \in 1 .. m : GroupEnd(r, k) = GroupEnd(p, k)
  BY <1>2, <1>7 DEF GroupStarts, GroupCount, GroupEnd, st, m
<1>9. RecordKind(r[1]) = RecordKind(p[1])
  <2>1. 1 \in 1 .. m /\ 1 \in st[1] .. GroupEnd(p, 1)
    BY <1>4
  <2>2. r[1].width = p[1].width
    BY <1>a, <2>1
  <2> QED
    BY <2>2 DEF RecordKind
<1>10. ASSUME NEW k \in 1 .. m PROVE Group(GroupPiece(r, k)) = Group(GroupPiece(p, k))
  <2> DEFINE a == st[k]
             n == GroupEnd(p, k) - a + 1
  <2>1. Group(GroupPiece(r, k)) = [target |-> r[a].target, offsets |-> [i \in 1 .. n |-> r[a + i - 1].offset]]
    BY <1>2, <1>1, <1>8, GroupIs
  <2>2. Group(GroupPiece(p, k)) = [target |-> p[a].target, offsets |-> [i \in 1 .. n |-> p[a + i - 1].offset]]
    BY <1>1, GroupIs DEF st, m
  <2>3. a \in Nat /\ GroupEnd(p, k) \in Nat /\ a \in st[k] .. GroupEnd(p, k)
    BY <1>4
  <2>4. r[a].target = p[a].target
    BY <1>a, <2>3
  <2>5. ASSUME NEW i \in 1 .. n PROVE r[a + i - 1].offset = p[a + i - 1].offset
    <3>1. a + i - 1 \in st[k] .. GroupEnd(p, k)
      BY <2>3
    <3> QED
      BY <1>a, <3>1
  <2>6. [i \in 1 .. n |-> r[a + i - 1].offset] = [i \in 1 .. n |-> p[a + i - 1].offset]
    BY <2>5
  <2> HIDE DEF a, n
  <2> QED
    BY <2>1, <2>2, <2>4, <2>6
<1>11. Block(r) = [kind |-> RecordKind(r[1]), groups |-> [k \in 1 .. m |-> Group(GroupPiece(r, k))]]
  BY <1>1, <1>2, <1>8, GroupsCut
<1>12. Block(p) = [kind |-> RecordKind(p[1]), groups |-> [k \in 1 .. m |-> Group(GroupPiece(p, k))]]
  BY <1>1, GroupsCut DEF m
<1>13. [k \in 1 .. m |-> Group(GroupPiece(r, k))] = [k \in 1 .. m |-> Group(GroupPiece(p, k))]
  BY <1>10
<1>14. Block(r) = Block(p)
  BY <1>9, <1>11, <1>12, <1>13
<1> QED
  BY <1>14 DEF r

-----------------------------------------------------------------------------
(* The blocks of a section *)

BlockStarts(q) == Starts(Len(q), BlockCuts(q))
BlockCount(q) == Len(BlockStarts(q))
BlockEnd(q, k) == PieceEnd(BlockStarts(q), BlockCount(q), Len(q), k)
BlockPiece(q, k) == SubSeq(q, BlockStarts(q)[k], BlockEnd(q, k))

LEMMA BlocksCut ==
  ASSUME NEW q \in Seq(FixupRecord)
  PROVE  /\ CutsInto(BlockStarts(q), BlockCount(q), BlockCuts(q), Len(q))
         /\ BlockCount(q) \in Nat
         /\ Blocks(q) = [k \in 1 .. BlockCount(q) |-> Block(BlockPiece(q, k))]
<1>1. Len(q) \in Nat /\ BlockCuts(q) \in SUBSET (1 .. Len(q)) /\ (Len(q) # 0 => 1 \in BlockCuts(q))
  BY DEF BlockCuts
<1>2. CutsInto(BlockStarts(q), BlockCount(q), BlockCuts(q), Len(q))
  BY <1>1, StartsCut DEF BlockStarts, BlockCount
<1> DEFINE m == BlockCount(q)
<1>3. m \in Nat
  BY <1>2 DEF CutsInto
<1>4. Pieces(q, BlockCuts(q)) = [k \in 1 .. m |-> BlockPiece(q, k)]
  BY <1>1, PiecesAre DEF BlockStarts, BlockCount, BlockEnd, BlockPiece
<1>5. Runs(q, SameBlock) = Pieces(q, BlockCuts(q))
  BY DEF Runs, BlockCuts
<1> HIDE DEF m
<1>6. Blocks(q) = [k \in 1 .. m |-> Block(BlockPiece(q, k))]
  BY <1>4, <1>5 DEF Blocks
<1> QED
  BY <1>2, <1>3, <1>6 DEF m

LEMMA BlockBounds ==
  ASSUME NEW q \in Seq(FixupRecord), NEW k \in 1 .. BlockCount(q)
  PROVE  /\ BlockStarts(q)[k] \in 1 .. Len(q) /\ BlockEnd(q, k) \in BlockStarts(q)[k] .. Len(q)
         /\ BlockPiece(q, k) \in Seq(FixupRecord)
         /\ Len(BlockPiece(q, k)) = BlockEnd(q, k) - BlockStarts(q)[k] + 1
         /\ \A i \in 1 .. Len(BlockPiece(q, k)) : BlockPiece(q, k)[i] = q[BlockStarts(q)[k] + i - 1]
<1>1. CutsInto(BlockStarts(q), BlockCount(q), BlockCuts(q), Len(q))
  BY BlocksCut
<1> DEFINE a == BlockStarts(q)[k]
           z == BlockEnd(q, k)
<1>2. a \in 1 .. Len(q) /\ z \in a .. Len(q)
  BY <1>1 DEF CutsInto, BlockEnd
<1> HIDE DEF a, z
<1>3. BlockPiece(q, k) = SubSeq(q, a, z)
  BY DEF BlockPiece, a, z
<1> QED
  BY <1>2, <1>3, PieceType DEF a, z

\* The fixups of a block have one width.
LEMMA BlockIsOne ==
  ASSUME NEW q, Fresh(q), NEW k \in 1 .. BlockCount(q)
  PROVE  OneBlock(BlockPiece(q, k))
<1> DEFINE v == [j \in 1 .. Len(q) |-> q[j].width]
           a == BlockStarts(q)[k]
           z == BlockEnd(q, k)
           p == BlockPiece(q, k)
<1>1. q \in Seq(FixupRecord) /\ Len(q) \in Nat
  BY DEF Fresh
<1>2. CutsInto(BlockStarts(q), BlockCount(q), BlockCuts(q), Len(q))
  BY <1>1, BlocksCut
<1>3. ASSUME NEW j \in 2 .. Len(q), j \notin BlockCuts(q) PROVE v[j] = v[j - 1]
  <2>1. j \in 1 .. Len(q) /\ j - 1 \in 1 .. Len(q) /\ j # 1
    BY <1>1
  <2>2. SameBlock(q[j - 1], q[j])
    BY <1>3, <2>1 DEF BlockCuts
  <2>3. q[j - 1].width \in {2, 4} /\ q[j].width \in {2, 4}
    BY <2>1 DEF Fresh
  <2>4. RecordKind(q[j - 1]) = RecordKind(q[j])
    BY <2>2 DEF SameBlock
  <2>5. q[j].width = q[j - 1].width
    BY <2>3, <2>4 DEF RecordKind
  <2> QED
    BY <2>1, <2>5
<1>4. /\ a \in 1 .. Len(q) /\ z \in a .. Len(q) /\ p \in Seq(FixupRecord) /\ Len(p) = z - a + 1
      /\ \A i \in 1 .. Len(p) : p[i] = q[a + i - 1]
  BY <1>1, BlockBounds
<1> HIDE DEF v
<1>5. \A i \in a .. z : v[i] = v[a]
  BY <1>2, <1>3, SameInPiece DEF BlockEnd
<1> HIDE DEF a, z, p
<1>6. ASSUME NEW i \in 1 .. Len(p)
      PROVE  p[i].block = 0 /\ p[i].group = 0 /\ p[i].width \in {2, 4} /\ p[i].width = v[a]
  <2>1. a + i - 1 \in a .. z /\ a + i - 1 \in 1 .. Len(q)
    BY <1>1, <1>4
  <2>2. p[i] = q[a + i - 1]
    BY <1>4
  <2>3. v[a + i - 1] = q[a + i - 1].width
    BY <2>1 DEF v
  <2> QED
    BY <1>5, <2>1, <2>2, <2>3 DEF Fresh
<1>7. 1 \in 1 .. Len(p) /\ Len(p) \in Nat \ {0}
  BY <1>1, <1>4
<1>8. OneBlock(p)
  BY <1>4, <1>6, <1>7 DEF OneBlock, Fresh
<1> QED
  BY <1>8 DEF p

\* f was read from the place of g in section s.
SameFixup(f, g, s) ==
  f.section = s /\ f.offset = g.offset /\ f.width = g.width /\ f.target = g.target

LEMMA BlocksRead ==
  ASSUME NEW q, Fresh(q), NEW s \in Nat
  PROVE  /\ ParsedBlocks(s, Blocks(q)) \in Seq(FixupRecord)
         /\ Len(ParsedBlocks(s, Blocks(q))) = Len(q)
         /\ \A k \in 1 .. BlockCount(q) : \A i \in BlockStarts(q)[k] .. BlockEnd(q, k) :
              /\ ParsedBlocks(s, Blocks(q))[i]
                   = ParsedBlock(s, k, Block(BlockPiece(q, k)))[i - BlockStarts(q)[k] + 1]
              /\ SameFixup(ParsedBlocks(s, Blocks(q))[i], q[i], s)
              /\ ParsedBlocks(s, Blocks(q))[i].block = k
<1> DEFINE m == BlockCount(q)
           st == BlockStarts(q)
           F == [k \in 1 .. m |-> ParsedBlock(s, k, Block(BlockPiece(q, k)))]
<1>1. q \in Seq(FixupRecord) /\ Len(q) \in Nat
  BY DEF Fresh
<1>2. CutsInto(st, m, BlockCuts(q), Len(q)) /\ m \in Nat
  BY <1>1, BlocksCut
<1>3. Blocks(q) = [k \in 1 .. m |-> Block(BlockPiece(q, k))]
  BY <1>1, BlocksCut
<1> HIDE DEF m, st
<1>4. ParsedBlocks(s, Blocks(q)) = FlattenSeq(F)
  <2>1. DOMAIN Blocks(q) = 1 .. m /\ \A k \in 1 .. m : Blocks(q)[k] = Block(BlockPiece(q, k))
    BY <1>3
  <2>2. [k \in DOMAIN Blocks(q) |-> ParsedBlock(s, k, Blocks(q)[k])] = F
    BY <2>1
  <2> HIDE DEF F
  <2> QED
    BY <2>2 DEF ParsedBlocks
<1>5. ASSUME NEW k \in 1 .. m
      PROVE  /\ OneBlock(BlockPiece(q, k)) /\ F[k] = ParsedBlock(s, k, Block(BlockPiece(q, k)))
             /\ F[k] \in Seq(FixupRecord) /\ Len(F[k]) = BlockEnd(q, k) - st[k] + 1
             /\ st[k] \in 1 .. Len(q) /\ BlockEnd(q, k) \in st[k] .. Len(q)
             /\ \A i \in 1 .. Len(F[k]) : BlockPiece(q, k)[i] = q[st[k] + i - 1]
             /\ Len(F[k]) = Len(BlockPiece(q, k))
  <2>1. OneBlock(BlockPiece(q, k)) /\ k \in Nat
    BY BlockIsOne DEF m
  <2>2. F[k] = ParsedBlock(s, k, Block(BlockPiece(q, k)))
    OBVIOUS
  <2> HIDE DEF F
  <2>3. F[k] \in Seq(FixupRecord) /\ Len(F[k]) = Len(BlockPiece(q, k))
    <3> DEFINE p == BlockPiece(q, k)
    <3>1. OneBlock(p) /\ F[k] = ParsedBlock(s, k, Block(p))
      BY <2>1, <2>2
    <3> HIDE DEF p
    <3>2. ParsedBlock(s, k, Block(p)) \in Seq(FixupRecord) /\ Len(ParsedBlock(s, k, Block(p))) = Len(p)
      BY <2>1, <3>1, BlockRead
    <3> QED
      BY <3>1, <3>2 DEF p
  <2> QED
    BY <1>1, <2>1, <2>2, <2>3, BlockBounds DEF m, st
<1>6. Len(F) = m
  BY <1>2
<1> HIDE DEF F
<1>7. IsSeqs(F, FixupRecord)
  <2>0. DOMAIN F = 1 .. m
    BY DEF F
  <2>1. \A k \in 1 .. m : F[k] \in Seq(FixupRecord) /\ Len(F[k]) \in Nat
    BY <1>5
  <2>2. F \in [1 .. m -> Seq(FixupRecord)]
    BY <2>1 DEF F
  <2>3. Len(F) = 0 => F = <<>>
    BY <1>2, <1>6, <2>2, IsSequence
  <2> QED
    BY <1>2, <1>6, <2>1, <2>3 DEF IsSeqs
<1>8. \A k \in 1 .. m : Len(F[k]) = PieceEnd(st, m, Len(q), k) - st[k] + 1
  BY <1>5 DEF BlockEnd, st, m
<1>9. /\ FlattenSeq(F) \in Seq(FixupRecord) /\ Len(FlattenSeq(F)) = Len(q)
      /\ \A k \in 1 .. m : \A i \in st[k] .. PieceEnd(st, m, Len(q), k) : FlattenSeq(F)[i] = F[k][i - st[k] + 1]
  BY <1>2, <1>6, <1>7, <1>8, FlattenPieces
<1> DEFINE r == FlattenSeq(F)
<1> HIDE DEF r
<1>10. ASSUME NEW k \in 1 .. m, NEW i \in st[k] .. BlockEnd(q, k)
       PROVE  r[i] = F[k][i - st[k] + 1] /\ SameFixup(r[i], q[i], s) /\ r[i].block = k
  <2> DEFINE p == BlockPiece(q, k)
             j == i - st[k] + 1
  <2>1. r[i] = F[k][j]
    BY <1>9 DEF BlockEnd, m, st, r
  <2>2. OneBlock(p) /\ k \in Nat /\ Len(p) = BlockEnd(q, k) - st[k] + 1
    BY <1>5
  <2>3. j \in 1 .. Len(p) /\ st[k] + j - 1 = i
    <3> DEFINE a == st[k]
               b == BlockEnd(q, k)
               l == Len(p)
    <3>1. a \in Nat /\ b \in Nat /\ i \in a .. b /\ l = b - a + 1 /\ j = i - a + 1
      BY <1>5, <2>2
    <3> HIDE DEF a, b, l, p, j
    <3>2. j \in 1 .. l /\ a + j - 1 = i
      BY <3>1
    <3> QED
      BY <3>2 DEF a, l
  <2>4. p[j] = q[i]
    <3>1. j \in 1 .. Len(F[k])
      BY <1>5, <2>3
    <3>2. p[j] = q[st[k] + j - 1]
      BY <1>5, <3>1
    <3> QED
      BY <2>3, <3>2
  <2> HIDE DEF p, j
  <2>5. CutsInto(GroupStarts(p), GroupCount(p), GroupCuts(p), Len(p))
    BY <2>2, GroupsCut DEF OneBlock, Fresh
  <2>6. PICK g \in 1 .. GroupCount(p) : j \in GroupStarts(p)[g] .. GroupEnd(p, g)
    BY <2>3, <2>5, PiecesCover DEF GroupEnd
  <2>7. ParsedBlock(s, k, Block(p))[j] = Read(p, j, s, k, g)
    BY <2>2, <2>6, BlockRead
  <2>8. r[i] = Read(p, j, s, k, g)
    BY <1>5, <2>1, <2>7 DEF p
  <2> QED
    BY <2>1, <2>4, <2>8 DEF Read, SameFixup, j
<1>11. ParsedBlocks(s, Blocks(q)) = r
  BY <1>4 DEF r
<1>12. \A k \in 1 .. m : F[k] = ParsedBlock(s, k, Block(BlockPiece(q, k)))
  BY <1>5
<1>13. r \in Seq(FixupRecord) /\ Len(r) = Len(q)
  BY <1>9 DEF r
<1> QED
  BY <1>10, <1>11, <1>12, <1>13 DEF m, st

LEMMA SameSequence ==
  ASSUME NEW V, NEW a \in Seq(V), NEW b \in Seq(V), Len(a) = Len(b), \A i \in 1 .. Len(a) : a[i] = b[i]
  PROVE  a = b
  OBVIOUS

\* What was read from the blocks of a section is cut into blocks where the
\* fixups of the section were and written as the same blocks.
LEMMA BlocksAgain ==
  ASSUME NEW q, Fresh(q), NEW s \in Nat
  PROVE  Blocks(ParsedBlocks(s, Blocks(q))) = Blocks(q)
<1> DEFINE r == ParsedBlocks(s, Blocks(q))
           st == BlockStarts(q)
           m == BlockCount(q)
<1>1. q \in Seq(FixupRecord) /\ Len(q) \in Nat
  BY DEF Fresh
<1>2. r \in Seq(FixupRecord) /\ Len(r) = Len(q)
  BY BlocksRead
<1>a. ASSUME NEW k \in 1 .. m, NEW i \in st[k] .. BlockEnd(q, k)
      PROVE  /\ r[i] = ParsedBlock(s, k, Block(BlockPiece(q, k)))[i - st[k] + 1]
             /\ r[i].width = q[i].width /\ r[i].block = k
  <2>1. /\ r[i] = ParsedBlock(s, k, Block(BlockPiece(q, k)))[i - st[k] + 1]
        /\ SameFixup(r[i], q[i], s) /\ r[i].block = k
    BY BlocksRead
  <2> HIDE DEF r
  <2> QED
    BY <2>1 DEF SameFixup
<1>3. CutsInto(st, m, BlockCuts(q), Len(q))
  BY <1>1, BlocksCut
<1>4. /\ m \in Nat /\ (m # 0 => st[1] = 1)
      /\ \A k \in 1 .. m : st[k] \in 1 .. Len(q) /\ st[k] \in BlockCuts(q) /\ BlockEnd(q, k) \in st[k] .. Len(q)
      /\ \A k \in 1 .. m : \A i \in st[k] + 1 .. BlockEnd(q, k) : i \notin BlockCuts(q)
      /\ \A k \in 1 .. m : k # m => BlockEnd(q, k) = st[k + 1] - 1
  BY <1>1, <1>3 DEF CutsInto, BlockEnd, PieceEnd
<1>5. \A i \in 1 .. Len(q) : \E k \in 1 .. m : i \in st[k] .. BlockEnd(q, k)
  BY <1>3, PiecesCover DEF BlockEnd
<1> HIDE DEF r, st, m
<1>6. ASSUME NEW i \in 1 .. Len(q) PROVE i \in BlockCuts(r) <=> i \in BlockCuts(q)
  <2>1. CASE i = 1
    BY <2>1, <1>1, <1>2 DEF BlockCuts
  <2>2. CASE i # 1
    <3>1. PICK k \in 1 .. m : i \in st[k] .. BlockEnd(q, k)
      BY <1>5
    <3>2. r[i].width = q[i].width /\ r[i].block = k
      BY <1>a, <3>1
    <3>3. i - 1 \in 1 .. Len(q)
      BY <1>1, <2>2
    <3>4. CASE i = st[k]
      <4>1. k # 1 /\ k - 1 \in 1 .. m /\ (k - 1) + 1 = k /\ k - 1 # m
        BY <1>4, <2>2, <3>4
      <4>2. BlockEnd(q, k - 1) = i - 1
        BY <1>4, <3>4, <4>1
      <4>3. st[k - 1] <= i - 1 /\ st[k - 1] \in 1 .. Len(q)
        BY <1>4, <4>1, <4>2
      <4>4. i - 1 \in st[k - 1] .. BlockEnd(q, k - 1)
        BY <3>3, <4>2, <4>3
      <4>5. r[i - 1].block = k - 1
        BY <1>a, <4>1, <4>4
      <4>6. ~SameBlock(r[i - 1], r[i])
        BY <3>2, <4>1, <4>5 DEF SameBlock
      <4>7. i \in BlockCuts(r)
        BY <1>2, <4>6 DEF BlockCuts
      <4> QED
        BY <1>4, <3>4, <4>7
    <3>5. CASE i # st[k]
      <4>1. i \in st[k] + 1 .. BlockEnd(q, k) /\ i - 1 \in st[k] .. BlockEnd(q, k)
        BY <1>4, <3>1, <3>5
      <4>2. i \notin BlockCuts(q)
        BY <1>4, <4>1
      <4>3. r[i - 1].width = q[i - 1].width /\ r[i - 1].block = k
        BY <1>a, <4>1
      <4>4. RecordKind(q[i - 1]) = RecordKind(q[i])
        BY <2>2, <4>2 DEF BlockCuts, SameBlock
      <4>5. RecordKind(r[i - 1]) = RecordKind(r[i])
        BY <3>2, <4>3, <4>4 DEF RecordKind
      <4>6. SameBlock(r[i - 1], r[i])
        BY <3>2, <4>3, <4>5 DEF SameBlock
      <4> QED
        BY <2>2, <4>2, <4>6 DEF BlockCuts
    <3> QED
      BY <3>4, <3>5
  <2> QED
    BY <2>1, <2>2
<1>7. BlockCuts(r) = BlockCuts(q)
  <2>1. BlockCuts(r) \subseteq 1 .. Len(q) /\ BlockCuts(q) \subseteq 1 .. Len(q)
    BY <1>2 DEF BlockCuts
  <2> QED
    BY <1>6, <2>1
<1>8. BlockStarts(r) = st /\ BlockCount(r) = m /\ \A k \in 1 .. m : BlockEnd(r, k) = BlockEnd(q, k)
  BY <1>2, <1>7 DEF BlockStarts, BlockCount, BlockEnd, st, m
<1>9. ASSUME NEW k \in 1 .. m PROVE Block(BlockPiece(r, k)) = Block(BlockPiece(q, k))
  <2> DEFINE p == BlockPiece(q, k)
             again == ParsedBlock(s, k, Block(p))
             a == st[k]
             z == BlockEnd(q, k)
  <2>1. OneBlock(p) /\ k \in Nat \ {0} /\ Len(p) = z - a + 1
    BY <1>1, BlockIsOne, BlockBounds DEF m, st
  <2>2. a \in 1 .. Len(r) /\ z \in a .. Len(r)
    BY <1>2, <1>4
  <2>3. \A i \in a .. z : r[i] = again[i - a + 1]
    BY <1>a
  <2>b. BlockPiece(r, k) = SubSeq(r, a, z)
    BY <1>8 DEF BlockPiece
  <2> HIDE DEF p
  <2>4. Block(again) = Block(p) /\ again \in Seq(FixupRecord) /\ Len(again) = Len(p)
    BY <2>1, BlockAgain, BlockRead
  <2> HIDE DEF again, a, z
  <2>5. SubSeq(r, a, z) = again
    <3>1. /\ SubSeq(r, a, z) \in Seq(FixupRecord) /\ Len(SubSeq(r, a, z)) = z - a + 1
          /\ \A i \in 1 .. z - a + 1 : SubSeq(r, a, z)[i] = r[a + i - 1]
      BY <1>2, <2>2, PieceType
    <3>2. ASSUME NEW i \in 1 .. z - a + 1 PROVE r[a + i - 1] = again[i]
      <4>1. a + i - 1 \in a .. z /\ (a + i - 1) - a + 1 = i
        BY <2>2
      <4> QED
        BY <2>3, <4>1
    <3>3. Len(SubSeq(r, a, z)) = Len(again) /\ \A i \in 1 .. Len(SubSeq(r, a, z)) : SubSeq(r, a, z)[i] = again[i]
      BY <2>1, <2>4, <3>1, <3>2
    <3> QED
      BY <2>4, <3>1, <3>3, SameSequence
  <2> QED
    BY <2>b, <2>4, <2>5 DEF p
<1>10. Blocks(r) = [k \in 1 .. m |-> Block(BlockPiece(r, k))]
  BY <1>2, <1>8, BlocksCut
<1>11. Blocks(q) = [k \in 1 .. m |-> Block(BlockPiece(q, k))]
  BY <1>1, BlocksCut DEF m
<1>12. Blocks(r) = Blocks(q)
  BY <1>9, <1>10, <1>11
<1> QED
  BY <1>12 DEF r

-----------------------------------------------------------------------------
(* The fixups of a section among those of all sections *)

\* Of 1 .. n, the positions from a + 1 to a + m.
IsInterval(set, a, m, n) ==
  a \in Nat /\ m \in Nat /\ a + m <= n /\ \A i \in 1 .. n : i \in set <=> i \in a + 1 .. a + m

LEMMA FilteredInterval ==
  ASSUME NEW V, NEW q \in Seq(V), NEW set, NEW a, NEW m, IsInterval(set, a, m, Len(q))
  PROVE  /\ Filtered(q, set) \in Seq(V) /\ Len(Filtered(q, set)) = m
         /\ \A j \in 1 .. m : Filtered(q, set)[j] = q[a + j]
<1> DEFINE n == Len(q)
           held(k) == IF k <= a THEN 0 ELSE IF k <= a + m THEN k - a ELSE m
<1>0. /\ a \in Nat /\ m \in Nat /\ a + m <= Len(q)
      /\ \A i \in 1 .. Len(q) : i \in set <=> i \in a + 1 .. a + m
  BY DEF IsInterval
<1>1. n \in Nat /\ \A i \in 1 .. n : q[i] \in V
  OBVIOUS
<1>2. PICK g : Filters(g, V, q, set)
  BY FilteredFilters
<1>3. /\ g \in [0 .. n -> Seq(V)] /\ g[0] = <<>> /\ Filtered(q, set) = g[n]
      /\ \A k \in 1 .. n : g[k] = IF k \in set THEN Append(g[k - 1], q[k]) ELSE g[k - 1]
  BY <1>2 DEF Filters
<1> HIDE DEF n
<1> DEFINE P == {k \in 0 .. n : Len(g[k]) = held(k) /\ \A j \in 1 .. held(k) : g[k][j] = q[a + j]}
<1>4. 0 \in P
  BY <1>0, <1>1, <1>3
<1>5. ASSUME NEW k \in 1 .. n, k - 1 \in P PROVE k \in P
  <2>1. k \in 0 .. n /\ k - 1 \in 0 .. n /\ g[k - 1] \in Seq(V) /\ q[k] \in V
    BY <1>1, <1>3
  <2>2. Len(g[k - 1]) = held(k - 1) /\ \A j \in 1 .. held(k - 1) : g[k - 1][j] = q[a + j]
    BY <1>5
  <2>3. CASE k \in a + 1 .. a + m
    <3>1. k \in set
      BY <1>0, <2>3 DEF n
    <3>2. g[k] = Append(g[k - 1], q[k])
      BY <1>3, <3>1
    <3>3. held(k) = held(k - 1) + 1 /\ held(k - 1) \in Nat /\ a + held(k) = k
      BY <1>0, <2>1, <2>3
    <3> HIDE DEF held
    <3> DEFINE l == g[k - 1]
    <3>4. l \in Seq(V) /\ Len(l) = held(k - 1) /\ g[k] = Append(l, q[k])
      BY <2>1, <2>2, <3>2
    <3>5. \A j \in 1 .. held(k - 1) : l[j] = q[a + j]
      BY <2>2
    <3> HIDE DEF l
    <3>6. Len(g[k]) = held(k)
      BY <2>1, <3>3, <3>4
    <3>7. ASSUME NEW j \in 1 .. held(k) PROVE g[k][j] = q[a + j]
      <4>1. CASE j = held(k)
        BY <2>1, <3>3, <3>4, <4>1
      <4>2. CASE j # held(k)
        <5>1. j \in 1 .. held(k - 1)
          BY <3>3, <4>2
        <5>2. g[k][j] = l[j]
          BY <2>1, <3>4, <5>1
        <5> QED
          BY <3>5, <5>1, <5>2
      <4> QED
        BY <4>1, <4>2
    <3> QED
      BY <2>1, <3>6, <3>7
  <2>4. CASE k \notin a + 1 .. a + m
    <3>1. k \notin set
      BY <1>0, <2>4 DEF n
    <3>2. g[k] = g[k - 1]
      BY <1>3, <3>1
    <3>3. held(k) = held(k - 1)
      BY <1>0, <2>1, <2>4
    <3> HIDE DEF held
    <3> QED
      BY <2>1, <2>2, <3>2, <3>3
  <2> QED
    BY <2>3, <2>4
<1>6. 0 .. n \subseteq P
  <2> HIDE DEF P
  <2> QED
    BY <1>1, <1>4, <1>5, UpTo
<1>7. n \in P /\ held(n) = m
  BY <1>0, <1>1, <1>6 DEF n
<1> HIDE DEF held
<1> QED
  BY <1>1, <1>3, <1>7

-----------------------------------------------------------------------------
(* Objects *)

\* The fixups that a new object may have: those of any file are of longs and
\* words.
FreshFixups(q, n) ==
  /\ n \in Nat /\ q \in Seq(FixupRecord)
  /\ \A i \in 1 .. Len(q) : /\ q[i].block = 0 /\ q[i].group = 0 /\ q[i].width \in {2, 4}
                            /\ q[i].section \in 1 .. n

SectionPositions(q, s) == {i \in 1 .. Len(q) : q[i].section = s}

LEMMA SectionFixups ==
  ASSUME NEW n, NEW q, FreshFixups(q, n), NEW s
  PROVE  /\ Fresh(OfSection(q, s))
         /\ \E p : /\ Enumerates(p, Len(OfSection(q, s)), SectionPositions(q, s), Len(q))
                   /\ \A i \in 1 .. Len(OfSection(q, s)) : OfSection(q, s)[i] = q[p[i]]
<1> DEFINE r == OfSection(q, s)
<1>1. q \in Seq(FixupRecord) /\ DOMAIN q = 1 .. Len(q)
  BY DEF FreshFixups
<1>2. r = Filtered(q, SectionPositions(q, s))
  BY <1>1 DEF OfSection, SectionPositions
<1> HIDE DEF r
<1>3. r \in Seq(FixupRecord)
  BY <1>1, <1>2, FilteredInOrder
<1>4. PICK p : Enumerates(p, Len(r), SectionPositions(q, s), Len(q)) /\ \A i \in 1 .. Len(r) : r[i] = q[p[i]]
  BY <1>1, <1>2, FilteredInOrder
<1>5. ASSUME NEW i \in 1 .. Len(r) PROVE r[i].block = 0 /\ r[i].group = 0 /\ r[i].width \in {2, 4}
  <2>1. p[i] \in 1 .. Len(q) /\ r[i] = q[p[i]]
    BY <1>4 DEF Enumerates
  <2> QED
    BY <2>1 DEF FreshFixups
<1>6. Fresh(r)
  BY <1>3, <1>5 DEF Fresh
<1> QED
  BY <1>4, <1>6 DEF r

\* What is read of the sections, one after the other.
ReadSections(q, n) == [s \in 1 .. n |-> ParsedBlocks(s, Blocks(OfSection(q, s)))]

LEMMA ReadSection ==
  ASSUME NEW n, NEW q, FreshFixups(q, n), NEW s \in 1 .. n
  PROVE  LET r == ReadSections(q, n)[s]
             o == OfSection(q, s)
         IN  /\ r \in Seq(FixupRecord) /\ Len(r) = Len(o) /\ Len(r) \in Nat /\ Blocks(r) = Blocks(o)
             /\ \A j \in 1 .. Len(o) : SameFixup(r[j], o[j], s) /\ r[j].width \in {2, 4}
<1> DEFINE o == OfSection(q, s)
           r == ParsedBlocks(s, Blocks(o))
<1>1. ReadSections(q, n)[s] = r
  BY DEF ReadSections
<1>2. Fresh(o) /\ s \in Nat /\ n \in Nat
  BY SectionFixups DEF FreshFixups
<1> HIDE DEF o
<1>3. r \in Seq(FixupRecord) /\ Len(r) = Len(o)
  BY <1>2, BlocksRead
<1>4. Blocks(r) = Blocks(o)
  BY <1>2, BlocksAgain
<1>5. ASSUME NEW j \in 1 .. Len(o) PROVE SameFixup(r[j], o[j], s) /\ r[j].width \in {2, 4}
  <2>1. o \in Seq(FixupRecord) /\ Len(o) \in Nat
    BY <1>2 DEF Fresh
  <2>2. CutsInto(BlockStarts(o), BlockCount(o), BlockCuts(o), Len(o))
    BY <2>1, BlocksCut
  <2>3. PICK k \in 1 .. BlockCount(o) : j \in BlockStarts(o)[k] .. BlockEnd(o, k)
    BY <2>2, PiecesCover DEF BlockEnd
  <2>4. SameFixup(r[j], o[j], s)
    BY <1>2, <2>3, BlocksRead
  <2> HIDE DEF r
  <2>5. r[j].width = o[j].width
    BY <2>4 DEF SameFixup
  <2> QED
    BY <1>2, <2>4, <2>5 DEF Fresh
<1>6. Len(r) \in Nat
  BY <1>3
<1> HIDE DEF r
<1> QED
  BY <1>1, <1>3, <1>4, <1>5, <1>6 DEF o

LEMMA ReadSectionsSeqs ==
  ASSUME NEW n, NEW q, FreshFixups(q, n)
  PROVE  IsSeqs(ReadSections(q, n), FixupRecord) /\ Len(ReadSections(q, n)) = n
<1> DEFINE F == ReadSections(q, n)
<1>1. n \in Nat
  BY DEF FreshFixups
<1>2. \A s \in 1 .. n : F[s] \in Seq(FixupRecord) /\ Len(F[s]) \in Nat
  BY ReadSection
<1>3. F \in [1 .. n -> Seq(FixupRecord)]
  BY <1>2 DEF ReadSections
<1> HIDE DEF F
<1>4. Len(F) = n /\ (n = 0 => F = <<>>)
  BY <1>1, <1>3, IsSequence
<1>5. IsSeqs(F, FixupRecord) /\ Len(F) = n
  BY <1>1, <1>2, <1>4 DEF IsSeqs
<1> QED
  BY <1>5 DEF F

\* The fixups that were read belong to their section, in the order in which
\* they were read.
LEMMA ReadOfSection ==
  ASSUME NEW n, NEW q, FreshFixups(q, n), NEW s \in 1 .. n
  PROVE  OfSection(FlattenSeq(ReadSections(q, n)), s) = ReadSections(q, n)[s]
<1> DEFINE F == ReadSections(q, n)
           r == FlattenSeq(F)
<1>1. IsSeqs(F, FixupRecord) /\ Len(F) = n /\ n \in Nat
  BY ReadSectionsSeqs DEF FreshFixups
<1>2. ASSUME NEW k \in 1 .. n
      PROVE  F[k] \in Seq(FixupRecord) /\ Len(F[k]) \in Nat /\ \A j \in 1 .. Len(F[k]) : F[k][j].section = k
  BY ReadSection DEF SameFixup
<1> HIDE DEF F
<1>3. PICK e : Places(e, FixupRecord, F, r)
  BY <1>1, FlattenPlaces
<1> HIDE DEF r
<1>4. /\ e \in [0 .. n -> Nat] /\ r \in Seq(FixupRecord) /\ Len(r) = e[n]
      /\ \A k \in 1 .. n : e[k] = e[k - 1] + Len(F[k])
      /\ \A k \in 1 .. n : \A j \in 1 .. Len(F[k]) : e[k - 1] + j \in 1 .. Len(r) /\ r[e[k - 1] + j] = F[k][j]
  BY <1>1, <1>3 DEF Places
<1> DEFINE a == e[s - 1]
           m == Len(F[s])
           set == {i \in DOMAIN r : r[i].section = s}
<1>5. a \in Nat /\ m \in Nat /\ e[s] = a + m /\ DOMAIN r = 1 .. Len(r) /\ Len(r) \in Nat
  BY <1>1, <1>2, <1>4
<1>6. e[s] <= Len(r)
  <2>1. s \in 0 .. Len(F) /\ n \in 0 .. Len(F) /\ s <= n
    BY <1>1
  <2>2. e[s] <= e[n]
    BY <1>1, <1>3, <2>1, PlacesGrow
  <2> QED
    BY <1>4, <2>2
<1>7. ASSUME NEW i \in 1 .. Len(r) PROVE i \in set <=> i \in a + 1 .. a + m
  <2>0. PICK k \in 1 .. n : \E j \in 1 .. Len(F[k]) : i = e[k - 1] + j
    BY <1>1, <1>3, PlacesCover
  <2>1. PICK j \in 1 .. Len(F[k]) : i = e[k - 1] + j
    BY <2>0
  <2>2. r[i] = F[k][j] /\ F[k][j].section = k
    BY <1>2, <1>4, <2>1
  <2>3. i \in set <=> k = s
    BY <1>5, <2>2
  <2>4. CASE k = s
    <3>1. i \in a + 1 .. a + m
      BY <1>5, <2>1, <2>4
    <3> QED
      BY <2>3, <2>4, <3>1
  <2>5. CASE k < s
    <3>1. k \in 0 .. Len(F) /\ s - 1 \in 0 .. Len(F) /\ k <= s - 1 /\ k - 1 \in 0 .. n
      BY <1>1, <2>5
    <3>2. e[k] <= a
      BY <1>1, <1>3, <3>1, PlacesGrow
    <3>3. e[k] = e[k - 1] + Len(F[k]) /\ Len(F[k]) \in Nat /\ e[k - 1] \in Nat
      BY <1>2, <1>4, <3>1
    <3>4. i <= a
      <4> DEFINE u == e[k - 1]
                 l == Len(F[k])
                 v == e[k]
      <4>1. i = u + j /\ j \in 1 .. l /\ v = u + l /\ v <= a /\ u \in Nat /\ l \in Nat /\ a \in Nat
        BY <1>5, <2>1, <3>2, <3>3
      <4> HIDE DEF u, l, v, a
      <4> QED
        BY <4>1
    <3> QED
      BY <1>5, <2>3, <2>5, <3>4
  <2>6. CASE s < k
    <3>1. s \in 0 .. Len(F) /\ k - 1 \in 0 .. Len(F) /\ s <= k - 1
      BY <1>1, <2>6
    <3>2. e[s] <= e[k - 1]
      BY <1>1, <1>3, <3>1, PlacesGrow
    <3>3. e[k - 1] \in Nat /\ Len(F[k]) \in Nat
      BY <1>2, <1>4, <3>1, <1>1
    <3>4. i > a + m
      <4> DEFINE u == e[k - 1]
                 l == Len(F[k])
                 v == e[s]
      <4>1. i = u + j /\ j \in 1 .. l /\ v = a + m /\ v <= u /\ u \in Nat /\ l \in Nat /\ a \in Nat /\ m \in Nat
        BY <1>5, <2>1, <3>2, <3>3
      <4> HIDE DEF u, l, v, a, m
      <4> QED
        BY <4>1
    <3> QED
      BY <1>5, <2>3, <2>6, <3>4
  <2> QED
    BY <1>1, <2>4, <2>5, <2>6
<1>8. OfSection(r, s) = Filtered(r, set)
  BY DEF OfSection
<1> HIDE DEF a, m, set
<1>9. /\ Filtered(r, set) \in Seq(FixupRecord) /\ Len(Filtered(r, set)) = m
      /\ \A j \in 1 .. m : Filtered(r, set)[j] = r[a + j]
  <2>1. a \in Nat /\ m \in Nat /\ a + m <= Len(r) /\ r \in Seq(FixupRecord)
    BY <1>4, <1>5, <1>6
  <2>2. IsInterval(set, a, m, Len(r))
    BY <1>7, <2>1 DEF IsInterval
  <2>3. Filtered(r, set) \in Seq(FixupRecord)
    BY <2>1, <2>2, FilteredInterval
  <2>4. Len(Filtered(r, set)) = m
    BY <2>1, <2>2, FilteredInterval
  <2>5. ASSUME NEW j \in 1 .. m PROVE Filtered(r, set)[j] = r[a + j]
    BY <2>1, <2>2, FilteredInterval
  <2> QED
    BY <2>3, <2>4, <2>5
<1>10. \A j \in 1 .. m : r[a + j] = F[s][j]
  BY <1>4 DEF a, m
<1>11. Filtered(r, set) = F[s]
  <2>1. F[s] \in Seq(FixupRecord) /\ Len(F[s]) = m
    BY <1>2 DEF m
  <2> QED
    BY <1>9, <1>10, <2>1, SameSequence
<1> QED
  BY <1>8, <1>11 DEF r, F

\* r holds the fixups of q in some order.
Arranges(c, r, q) ==
  /\ c \in [1 .. Len(r) -> 1 .. Len(q)]
  /\ \A x, y \in 1 .. Len(r) : c[x] = c[y] => x = y
  /\ \A i \in 1 .. Len(q) : \E x \in 1 .. Len(r) : c[x] = i
  /\ \A x \in 1 .. Len(r) : SameFixup(r[x], q[c[x]], q[c[x]].section)

\* Every fixup is read once.
LEMMA EachReadOnce ==
  ASSUME NEW n, NEW q, FreshFixups(q, n)
  PROVE  LET r == FlattenSeq(ReadSections(q, n))
         IN  /\ r \in Seq(FixupRecord) /\ \A x \in 1 .. Len(r) : r[x].width \in {2, 4}
             /\ \E c : Arranges(c, r, q)
<1> DEFINE F == ReadSections(q, n)
           r == FlattenSeq(F)
           o(s) == OfSection(q, s)
           IsOrder(p, s) == /\ Enumerates(p, Len(o(s)), SectionPositions(q, s), Len(q))
                            /\ \A i \in 1 .. Len(o(s)) : o(s)[i] = q[p[i]]
           order == [s \in 1 .. n |-> CHOOSE p : IsOrder(p, s)]
<1>1. IsSeqs(F, FixupRecord) /\ Len(F) = n /\ n \in Nat /\ q \in Seq(FixupRecord)
  BY ReadSectionsSeqs DEF FreshFixups
<1>2. ASSUME NEW s \in 1 .. n
      PROVE  /\ Len(F[s]) = Len(o(s)) /\ Len(F[s]) \in Nat
             /\ \A j \in 1 .. Len(F[s]) : SameFixup(F[s][j], o(s)[j], s) /\ F[s][j].width \in {2, 4}
  BY ReadSection
<1>3. ASSUME NEW s \in 1 .. n PROVE IsOrder(order[s], s)
  <2>1. \E p : IsOrder(p, s)
    BY SectionFixups
  <2>2. order[s] = CHOOSE p : IsOrder(p, s)
    OBVIOUS
  <2> HIDE DEF order, IsOrder
  <2> QED
    BY <2>1, <2>2
<1> HIDE DEF F, order
<1>4. PICK e : Places(e, FixupRecord, F, r)
  BY <1>1, FlattenPlaces
<1> HIDE DEF r
<1>5. /\ e \in [0 .. n -> Nat] /\ r \in Seq(FixupRecord) /\ Len(r) \in Nat
      /\ \A k \in 1 .. n : \A j \in 1 .. Len(F[k]) : e[k - 1] + j \in 1 .. Len(r) /\ r[e[k - 1] + j] = F[k][j]
  <2>1. e \in [0 .. n -> Nat] /\ r \in Seq(FixupRecord)
    BY <1>1, <1>4 DEF Places
  <2>2. \A k \in 1 .. n : \A j \in 1 .. Len(F[k]) : e[k - 1] + j \in 1 .. Len(r) /\ r[e[k - 1] + j] = F[k][j]
    BY <1>1, <1>4 DEF Places
  <2>3. Len(r) \in Nat
    BY <2>1
  <2> QED
    BY <2>1, <2>2, <2>3
<1> DEFINE c == [x \in 1 .. Len(r) |-> order[r[x].section][x - e[r[x].section - 1]]]
\* The j-th fixup of section s.
<1>6. ASSUME NEW s \in 1 .. n, NEW j \in 1 .. Len(F[s]), NEW x \in 1 .. Len(r), x = e[s - 1] + j
      PROVE  /\ r[x].section = s /\ r[x].width \in {2, 4} /\ c[x] = order[s][j] /\ c[x] \in 1 .. Len(q)
             /\ SameFixup(r[x], q[c[x]], s) /\ q[c[x]].section = s
  <2>1. r[x] = F[s][j] /\ j \in 1 .. Len(o(s))
    BY <1>2, <1>5, <1>6
  <2>2. SameFixup(r[x], o(s)[j], s) /\ r[x].width \in {2, 4}
    BY <1>2, <2>1
  <2>3. r[x].section = s
    BY <2>2 DEF SameFixup
  <2>4. e[s - 1] \in Nat
    BY <1>1, <1>5
  <2>5. x - e[s - 1] = j
    BY <2>4, <1>6
  <2>6. c[x] = order[s][j]
    BY <2>3, <2>5
  <2> HIDE DEF c
  <2>7. IsOrder(order[s], s)
    BY <1>3
  <2>8. order[s][j] \in 1 .. Len(q) /\ o(s)[j] = q[order[s][j]] /\ order[s][j] \in SectionPositions(q, s)
    BY <2>1, <2>7 DEF Enumerates
  <2> QED
    BY <2>2, <2>3, <2>6, <2>8 DEF SectionPositions
<1>7. ASSUME NEW x \in 1 .. Len(r)
      PROVE  \E s \in 1 .. n : \E j \in 1 .. Len(F[s]) : x = e[s - 1] + j
  BY <1>1, <1>4, PlacesCover
<1> HIDE DEF c
<1>8. ASSUME NEW x \in 1 .. Len(r)
      PROVE  c[x] \in 1 .. Len(q) /\ SameFixup(r[x], q[c[x]], q[c[x]].section) /\ r[x].width \in {2, 4}
  <2>1. PICK s \in 1 .. n : \E j \in 1 .. Len(F[s]) : x = e[s - 1] + j
    BY <1>7
  <2>2. PICK j \in 1 .. Len(F[s]) : x = e[s - 1] + j
    BY <2>1
  <2> QED
    BY <1>6, <2>2
<1>9. ASSUME NEW x \in 1 .. Len(r), NEW y \in 1 .. Len(r), c[x] = c[y]
      PROVE  x = y
  <2>1. PICK s \in 1 .. n : \E j \in 1 .. Len(F[s]) : x = e[s - 1] + j
    BY <1>7
  <2>2. PICK j \in 1 .. Len(F[s]) : x = e[s - 1] + j
    BY <2>1
  <2>3. PICK t \in 1 .. n : \E k \in 1 .. Len(F[t]) : y = e[t - 1] + k
    BY <1>7
  <2>4. PICK k \in 1 .. Len(F[t]) : y = e[t - 1] + k
    BY <2>3
  <2>5. q[c[x]].section = s /\ c[x] = order[s][j]
    BY <1>6, <2>2
  <2>6. q[c[y]].section = t /\ c[y] = order[t][k]
    BY <1>6, <2>4
  <2>7. t = s /\ order[s][j] = order[s][k]
    BY <1>9, <2>5, <2>6
  <2>8. Enumerates(order[s], Len(o(s)), SectionPositions(q, s), Len(q)) /\ Len(o(s)) = Len(F[s])
    BY <1>2, <1>3
  <2>9. j \in 1 .. Len(o(s)) /\ k \in 1 .. Len(o(s)) /\ Len(o(s)) \in Nat
    BY <1>2, <2>7, <2>8
  <2>10. /\ j < k => order[s][j] < order[s][k]
         /\ k < j => order[s][k] < order[s][j]
         /\ order[s][j] \in 1 .. Len(q)
    BY <2>8, <2>9 DEF Enumerates
  <2>11. j = k
    BY <2>7, <2>9, <2>10
  <2> QED
    BY <2>2, <2>4, <2>7, <2>11
<1>10. ASSUME NEW i \in 1 .. Len(q) PROVE \E x \in 1 .. Len(r) : c[x] = i
  <2> DEFINE s == q[i].section
  <2>1. s \in 1 .. n /\ i \in SectionPositions(q, s)
    BY DEF FreshFixups, SectionPositions
  <2> HIDE DEF s
  <2>2. Enumerates(order[s], Len(o(s)), SectionPositions(q, s), Len(q)) /\ Len(o(s)) = Len(F[s])
    BY <1>2, <1>3, <2>1
  <2>3. PICK j \in 1 .. Len(o(s)) : order[s][j] = i
    BY <2>1, <2>2 DEF Enumerates
  <2>4. e[s - 1] + j \in 1 .. Len(r)
    BY <1>5, <2>1, <2>2, <2>3
  <2>5. c[e[s - 1] + j] = i
    BY <1>6, <2>1, <2>2, <2>3, <2>4
  <2> QED
    BY <2>4, <2>5
<1>11. c \in [1 .. Len(r) -> 1 .. Len(q)]
  BY <1>8 DEF c
<1>12. Arranges(c, r, q)
  BY <1>8, <1>9, <1>10, <1>11 DEF Arranges
<1>13. /\ r \in Seq(FixupRecord) /\ \A x \in 1 .. Len(r) : r[x].width \in {2, 4}
       /\ \E d : Arranges(d, r, q)
  BY <1>5, <1>8, <1>12
<1> QED
  BY <1>13 DEF r, F

\* The objects that the assembler makes.  A section of an executable has room
\* for its data.
NewObject(o, n) ==
  /\ n \in Nat
  /\ o = [executable |-> o.executable, sections |-> o.sections, fixups |-> o.fixups]
  /\ o.executable \in BOOLEAN
  /\ o.sections \in [1 .. n -> [size : Nat, data : Nat, bss : BOOLEAN]]
  /\ o.fixups \in Seq(FixupRecord)
  /\ \A i \in 1 .. Len(o.fixups) : o.fixups[i].block = 0 /\ o.fixups[i].group = 0 /\ o.fixups[i].section \in 1 .. n
  /\ o.executable => \A s \in 1 .. n : o.sections[s].data <= o.sections[s].size

LEMMA NewObjectFixups ==
  ASSUME NEW n, NEW o, NewObject(o, n), Writable(o)
  PROVE  FreshFixups(o.fixups, n)
<1>1. ASSUME NEW i \in 1 .. Len(o.fixups) PROVE o.fixups[i].width \in {2, 4}
  <2>1. DOMAIN o.fixups = 1 .. Len(o.fixups)
    BY DEF NewObject
  <2>2. RecordKind(o.fixups[i]) # "none"
    BY <2>1 DEF Writable
  <2> QED
    BY <2>2 DEF RecordKind
<1> QED
  BY <1>1 DEF NewObject, FreshFixups

\* A new object that can be written is read back with its data, except that of BSS
\* sections, which is dropped, and with the sizes of the BSS sections and, from an
\* executable, of all; what was read can be written and gives the same file; and
\* every fixup is read once, those of BSS sections too, whatever the order in which
\* it was grouped (amiga_hunk_write_buffer, write_section_payload,
\* write_preserved_internal_relocs_for_section, amiga_hunk_read_buffer,
\* add_section_from_hunk, parse_reloc_block).
THEOREM ReadBack ==
  ASSUME NEW n, NEW o, NewObject(o, n), Writable(o)
  PROVE  LET r == Parsed(Written(o))
         IN  /\ \A s \in 1 .. n : r.sections[s].data = IF o.sections[s].bss THEN 0 ELSE o.sections[s].data
             /\ \A s \in 1 .. n :
                  o.executable \/ o.sections[s].bss => r.sections[s].size = o.sections[s].size
             /\ Writable(r) /\ Written(r) = Written(o)
             /\ r.fixups \in Seq(FixupRecord) /\ \E c : Arranges(c, r.fixups, o.fixups)
<1> DEFINE q == o.fixups
           x == o.executable
           w == Written(o)
           r == Parsed(w)
           R == FlattenSeq(ReadSections(q, n))
           hunks == [s \in 1 .. n |-> [bss |-> o.sections[s].bss, longs |-> Payload(o.sections[s]) \div 4,
                                        blocks |-> Blocks(OfSection(q, s))]]
           header == IF x THEN [s \in 1 .. n |-> o.sections[s].size \div 4] ELSE <<>>
           parts == [s \in 1 .. n |-> ParsedSection(w, s)]
<1>1. FreshFixups(q, n) /\ n \in Nat
  BY NewObjectFixups DEF NewObject
<1>2. DOMAIN o.sections = 1 .. n
  BY DEF NewObject
<1>3. w = [executable |-> x, header |-> header, hunks |-> hunks]
  BY <1>2 DEF Written
<1> HIDE DEF w
<1>4. w.executable = x /\ w.header = header /\ w.hunks = hunks
  <2> HIDE DEF header, hunks, x
  <2> QED
    BY <1>3
<1>5. [s \in DOMAIN w.hunks |-> ParsedBlocks(s, w.hunks[s].blocks)] = ReadSections(q, n)
  BY <1>4 DEF ReadSections
<1>6. r = [executable |-> x, sections |-> parts, fixups |-> R]
  <2>1. DOMAIN w.hunks = 1 .. n
    BY <1>4
  <2> QED
    BY <1>4, <1>5, <2>1 DEF Parsed
<1> HIDE DEF r
<1>7. r.executable = x /\ r.sections = parts /\ r.fixups = R
  <2> HIDE DEF x, parts, R
  <2> QED
    BY <1>6
<1>8. ASSUME NEW s \in 1 .. n
      PROVE  /\ o.sections[s].size \in Nat /\ o.sections[s].data \in Nat /\ o.sections[s].bss \in BOOLEAN
             /\ o.sections[s].size % 4 = 0 /\ o.sections[s].data % 4 = 0
             /\ x => o.sections[s].data <= o.sections[s].size
  BY <1>2 DEF NewObject, Writable
<1>9. ASSUME NEW s \in 1 .. n
      PROVE  /\ parts[s].bss = o.sections[s].bss
             /\ o.sections[s].bss => parts[s].data = 0 /\ parts[s].size = o.sections[s].size
             /\ ~o.sections[s].bss => /\ parts[s].data = o.sections[s].data
                                      /\ parts[s].size = IF x THEN o.sections[s].size ELSE o.sections[s].data
  <2> DEFINE size == o.sections[s].size
             data == o.sections[s].data
             bss == o.sections[s].bss
             longs == w.hunks[s].longs
             allocated == IF x THEN w.header[s] * 4 ELSE 0
  <2>1. /\ size \in Nat /\ data \in Nat /\ bss \in BOOLEAN
        /\ size % 4 = 0 /\ data % 4 = 0 /\ (x => data <= size)
    BY <1>8
  <2>2. w.hunks[s].bss = bss /\ longs = (IF bss THEN size ELSE data) \div 4
    BY <1>4 DEF Payload
  <2>3. x => w.header[s] = size \div 4
    BY <1>4
  <2>4. parts[s] = [bss |-> bss, size |-> IF allocated # 0 THEN allocated ELSE longs * 4,
                    data |-> IF bss THEN 0 ELSE longs * 4]
    <3>1. parts[s] = ParsedSection(w, s)
      OBVIOUS
    <3> HIDE DEF parts
    <3> QED
      BY <1>4, <2>2, <3>1 DEF ParsedSection
  <2> HIDE DEF size, data, bss, longs, parts
  <2>5. (data \div 4) * 4 = data /\ (size \div 4) * 4 = size
    BY <2>1
  <2>6. allocated = IF x THEN size ELSE 0
    BY <2>3, <2>5
  <2> HIDE DEF allocated
  <2>7. /\ parts[s].bss = bss /\ parts[s].size = (IF allocated # 0 THEN allocated ELSE longs * 4)
        /\ parts[s].data = IF bss THEN 0 ELSE longs * 4
    BY <2>4
  <2>8. CASE bss
    <3>1. longs * 4 = size
      BY <2>2, <2>5, <2>8
    <3>2. parts[s].bss = bss /\ parts[s].data = 0 /\ parts[s].size = size
      BY <2>6, <2>7, <2>8, <3>1
    <3> QED
      BY <2>8, <3>2 DEF size, bss
  <2>9. CASE ~bss
    <3>1. longs * 4 = data
      BY <2>2, <2>5, <2>9
    <3>2. parts[s].data = data
      BY <2>7, <2>9, <3>1
    <3>3. parts[s].size = IF x THEN size ELSE data
      BY <2>1, <2>6, <2>7, <3>1
    <3> QED
      BY <2>7, <2>9, <3>2, <3>3 DEF size, data, bss
  <2> QED
    BY <2>8, <2>9
<1>10. R \in Seq(FixupRecord) /\ (\A i \in 1 .. Len(R) : R[i].width \in {2, 4}) /\ \E c : Arranges(c, R, q)
  BY <1>1, EachReadOnce
<1>11. DOMAIN parts = 1 .. n
  OBVIOUS
<1> HIDE DEF parts, R
<1>12. Writable(r)
  <2>1. ASSUME NEW s \in DOMAIN r.sections PROVE r.sections[s].size % 4 = 0 /\ r.sections[s].data % 4 = 0
    <3>1. s \in 1 .. n
      BY <1>7, <1>11
    <3>2. CASE o.sections[s].bss
      BY <1>7, <1>8, <1>9, <3>1, <3>2
    <3>3. CASE ~o.sections[s].bss
      BY <1>7, <1>8, <1>9, <3>1, <3>3
    <3> QED
      BY <3>2, <3>3
  <2>2. ASSUME NEW i \in DOMAIN r.fixups PROVE RecordKind(r.fixups[i]) # "none"
    <3>1. r.fixups[i].width \in {2, 4}
      BY <1>7, <1>10
    <3> QED
      BY <3>1 DEF RecordKind
  <2> QED
    BY <2>1, <2>2 DEF Writable
<1>13. ASSUME NEW s \in 1 .. n PROVE Blocks(OfSection(R, s)) = Blocks(OfSection(q, s))
  <2>1. OfSection(R, s) = ReadSections(q, n)[s]
    BY <1>1, ReadOfSection DEF R
  <2>2. Blocks(ReadSections(q, n)[s]) = Blocks(OfSection(q, s))
    BY <1>1, ReadSection
  <2> QED
    BY <2>1, <2>2
<1>14. [s \in 1 .. n |-> [bss |-> parts[s].bss, longs |-> Payload(parts[s]) \div 4,
                          blocks |-> Blocks(OfSection(R, s))]] = hunks
  <2>1. ASSUME NEW s \in 1 .. n PROVE parts[s].bss = o.sections[s].bss /\ Payload(parts[s]) = Payload(o.sections[s])
    BY <1>8, <1>9 DEF Payload
  <2> QED
    BY <1>13, <2>1
<1>15. (IF x THEN [s \in 1 .. n |-> parts[s].size \div 4] ELSE <<>>) = header
  <2>1. ASSUME x, NEW s \in 1 .. n PROVE parts[s].size = o.sections[s].size
    BY <1>8, <1>9, <2>1
  <2> QED
    BY <2>1
<1>16. Written(r) = w
  <2>1. Written(r) = [executable |-> x,
                      header |-> IF x THEN [s \in 1 .. n |-> parts[s].size \div 4] ELSE <<>>,
                      hunks |-> [s \in 1 .. n |-> [bss |-> parts[s].bss, longs |-> Payload(parts[s]) \div 4,
                                                    blocks |-> Blocks(OfSection(R, s))]]]
    BY <1>7, <1>11 DEF Written
  <2> HIDE DEF x, header, hunks
  <2> QED
    BY <1>3, <1>14, <1>15, <2>1
<1>17. ASSUME NEW s \in 1 .. n
       PROVE  /\ r.sections[s].data = IF o.sections[s].bss THEN 0 ELSE o.sections[s].data
              /\ x \/ o.sections[s].bss => r.sections[s].size = o.sections[s].size
  BY <1>7, <1>8, <1>9
<1>18. r.fixups \in Seq(FixupRecord) /\ \E c : Arranges(c, r.fixups, q)
  BY <1>7, <1>10
<1> QED
  BY <1>12, <1>16, <1>17, <1>18 DEF r, w

=============================================================================
