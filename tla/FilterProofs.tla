----------------------------- MODULE FilterProofs -----------------------------
(***************************************************************************)
(* What Filter leaves of a sequence.  Its definition is recursive on the   *)
(* natural numbers, so these proofs are by induction: a least natural      *)
(* number for which the claim fails would be zero or have a predecessor    *)
(* for which it fails.                                                     *)
(***************************************************************************)
EXTENDS Filter, FiniteSetTheorems, SequenceTheorems, WellFoundedInduction, TLAPS

\* A set of natural numbers has a least element.
LEMMA NatMin ==
  ASSUME NEW T, T \subseteq Nat, T # {}
  PROVE  \E x \in T : \A y \in T : x <= y
<1>1. \A x, y \in Nat : <<x, y>> \in OpToRel(<, Nat) <=> x < y
  BY DEF OpToRel
<1>2. PICK R : IsWellFoundedOn(R, Nat) /\ \A x, y \in Nat : <<x, y>> \in R <=> x < y
  BY <1>1, NatLessThanWellFounded, Zenon
<1>3. IsWellFoundedOn(R, Nat)
  BY <1>2
<1>4. PICK x \in T : \A y \in T : ~ (<<y, x>> \in R)
  BY <1>3, WFMin
<1>5. \A y \in T : ~ (y < x)
  BY <1>2, <1>4, Zenon
<1>6. QED BY <1>5

\* Induction up to a bound, for a set: what is in it with 0 and with the
\* successor of each of its numbers is all of them.
LEMMA UpTo ==
  ASSUME NEW n \in Nat, NEW T, 0 \in T, \A k \in 1 .. n : k - 1 \in T => k \in T
  PROVE  0 .. n \subseteq T
<1> DEFINE Out == {k \in 0 .. n : k \notin T}
<1>1. SUFFICES ASSUME Out # {} PROVE FALSE
  OBVIOUS
<1>2. PICK k \in Out : \A j \in Out : k <= j
  <2>1. Out \subseteq Nat
    OBVIOUS
  <2> HIDE DEF Out
  <2>2. QED BY <1>1, <2>1, NatMin
<1>3. k \in 1 .. n
  BY k \in 0 .. n, k \notin T
<1>4. k - 1 \in T
  BY <1>2, <1>3
<1>5. QED BY <1>3, <1>4, <1>2

-----------------------------------------------------------------------------
(* The recursive function exists, so it has the values its definition says. *)

Step(s, S, f, k) ==
    IF k = 0 THEN <<>>
    ELSE IF s[k] \in S THEN Append(f[k - 1], s[k]) ELSE f[k - 1]

IsKept(s, S, n, f) == f = [k \in 0 .. n |-> Step(s, S, f, k)]

LEMMA KeptExists ==
  ASSUME NEW s, NEW S, NEW n \in Nat
  PROVE  \E f : IsKept(s, S, n, f)
<1> DEFINE T == {k \in Nat : \E f : IsKept(s, S, k, f)}
<1>1. 0 \in T
  <2>1. IsKept(s, S, 0, [k \in 0 .. 0 |-> <<>>])
    BY DEF IsKept, Step
  <2>2. QED BY <2>1
<1>2. ASSUME NEW k \in 1 .. n, k - 1 \in T PROVE k \in T
  <2>1. PICK g : IsKept(s, S, k - 1, g)
    BY <1>2
  <2> DEFINE h == [j \in 0 .. k |-> IF j = k THEN Step(s, S, g, k) ELSE g[j]]
  <2>2. \A j \in 0 .. k - 1 : h[j] = g[j] /\ g[j] = Step(s, S, g, j)
    BY <2>1 DEF IsKept
  <2>3. ASSUME NEW j \in 0 .. k PROVE h[j] = Step(s, S, h, j)
    <3>1. CASE j = k
      <4>1. h[k] = Step(s, S, g, k) /\ h[k - 1] = g[k - 1]
        OBVIOUS
      <4>2. QED BY <3>1, <4>1 DEF Step
    <3>2. CASE j # k
      <4>0. j \in 0 .. k - 1
        BY <3>2
      <4>1. h[j] = g[j] /\ g[j] = Step(s, S, g, j)
        BY <2>2, <4>0
      <4>2. j # 0 => h[j - 1] = g[j - 1]
        BY <3>2
      <4>3. QED BY <4>1, <4>2 DEF Step
    <3>3. QED BY <3>1, <3>2
  <2>4. IsKept(s, S, k, h)
    BY <2>3 DEF IsKept
  <2>5. QED BY <2>4
<1>3. 0 .. n \subseteq T
  <2> HIDE DEF T
  <2> QED BY <1>1, <1>2, UpTo
<1>4. QED BY <1>3

LEMMA FilteredSteps ==
  ASSUME NEW X, NEW s \in Seq(X), NEW S
  PROVE  /\ Filtered(s, S)[0] = <<>>
         /\ \A k \in 1 .. Len(s) :
               Filtered(s, S)[k] = IF s[k] \in S THEN Append(Filtered(s, S)[k - 1], s[k])
                                   ELSE Filtered(s, S)[k - 1]
<1> DEFINE n == Len(s)
<1>0. n \in Nat
  OBVIOUS
<1>1. PICK f : IsKept(s, S, n, f)
  BY <1>0, KeptExists
<1> DEFINE g == CHOOSE f0 : IsKept(s, S, n, f0)
<1>2. IsKept(s, S, n, g)
  BY <1>1
<1>3. Filtered(s, S) = g
  BY DEF Filtered, IsKept, Step
<1>4. \A k \in 0 .. n : g[k] = Step(s, S, g, k)
  <2> HIDE DEF g
  <2> QED BY <1>2 DEF IsKept
<1> HIDE DEF g
<1>5. g[0] = <<>>
  BY <1>0, <1>4 DEF Step
<1>6. \A k \in 1 .. n : g[k] = IF s[k] \in S THEN Append(g[k - 1], s[k]) ELSE g[k - 1]
  BY <1>0, <1>4 DEF Step
<1>7. QED BY <1>3, <1>5, <1>6

\* What is left out of the first k elements.
LeftOut(s, S, k) == {j \in 1 .. k : s[j] \notin S}

\* The first k elements contribute k elements less those that are not in S, all
\* of them among these k and in S; and what they contribute stays.
LEMMA FilteredTo ==
  ASSUME NEW X, NEW s \in Seq(X), NEW S, NEW k \in 0 .. Len(s)
  PROVE  /\ Filtered(s, S)[k] \in Seq(X)
         /\ IsFiniteSet(LeftOut(s, S, k))
         /\ Len(Filtered(s, S)[k]) = k - Cardinality(LeftOut(s, S, k))
         /\ \A i \in 1 .. Len(Filtered(s, S)[k]) :
               \E j \in 1 .. k : s[j] \in S /\ Filtered(s, S)[k][i] = s[j]
<1> USE DEF LeftOut
<1> DEFINE g == Filtered(s, S)
           out(i) == LeftOut(s, S, i)
           good(i) == /\ g[i] \in Seq(X)
                      /\ IsFiniteSet(out(i))
                      /\ Len(g[i]) = i - Cardinality(out(i))
                      /\ \A a \in 1 .. Len(g[i]) :
                            \E j \in 1 .. i : s[j] \in S /\ g[i][a] = s[j]
           T == {i \in 0 .. Len(s) : good(i)}
<1>0. Len(s) \in Nat /\ \A i \in 1 .. Len(s) : s[i] \in X
  OBVIOUS
<1>1. 0 \in T
  <2>1. g[0] = <<>>
    BY FilteredSteps
  <2>2. out(0) = {}
    OBVIOUS
  <2>3. good(0)
    <3>1. Cardinality(out(0)) = 0 /\ IsFiniteSet(out(0))
      BY <2>2, FS_EmptySet
    <3> HIDE DEF g, out
    <3>2. g[0] \in Seq(X) /\ Len(g[0]) = 0
      BY <2>1
    <3>3. QED BY <3>1, <3>2
  <2>4. QED BY <1>0, <2>3
<1>2. ASSUME NEW i \in 1 .. Len(s), i - 1 \in T PROVE i \in T
  <2>1. g[i] = IF s[i] \in S THEN Append(g[i - 1], s[i]) ELSE g[i - 1]
    BY FilteredSteps
  <2>2. good(i - 1)
    BY <1>2
  <2>3. CASE s[i] \in S
    <3>1. out(i) = out(i - 1)
      BY <2>3
    <3>2. g[i] = Append(g[i - 1], s[i])
      BY <2>1, <2>3
    <3> HIDE DEF g
    <3>3. g[i] \in Seq(X) /\ Len(g[i]) = Len(g[i - 1]) + 1
      BY <1>0, <2>2, <3>2
    <3>4. ASSUME NEW a \in 1 .. Len(g[i])
          PROVE  \E j \in 1 .. i : s[j] \in S /\ g[i][a] = s[j]
      <4>1. CASE a = Len(g[i])
        <5>1. g[i][a] = s[i]
          BY <1>0, <2>2, <3>2, <3>3, <4>1
        <5>2. QED BY <2>3, <5>1
      <4>2. CASE a # Len(g[i])
        <5>1. a \in 1 .. Len(g[i - 1]) /\ g[i][a] = g[i - 1][a]
          BY <1>0, <2>2, <3>2, <3>3, <4>2
        <5>2. PICK j \in 1 .. i - 1 : s[j] \in S /\ g[i - 1][a] = s[j]
          BY <2>2, <5>1
        <5>3. j \in 1 .. i
          OBVIOUS
        <5>4. QED BY <5>1, <5>2, <5>3
      <4>3. QED BY <4>1, <4>2
    <3>5. Len(g[i]) = i - Cardinality(out(i))
      <4> HIDE DEF out
      <4>1. Cardinality(out(i - 1)) \in Nat
        BY <2>2, FS_CardinalityType
      <4>2. QED BY <2>2, <3>1, <3>3, <4>1
    <3>6. IsFiniteSet(out(i))
      BY <2>2, <3>1
    <3>7. good(i)
      BY <3>3, <3>4, <3>5, <3>6
    <3>8. QED BY <3>7
  <2>4. CASE s[i] \notin S
    <3>1. out(i) = out(i - 1) \cup {i} /\ i \notin out(i - 1)
      BY <2>4
    <3>2. g[i] = g[i - 1]
      BY <2>1, <2>4
    <3> HIDE DEF g, out
    <3>3. IsFiniteSet(out(i)) /\ Cardinality(out(i)) = Cardinality(out(i - 1)) + 1
      BY <2>2, <3>1, FS_AddElement
    <3>4. Len(g[i]) = i - Cardinality(out(i))
      <4>1. Cardinality(out(i - 1)) \in Nat
        BY <2>2, FS_CardinalityType
      <4>2. QED BY <2>2, <3>2, <3>3, <4>1
    <3>5. \A a \in 1 .. Len(g[i]) : \E j \in 1 .. i : s[j] \in S /\ g[i][a] = s[j]
      BY <2>2, <3>2
    <3>6. good(i)
      BY <2>2, <3>2, <3>3, <3>4, <3>5
    <3>7. QED BY <3>6
  <2>5. QED BY <2>3, <2>4
<1>3. 0 .. Len(s) \subseteq T
  <2> HIDE DEF T
  <2> QED BY <1>0, <1>1, <1>2, UpTo
<1>4. good(k)
  BY <1>3
<1>5. QED BY <1>4

\* What the first k elements contribute is where the result starts.
LEMMA FilteredPrefix ==
  ASSUME NEW X, NEW s \in Seq(X), NEW S, NEW k \in 0 .. Len(s)
  PROVE  /\ Len(Filtered(s, S)[k]) <= Len(Filter(s, S))
         /\ \A i \in 1 .. Len(Filtered(s, S)[k]) : Filter(s, S)[i] = Filtered(s, S)[k][i]
<1> DEFINE g == Filtered(s, S)
           good(n) == k <= n => /\ Len(g[k]) <= Len(g[n])
                                /\ \A i \in 1 .. Len(g[k]) : g[n][i] = g[k][i]
           T == {n \in 0 .. Len(s) : good(n)}
<1>0. Len(s) \in Nat
  OBVIOUS
<1>1. \A n \in 0 .. Len(s) : g[n] \in Seq(X)
  BY FilteredTo
<1>2. \A n \in 1 .. Len(s) :
        g[n] = IF s[n] \in S THEN Append(g[n - 1], s[n]) ELSE g[n - 1]
  BY FilteredSteps
<1> HIDE DEF g
<1>3. 0 \in T
  BY <1>0, <1>1
<1>4. ASSUME NEW n \in 1 .. Len(s), n - 1 \in T PROVE n \in T
  <2>1. CASE k = n
    BY <1>1, <2>1
  <2>2. CASE k # n
    <3>1. SUFFICES ASSUME k <= n PROVE good(n)
      OBVIOUS
    <3>2. good(n - 1) /\ k <= n - 1
      BY <1>4, <2>2, <3>1
    <3>3. g[n - 1] \in Seq(X) /\ g[k] \in Seq(X) /\ s[n] \in X
      BY <1>1
    <3>4. CASE s[n] \in S
      <4>1. g[n] = Append(g[n - 1], s[n])
        BY <1>2, <3>4
      <4>2. QED BY <3>2, <3>3, <4>1
    <3>5. CASE s[n] \notin S
      BY <1>2, <3>2, <3>5
    <3>6. QED BY <3>4, <3>5
  <2>3. QED BY <2>1, <2>2
<1>5. 0 .. Len(s) \subseteq T
  <2> HIDE DEF T
  <2> QED BY <1>0, <1>3, <1>4, UpTo
<1>6. good(Len(s))
  BY <1>0, <1>5
<1>7. Filter(s, S) = g[Len(s)]
  BY DEF Filter, g
<1>8. QED BY <1>0, <1>6, <1>7 DEF g

\* Filter keeps elements of the sequence that are in the set.
THEOREM FilterElements ==
  ASSUME NEW X, NEW s \in Seq(X), NEW S
  PROVE  /\ Filter(s, S) \in Seq(X)
         /\ Len(Filter(s, S)) <= Len(s)
         /\ \A i \in 1 .. Len(Filter(s, S)) :
               \E j \in 1 .. Len(s) : s[j] \in S /\ Filter(s, S)[i] = s[j]
<1>1. PICK n : n = Len(s)
  OBVIOUS
<1>2. n \in 0 .. Len(s)
  BY <1>1
<1>3. /\ Filtered(s, S)[n] \in Seq(X)
      /\ IsFiniteSet(LeftOut(s, S, n))
      /\ Len(Filtered(s, S)[n]) = n - Cardinality(LeftOut(s, S, n))
      /\ \A i \in 1 .. Len(Filtered(s, S)[n]) :
            \E j \in 1 .. n : s[j] \in S /\ Filtered(s, S)[n][i] = s[j]
  BY <1>2, FilteredTo
<1>4. Filter(s, S) = Filtered(s, S)[n]
  BY <1>1 DEF Filter
<1>5. Cardinality(LeftOut(s, S, n)) \in Nat
  BY <1>3, FS_CardinalityType
<1>6. Len(Filter(s, S)) <= n
  BY <1>2, <1>3, <1>4, <1>5
<1>7. QED BY <1>1, <1>3, <1>4, <1>6

-----------------------------------------------------------------------------
(* What is kept, and in which order.                                       *)

\* What the elements after the first k contribute comes behind what those do.
LEMMA FilteredSuffix ==
  ASSUME NEW X, NEW s \in Seq(X), NEW S, NEW k \in 0 .. Len(s)
  PROVE  \A i \in Len(Filtered(s, S)[k]) + 1 .. Len(Filter(s, S)) :
            \E j \in k + 1 .. Len(s) : s[j] \in S /\ Filter(s, S)[i] = s[j]
<1> DEFINE g == Filtered(s, S)
           good(n) == k <= n =>
              \A i \in Len(g[k]) + 1 .. Len(g[n]) :
                 \E j \in k + 1 .. n : s[j] \in S /\ g[n][i] = s[j]
           T == {n \in 0 .. Len(s) : good(n)}
<1>0. Len(s) \in Nat
  OBVIOUS
<1>1. \A n \in 0 .. Len(s) : g[n] \in Seq(X)
  BY FilteredTo
<1>2. \A n \in 1 .. Len(s) :
        g[n] = IF s[n] \in S THEN Append(g[n - 1], s[n]) ELSE g[n - 1]
  BY FilteredSteps
<1> HIDE DEF g
<1>3. 0 \in T
  BY <1>0, <1>1
<1>4. ASSUME NEW n \in 1 .. Len(s), n - 1 \in T PROVE n \in T
  <2>1. CASE k = n
    BY <1>1, <2>1
  <2>2. CASE k # n
    <3>1. SUFFICES ASSUME k <= n PROVE good(n)
      OBVIOUS
    <3>2. good(n - 1) /\ k <= n - 1
      BY <1>4, <2>2, <3>1
    <3>3. g[n - 1] \in Seq(X) /\ g[k] \in Seq(X) /\ s[n] \in X
      BY <1>1
    <3>4. ASSUME NEW i \in Len(g[k]) + 1 .. Len(g[n])
          PROVE  \E j \in k + 1 .. n : s[j] \in S /\ g[n][i] = s[j]
      <4>1. PICK a : a = g[n - 1]
        OBVIOUS
      <4>2. PICK b : b = g[n]
        OBVIOUS
      <4>3. b = IF s[n] \in S THEN Append(a, s[n]) ELSE a
        BY <1>2, <4>1, <4>2, Zenon
      <4>4. a \in Seq(X) /\ s[n] \in X /\ Len(g[k]) \in Nat
        BY <3>3, <4>1
      <4>5. i \in Len(g[k]) + 1 .. Len(b)
        BY <4>2
      <4>6. CASE i <= Len(a)
        <5>1. i \in Len(g[k]) + 1 .. Len(g[n - 1])
          BY <4>1, <4>4, <4>5, <4>6
        <5>2. PICK j \in k + 1 .. n - 1 : s[j] \in S /\ g[n - 1][i] = s[j]
          BY <3>2, <5>1
        <5>3. b[i] = a[i]
          BY <4>3, <4>4, <4>5, <4>6
        <5>4. j \in k + 1 .. n
          OBVIOUS
        <5>5. QED BY <4>1, <4>2, <5>2, <5>3, <5>4
      <4>7. CASE i > Len(a)
        <5>1. s[n] \in S /\ b = Append(a, s[n])
          BY <4>3, <4>4, <4>5, <4>7
        <5>2. b[i] = s[n]
          BY <4>4, <4>5, <4>7, <5>1
        <5>3. n \in k + 1 .. n
          BY <3>2
        <5>4. QED BY <4>2, <5>1, <5>2, <5>3
      <4>8. QED BY <4>4, <4>5, <4>6, <4>7
    <3>5. QED BY <3>4
  <2>3. QED BY <2>1, <2>2
<1>5. 0 .. Len(s) \subseteq T
  <2> HIDE DEF T
  <2> QED BY <1>0, <1>3, <1>4, UpTo
<1>6. good(Len(s))
  BY <1>0, <1>5
<1>7. Filter(s, S) = g[Len(s)]
  BY DEF Filter, g
<1>8. \A i \in Len(g[k]) + 1 .. Len(g[Len(s)]) :
         \E j \in k + 1 .. Len(s) : s[j] \in S /\ g[Len(s)][i] = s[j]
  BY <1>0, <1>6
<1>9. \A i \in Len(g[k]) + 1 .. Len(Filter(s, S)) :
         \E j \in k + 1 .. Len(s) : s[j] \in S /\ Filter(s, S)[i] = s[j]
  BY <1>7, <1>8, Zenon
<1>10. QED BY <1>9, Zenon DEF g

\* An element that is in S is kept, behind what those before it contribute.
LEMMA FilterPlace ==
  ASSUME NEW X, NEW s \in Seq(X), NEW S, NEW k \in 1 .. Len(s), s[k] \in S
  PROVE  /\ Len(Filtered(s, S)[k - 1]) \in Nat
         /\ Len(Filtered(s, S)[k]) = Len(Filtered(s, S)[k - 1]) + 1
         /\ Len(Filtered(s, S)[k]) \in 1 .. Len(Filter(s, S))
         /\ Filter(s, S)[Len(Filtered(s, S)[k])] = s[k]
<1>1. k \in 0 .. Len(s) /\ k - 1 \in 0 .. Len(s) /\ s[k] \in X
  OBVIOUS
<1>2. Filtered(s, S)[k] = Append(Filtered(s, S)[k - 1], s[k])
  BY FilteredSteps
<1>3. Filtered(s, S)[k - 1] \in Seq(X)
  BY <1>1, FilteredTo
<1>4. /\ Len(Filtered(s, S)[k]) <= Len(Filter(s, S))
      /\ \A i \in 1 .. Len(Filtered(s, S)[k]) : Filter(s, S)[i] = Filtered(s, S)[k][i]
  BY <1>1, FilteredPrefix
<1>5. Filter(s, S) \in Seq(X)
  BY FilterElements
<1>6. PICK f : f = Filtered(s, S)[k]
  OBVIOUS
<1>7. PICK g : g = Filtered(s, S)[k - 1]
  OBVIOUS
<1>8. PICK r : r = Filter(s, S)
  OBVIOUS
<1>9. /\ g \in Seq(X) /\ f = Append(g, s[k]) /\ r \in Seq(X) /\ s[k] \in X
      /\ Len(f) <= Len(r) /\ \A i \in 1 .. Len(f) : r[i] = f[i]
  BY <1>1, <1>2, <1>3, <1>4, <1>5, <1>6, <1>7, <1>8
<1>10. Len(g) \in Nat /\ Len(f) = Len(g) + 1 /\ Len(r) \in Nat /\ f[Len(f)] = s[k]
  BY <1>9
<1>11. Len(f) \in 1 .. Len(r) /\ r[Len(f)] = s[k]
  <2>1. PICK n : n = Len(f)
    OBVIOUS
  <2>2. n \in 1 .. Len(r) /\ n \in 1 .. n /\ f[n] = s[k]
    BY <1>9, <1>10, <2>1
  <2>3. r[n] = f[n]
    BY <1>9, <2>1, <2>2
  <2>4. QED BY <2>1, <2>2, <2>3
<1>12. /\ Len(Filtered(s, S)[k - 1]) \in Nat
       /\ Len(Filtered(s, S)[k]) = Len(Filtered(s, S)[k - 1]) + 1
  BY <1>6, <1>7, <1>10
<1>13. Len(Filtered(s, S)[k]) \in 1 .. Len(Filter(s, S))
  BY <1>6, <1>8, <1>11
<1>14. Filter(s, S)[Len(Filtered(s, S)[k])] = s[k]
  BY <1>6, <1>8, <1>11
<1>15. QED BY <1>12, <1>13, <1>14

\* Filter keeps every element of the sequence that is in the set, and in the
\* order of the sequence: splice takes out what is to be taken out, and no more.
THEOREM FilterOrder ==
  ASSUME NEW X, NEW s \in Seq(X), NEW S
  PROVE  /\ \A k \in 1 .. Len(s) : s[k] \in S =>
               \E i \in 1 .. Len(Filter(s, S)) : Filter(s, S)[i] = s[k]
         /\ \A i, j \in 1 .. Len(Filter(s, S)) : i < j =>
               \E k, l \in 1 .. Len(s) :
                  /\ k < l /\ s[k] \in S /\ s[l] \in S
                  /\ Filter(s, S)[i] = s[k] /\ Filter(s, S)[j] = s[l]
<1>1. \A k \in 1 .. Len(s) : s[k] \in S =>
        \E i \in 1 .. Len(Filter(s, S)) : Filter(s, S)[i] = s[k]
  BY FilterPlace
<1>2. ASSUME NEW i \in 1 .. Len(Filter(s, S)), NEW j \in 1 .. Len(Filter(s, S)), i < j
      PROVE  \E k, l \in 1 .. Len(s) :
                /\ k < l /\ s[k] \in S /\ s[l] \in S
                /\ Filter(s, S)[i] = s[k] /\ Filter(s, S)[j] = s[l]
  <2> DEFINE T == {k \in 0 .. Len(s) : Len(Filtered(s, S)[k]) < i}
  <2>1. PICK k \in 1 .. Len(s) : Len(Filtered(s, S)[k - 1]) < i /\ i <= Len(Filtered(s, S)[k])
    <3>1. SUFFICES ASSUME \A k \in 1 .. Len(s) : k - 1 \in T => k \in T PROVE FALSE
      <4>1. \A k \in 0 .. Len(s) : Len(Filtered(s, S)[k]) \in Nat
        BY FilteredTo, LenProperties
      <4>2. PICK k \in 1 .. Len(s) : k - 1 \in T /\ k \notin T
        BY <3>1
      <4>3. Len(Filtered(s, S)[k - 1]) < i
        BY <4>2
      <4>4. k \in 0 .. Len(s)
        OBVIOUS
      <4>5. ~(Len(Filtered(s, S)[k]) < i)
        BY <4>2, <4>4
      <4>6. Len(Filtered(s, S)[k]) \in Nat /\ i \in Int
        BY <4>1, <4>4
      <4>7. i <= Len(Filtered(s, S)[k])
        BY <4>5, <4>6
      <4>8. QED BY <4>3, <4>7
    <3>2. 0 \in T
      <4>1. Filtered(s, S)[0] = <<>>
        BY FilteredSteps
      <4>2. Len(Filtered(s, S)[0]) = 0 /\ 0 \in 0 .. Len(s)
        BY <4>1
      <4>3. QED BY <4>2
    <3>3. 0 .. Len(s) \subseteq T
      <4>1. Len(s) \in Nat
        OBVIOUS
      <4> HIDE DEF T
      <4> QED BY <3>1, <3>2, <4>1, UpTo
    <3>4. Len(Filtered(s, S)[Len(s)]) < i
      BY <3>3
    <3>5. QED BY <3>4 DEF Filter
  <2>2. k - 1 \in 0 .. Len(s) /\ k \in 0 .. Len(s)
    OBVIOUS
  <2>3. s[k] \in S
    BY <2>1, <2>2, FilteredSteps, FilteredTo, LenProperties
  <2>4. /\ Len(Filtered(s, S)[k - 1]) \in Nat
        /\ Len(Filtered(s, S)[k]) = Len(Filtered(s, S)[k - 1]) + 1
        /\ Filter(s, S)[Len(Filtered(s, S)[k])] = s[k]
    BY <2>3, FilterPlace
  <2>5. i = Len(Filtered(s, S)[k])
    BY <2>1, <2>4
  <2>6. j \in Len(Filtered(s, S)[k]) + 1 .. Len(Filter(s, S))
    <3>1. Len(Filter(s, S)) \in Nat
      BY FilterElements, LenProperties
    <3>2. QED BY <1>2, <2>5, <3>1
  <2>7. PICK l \in k + 1 .. Len(s) : s[l] \in S /\ Filter(s, S)[j] = s[l]
    BY <2>2, <2>6, FilteredSuffix
  <2>8. l \in 1 .. Len(s) /\ k < l
    OBVIOUS
  <2>9. Filter(s, S)[i] = s[k]
    BY <2>4, <2>5
  <2>10. QED BY <2>3, <2>7, <2>8, <2>9
<1>3. QED BY <1>1, <1>2
=============================================================================
