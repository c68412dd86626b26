--------------------------- MODULE FilterTheorems ---------------------------
(* Induction over the natural numbers, and what filtering a sequence keeps.*)
EXTENDS Filters, FiniteSetTheorems, WellFoundedInduction, TLAPS

Below(n) == {k \in Nat : k < n}

\* The first of a non-empty set of natural numbers.
LEMMA NatMin ==
    ASSUME NEW T, T \subseteq Nat, T # {}
    PROVE  \E x \in T : \A y \in T : ~ (y < x)
<1> DEFINE R == StrictSubsetOrdering(Nat)
           F == FiniteSubsetsOf(Nat)
           U == {Below(n) : n \in T}
<1>1. IsWellFoundedOn(R, F)
  BY FS_StrictSubsetOrderingWellFounded
<1>2. \A n \in Nat : Below(n) \in F
  <2>1. TAKE n \in Nat
  <2>2. Below(n) = 0 .. (n - 1)
    BY DEF Below
  <2>3. IsFiniteSet(0 .. (n - 1))
    BY FS_Interval
  <2>4. QED
    BY <2>2, <2>3 DEF FiniteSubsetsOf, Below
<1>3. U \subseteq F /\ U # {}
  BY <1>2
<1>4. PICK X \in U : \A Y \in U : ~ (<<Y, X>> \in R)
  <2> HIDE DEF U, R, F
  <2>1. QED
    BY <1>1, <1>3, WFMin, Zenon
<1>5. PICK x \in T : X = Below(x)
  BY <1>4
<1>6. ASSUME NEW y \in T, y < x
      PROVE  FALSE
  <2>1. Below(y) \in U
    BY <1>6
  <2>2. Below(y) \subseteq Below(x)
    BY <1>6 DEF Below
  <2>3. y \in Below(x) /\ y \notin Below(y)
    BY <1>6 DEF Below
  <2>4. <<Below(y), X>> \in R
    BY <1>5, <2>2, <2>3 DEF StrictSubsetOrdering, Below
  <2>5. QED
    BY <1>4, <2>1, <2>4
<1>7. QED
  BY <1>6

LEMMA Induct ==
    ASSUME NEW P, 0 \in P, \A n \in Nat : n \in P => n + 1 \in P
    PROVE  Nat \subseteq P
<1>1. SUFFICES ASSUME Nat \ P # {} PROVE FALSE
  OBVIOUS
<1>2. PICK x \in Nat \ P : \A y \in Nat \ P : ~ (y < x)
  BY <1>1, NatMin
<1>3. x # 0 /\ x - 1 \in Nat
  BY <1>2
<1>4. x - 1 \in P
  BY <1>2, <1>3
<1>5. QED
  BY <1>2, <1>3, <1>4

-----------------------------------------------------------------------------
\* One more entry of s, after the entries of an earlier part that are in K.
OneMore(s, K, f, n) ==
    IF n = 0 THEN <<>> ELSE IF s[n] \in K THEN Append(f[n - 1], s[n]) ELSE f[n - 1]
IsFiltering(s, K, f, m) == f = [n \in 0 .. m |-> OneMore(s, K, f, n)]

\* The recursion of Filtered has a solution over any part of the sequence.
LEMMA FilteringExists ==
    ASSUME NEW s, NEW K, NEW m \in Nat
    PROVE  \E f : IsFiltering(s, K, f, m)
<1> DEFINE P == {n \in Nat : \E f : IsFiltering(s, K, f, n)}
<1>1. 0 \in P
  <2> DEFINE f == [n \in 0 .. 0 |-> <<>>]
  <2>1. \A n \in 0 .. 0 : OneMore(s, K, f, n) = <<>>
    BY DEF OneMore
  <2>2. IsFiltering(s, K, f, 0)
    BY <2>1 DEF IsFiltering
  <2> HIDE DEF f
  <2>3. QED
    BY <2>2
<1>2. ASSUME NEW k \in Nat, k \in P
      PROVE  k + 1 \in P
  <2>1. PICK f : IsFiltering(s, K, f, k)
    BY <1>2
  <2>2. /\ f = [n \in 0 .. k |-> f[n]]
        /\ \A n \in 0 .. k : f[n] = OneMore(s, K, f, n)
    BY <2>1 DEF IsFiltering
  <2> DEFINE g == [n \in 0 .. k + 1 |-> IF n = k + 1 THEN OneMore(s, K, f, k + 1) ELSE f[n]]
  <2>3. ASSUME NEW n \in 0 .. k + 1
        PROVE  g[n] = OneMore(s, K, g, n)
    <3>1. CASE n = 0
      <4>1. 0 \in 0 .. k /\ 0 \in 0 .. k + 1 /\ 0 # k + 1
        OBVIOUS
      <4>2. g[0] = f[0] /\ f[0] = OneMore(s, K, f, 0)
        BY <4>1, <2>2
      <4>3. QED
        BY <3>1, <4>2 DEF OneMore
    <3>2. CASE n # 0
      <4>1. n - 1 \in 0 .. k /\ n - 1 # k + 1 /\ n - 1 \in 0 .. k + 1
        BY <3>2
      <4>2. g[n - 1] = f[n - 1]
        BY <4>1
      <4>3. OneMore(s, K, g, n) = OneMore(s, K, f, n)
        BY <4>2, <3>2 DEF OneMore
      <4>4. g[n] = OneMore(s, K, f, n)
        <5>1. CASE n = k + 1
          BY <5>1
        <5>2. CASE n # k + 1
          <6>1. n \in 0 .. k
            BY <5>2
          <6>2. QED
            BY <5>2, <6>1, <2>2
        <5>3. QED
          BY <5>1, <5>2
      <4>5. QED
        BY <4>3, <4>4
    <3>3. QED
      BY <3>1, <3>2
  <2>4. g = [n \in 0 .. k + 1 |-> g[n]]
    OBVIOUS
  <2> HIDE DEF g
  <2>5. IsFiltering(s, K, g, k + 1)
    BY <2>3, <2>4 DEF IsFiltering
  <2>6. QED
    BY <2>5
<1> HIDE DEF P
<1>3. Nat \subseteq P
  BY <1>1, <1>2, Induct
<1>4. QED
  BY <1>3 DEF P

LEMMA FilteredByRecursion ==
    ASSUME NEW s, Len(s) \in Nat, NEW K
    PROVE  \E f : IsFiltering(s, K, f, Len(s)) /\ Filtered(s, K) = f[Len(s)]
<1> DEFINE f == CHOOSE f : f = [n \in 0 .. Len(s) |->
                  IF n = 0 THEN <<>> ELSE IF s[n] \in K THEN Append(f[n - 1], s[n]) ELSE f[n - 1]]
<1>1. Filtered(s, K) = f[Len(s)]
  BY DEF Filtered
<1>2. \E h : h = [n \in 0 .. Len(s) |->
                  IF n = 0 THEN <<>> ELSE IF s[n] \in K THEN Append(h[n - 1], s[n]) ELSE h[n - 1]]
  <2>1. PICK h : IsFiltering(s, K, h, Len(s))
    BY FilteringExists
  <2>2. QED
    BY <2>1, Zenon DEF IsFiltering, OneMore
<1>3. IsFiltering(s, K, f, Len(s))
  BY <1>2, Zenon DEF IsFiltering, OneMore
<1> HIDE DEF f
<1>4. QED
  BY <1>1, <1>3

-----------------------------------------------------------------------------
\* t holds the entries of the first m of s that are in K: g gives the place
\* each of them has in s.
Selects(s, K, m, t, g) ==
    /\ Len(t) <= m
    /\ g \in [1 .. Len(t) -> 1 .. m]
    /\ \A i \in 1 .. Len(t) : t[i] = s[g[i]] /\ t[i] \in K
    /\ \A i, j \in 1 .. Len(t) : i < j => g[i] < g[j]
    /\ \A n \in 1 .. m : s[n] \in K => \E i \in 1 .. Len(t) : g[i] = n

\* An entry in K is selected, any other is passed over.
LEMMA SelectsOneMore ==
    ASSUME NEW S, NEW s \in Seq(S), NEW K, NEW m \in Nat, m + 1 <= Len(s),
           NEW t \in Seq(S), NEW g, Selects(s, K, m, t, g)
    PROVE  \E h : Selects(s, K, m + 1,
                          IF s[m + 1] \in K THEN Append(t, s[m + 1]) ELSE t, h)
<1>0. Len(t) \in Nat /\ m + 1 \in 1 .. Len(s) /\ s[m + 1] \in S
  OBVIOUS
<1>1. /\ Len(t) <= m
      /\ g \in [1 .. Len(t) -> 1 .. m]
      /\ \A i \in 1 .. Len(t) : t[i] = s[g[i]] /\ t[i] \in K
      /\ \A i, j \in 1 .. Len(t) : i < j => g[i] < g[j]
      /\ \A n \in 1 .. m : s[n] \in K => \E i \in 1 .. Len(t) : g[i] = n
  BY DEF Selects
<1>2. CASE s[m + 1] \in K
  <2> DEFINE l == Len(t) + 1
             w == Append(t, s[m + 1])
             h == [i \in 1 .. l |-> IF i = l THEN m + 1 ELSE g[i]]
  <2>1. /\ Len(w) = l /\ w[l] = s[m + 1]
        /\ \A i \in 1 .. Len(t) : w[i] = t[i]
    BY <1>0
  <2>2. /\ l \in 1 .. l /\ \A i \in 1 .. l : i = l \/ i \in 1 .. Len(t)
        /\ \A i \in 1 .. Len(t) : i \in 1 .. l /\ i # l
    BY <1>0
  <2>3. h[l] = m + 1 /\ \A i \in 1 .. Len(t) : h[i] = g[i] /\ h[i] \in 1 .. m
    BY <2>2, <1>1
  <2>4. h \in [1 .. l -> 1 .. m + 1]
    <3>1. h = [i \in 1 .. l |-> h[i]]
      OBVIOUS
    <3> HIDE DEF h, l
    <3>2. ASSUME NEW i \in 1 .. l PROVE h[i] \in 1 .. m + 1
      BY <2>2, <2>3
    <3>3. QED
      BY <3>1, <3>2
  <2> HIDE DEF l, w, h
  <2>5. \A i \in 1 .. l : w[i] = s[h[i]] /\ w[i] \in K
    BY <2>1, <2>2, <2>3, <1>1, <1>2
  <2>6. ASSUME NEW i \in 1 .. l, NEW j \in 1 .. l, i < j
        PROVE  h[i] < h[j]
    <3>1. i \in 1 .. Len(t) /\ h[i] = g[i] /\ h[i] \in 1 .. m
      BY <2>2, <2>3, <2>6, <1>0 DEF l
    <3>2. CASE j = l
      BY <3>1, <3>2, <2>3
    <3>3. CASE j # l
      BY <3>1, <3>3, <2>2, <2>3, <2>6, <1>1
    <3>4. QED
      BY <3>2, <3>3
  <2>7. ASSUME NEW n \in 1 .. m + 1, s[n] \in K
        PROVE  \E i \in 1 .. l : h[i] = n
    <3>1. CASE n = m + 1
      BY <3>1, <2>2, <2>3
    <3>2. CASE n # m + 1
      <4>1. n \in 1 .. m
        BY <3>2
      <4>2. PICK i \in 1 .. Len(t) : g[i] = n
        BY <4>1, <2>7, <1>1
      <4>3. QED
        BY <4>2, <2>2, <2>3
    <3>3. QED
      BY <3>1, <3>2
  <2>8. Len(w) <= m + 1
    BY <2>1, <1>0, <1>1 DEF l
  <2>9. Selects(s, K, m + 1, w, h)
    BY <2>1, <2>4, <2>5, <2>6, <2>7, <2>8 DEF Selects
  <2>10. QED
    BY <2>9, <1>2 DEF w
<1>3. CASE s[m + 1] \notin K
  <2>1. g \in [1 .. Len(t) -> 1 .. m + 1]
    BY <1>1
  <2>2. \A n \in 1 .. m + 1 : s[n] \in K => n \in 1 .. m
    BY <1>3
  <2>3. Selects(s, K, m + 1, t, g)
    BY <2>1, <2>2, <1>0, <1>1 DEF Selects
  <2>4. QED
    BY <2>3, <1>3
<1>4. QED
  BY <1>2, <1>3

\* What is left of a sequence is the subsequence of its entries in K.
THEOREM FilteredIsSubsequence ==
    ASSUME NEW S, NEW s \in Seq(S), NEW K
    PROVE  /\ Filtered(s, K) \in Seq(S)
           /\ \E g : Selects(s, K, Len(s), Filtered(s, K), g)
<1>1. Len(s) \in Nat
  OBVIOUS
<1>2. PICK f : IsFiltering(s, K, f, Len(s)) /\ Filtered(s, K) = f[Len(s)]
  BY <1>1, FilteredByRecursion
<1>3. \A n \in 0 .. Len(s) : f[n] = OneMore(s, K, f, n)
  BY <1>2 DEF IsFiltering
<1> DEFINE P == {n \in Nat : n <= Len(s) =>
                    f[n] \in Seq(S) /\ \E g : Selects(s, K, n, f[n], g)}
<1>4. 0 \in P
  <2>1. f[0] = <<>>
    BY <1>1, <1>3 DEF OneMore
  <2> DEFINE g == [i \in 1 .. 0 |-> i]
  <2>2. <<>> \in Seq(S) /\ Len(<<>>) = 0
    OBVIOUS
  <2>3. g \in [1 .. 0 -> 1 .. 0] /\ \A i \in 1 .. 0 : FALSE
    OBVIOUS
  <2> HIDE DEF g
  <2>4. Selects(s, K, 0, <<>>, g)
    BY <2>2, <2>3 DEF Selects
  <2>5. QED
    BY <2>1, <2>2, <2>4
<1>5. ASSUME NEW m \in Nat, m \in P
      PROVE  m + 1 \in P
  <2>1. SUFFICES ASSUME m + 1 <= Len(s)
                 PROVE  f[m + 1] \in Seq(S) /\ \E g : Selects(s, K, m + 1, f[m + 1], g)
    OBVIOUS
  <2>2. f[m] \in Seq(S) /\ \E g : Selects(s, K, m, f[m], g)
    BY <1>1, <1>5, <2>1
  <2>3. f[m + 1] = IF s[m + 1] \in K THEN Append(f[m], s[m + 1]) ELSE f[m]
    <3>1. m + 1 \in 0 .. Len(s) /\ m + 1 # 0 /\ m + 1 - 1 = m
      BY <1>1, <2>1
    <3>2. QED
      BY <3>1, <1>3 DEF OneMore
  <2>4. s[m + 1] \in S
    BY <2>1
  <2>5. f[m + 1] \in Seq(S)
    BY <2>2, <2>3, <2>4
  <2>6. QED
    BY <2>1, <2>2, <2>3, <2>5, SelectsOneMore
<1> HIDE DEF P
<1>6. Nat \subseteq P
  BY <1>4, <1>5, Induct
<1>7. QED
  BY <1>1, <1>2, <1>6 DEF P

\* A sequence whose entries are all in K is its own selection.
LEMMA AllAreSelected ==
    ASSUME NEW S, NEW s \in Seq(S), NEW K, \A i \in 1 .. Len(s) : s[i] \in K
    PROVE  \E g : Selects(s, K, Len(s), s, g)
<1> DEFINE g == [i \in 1 .. Len(s) |-> i]
<1>1. Len(s) \in Nat /\ g \in [1 .. Len(s) -> 1 .. Len(s)]
      /\ \A i \in 1 .. Len(s) : g[i] = i
  OBVIOUS
<1> HIDE DEF g
<1>2. Selects(s, K, Len(s), s, g)
  BY <1>1 DEF Selects
<1>3. QED
  BY <1>2
=============================================================================
