-------------------------- MODULE EnumerationProofs --------------------------
(***************************************************************************)
(* What enumerating a finite set of natural numbers in order gives, and    *)
(* the least-number principle that stands in for induction.                *)
(***************************************************************************)
EXTENDS Enumeration, FiniteSetTheorems, TLAPS

-----------------------------------------------------------------------------
(* Induction *)

\* A set of natural numbers that is not empty has a least element.
LEMMA LeastNumber ==
  ASSUME NEW T, T \subseteq Nat, T # {} PROVE \E x \in T : \A y \in T : x <= y
<1> DEFINE R == OpToRel(<, Nat)
<1>1. IsWellFoundedOn(R, Nat)
  BY NatLessThanWellFounded
<1>2. \A a, b \in Nat : a < b => <<a, b>> \in R
  BY DEF R, OpToRel
<1> HIDE DEF R
<1>3. PICK x \in T : \A y \in T : ~(<<y, x>> \in R)
  BY <1>1, WFMin
<1>4. ASSUME NEW y \in T PROVE x <= y
  <2>1. x \in Nat /\ y \in Nat
    OBVIOUS
  <2>2. ~(y < x)
    BY <1>2, <1>3, <2>1
  <2>3. QED
    BY <2>1, <2>2
<1>5. QED
  BY <1>4

\* A set that holds 0 and, with a number, the next one holds every natural number.
LEMMA Induction ==
  ASSUME NEW T, 0 \in T, \A n \in Nat : n \in T => n + 1 \in T PROVE Nat \subseteq T
<1> SUFFICES ASSUME Nat \ T # {} PROVE FALSE
  OBVIOUS
<1>1. PICK x \in Nat \ T : \A y \in Nat \ T : x <= y
  BY LeastNumber
<1>2. x # 0 /\ x - 1 \in Nat /\ ~(x <= x - 1)
  BY <1>1
<1>3. x - 1 \in T
  BY <1>1, <1>2
<1>4. (x - 1) + 1 = x
  BY <1>1
<1>5. QED
  BY <1>1, <1>2, <1>3, <1>4

\* A set of numbers up to n that is not empty has a greatest element.
LEMMA GreatestNumber ==
  ASSUME NEW n \in Nat, NEW S, S \subseteq 0..n, S # {}
  PROVE  \E m \in S : \A s \in S : s <= m
<1> DEFINE T == {b \in Nat : \A s \in S : s <= b}
<1>1. n \in T /\ T \subseteq Nat
  OBVIOUS
<1>2. PICK m \in T : \A b \in T : m <= b
  BY <1>1, LeastNumber
<1>3. ASSUME m \notin S PROVE FALSE
  <2>1. \A s \in S : s \in Nat /\ s < m
    BY <1>2, <1>3
  <2>2. m # 0 /\ m - 1 \in Nat /\ ~(m <= m - 1)
    <3>1. PICK s \in S : TRUE
      OBVIOUS
    <3>2. s \in Nat /\ s < m /\ m \in Nat
      BY <1>2, <2>1
    <3>3. QED
      BY <3>2
  <2>3. m - 1 \in T
    BY <1>2, <2>1, <2>2
  <2>4. QED
    BY <1>2, <2>2, <2>3
<1>4. QED
  BY <1>2, <1>3

-----------------------------------------------------------------------------
(* Ranks *)

\* In a finite set of numbers a larger element has a larger rank.
LEMMA Ranks ==
  ASSUME NEW S, S \subseteq Nat, IsFiniteSet(S)
  PROVE  /\ Cardinality(S) \in Nat
         /\ \A x \in S : RankIn(S, x) \in 1..Cardinality(S)
         /\ \A x, y \in S : x < y => RankIn(S, x) < RankIn(S, y)
<1>1. Cardinality(S) \in Nat
  BY FS_CardinalityType
<1>2. ASSUME NEW x
      PROVE  /\ IsFiniteSet({r \in S : r <= x}) /\ RankIn(S, x) \in Nat
             /\ RankIn(S, x) <= Cardinality(S)
  <2> DEFINE T == {r \in S : r <= x}
  <2>1. T \in SUBSET S
    OBVIOUS
  <2> HIDE DEF T
  <2>2. IsFiniteSet(T) /\ Cardinality(T) <= Cardinality(S)
    BY <2>1, FS_Subset
  <2>3. Cardinality(T) \in Nat
    BY <2>2, FS_CardinalityType
  <2>4. QED
    BY <2>2, <2>3 DEF RankIn, T
<1>3. ASSUME NEW x \in S PROVE RankIn(S, x) # 0
  <2> DEFINE T == {r \in S : r <= x}
  <2>1. x \in T /\ IsFiniteSet(T)
    BY <1>2
  <2> HIDE DEF T
  <2>2. Cardinality(T) # 0
    BY <2>1, FS_EmptySet
  <2>3. QED
    BY <2>2 DEF RankIn, T
<1>4. ASSUME NEW x \in S, NEW y \in S, x < y PROVE RankIn(S, x) < RankIn(S, y)
  <2> DEFINE T == {r \in S : r <= x}
             U == {r \in S : r <= y}
  <2>1. T \in SUBSET U /\ y \in U /\ y \notin T
    <3>1. \A r \in S : r <= x => r <= y
      BY <1>4
    <3>2. ~(y <= x) /\ y <= y
      BY <1>4
    <3>3. QED
      BY <3>1, <3>2
  <2>2. IsFiniteSet(U) /\ IsFiniteSet(T) /\ RankIn(S, x) \in Nat /\ RankIn(S, y) \in Nat
    BY <1>2
  <2>3. RankIn(S, x) = Cardinality(T) /\ RankIn(S, y) = Cardinality(U)
    BY DEF RankIn
  <2> HIDE DEF T, U
  <2>4. Cardinality(T) <= Cardinality(U) /\ (Cardinality(U) = Cardinality(T) => U = T)
    BY <2>1, <2>2, FS_Subset
  <2>5. Cardinality(U) # Cardinality(T)
    BY <2>1, <2>4
  <2>6. QED
    BY <2>2, <2>3, <2>4, <2>5
<1>5. ASSUME NEW x \in S PROVE RankIn(S, x) \in 1..Cardinality(S)
  <2>1. RankIn(S, x) \in Nat /\ RankIn(S, x) <= Cardinality(S) /\ RankIn(S, x) # 0
    BY <1>2, <1>3
  <2>2. QED
    BY <1>1, <2>1
<1>6. QED
  BY <1>1, <1>4, <1>5

\* Every rank is taken, by one element.
LEMMA RankTaken ==
  ASSUME NEW S, S \subseteq Nat, IsFiniteSet(S), NEW k \in 1..Cardinality(S)
  PROVE  /\ \E x \in S : RankIn(S, x) = k
         /\ \A x, y \in S : RankIn(S, x) = RankIn(S, y) => x = y
<1> DEFINE n == Cardinality(S)
           rank == [x \in S |-> RankIn(S, x)]
<1>1. n \in Nat /\ \A x \in S : RankIn(S, x) \in 1..n
  BY Ranks
<1>0. \A x, y \in S : x < y => RankIn(S, x) < RankIn(S, y)
  BY Ranks
<1>2. ASSUME NEW x \in S, NEW y \in S, RankIn(S, x) = RankIn(S, y) PROVE x = y
  <2>1. x \in Nat /\ y \in Nat /\ RankIn(S, x) \in Nat
    BY <1>1
  <2>2. ~(x < y) /\ ~(y < x)
    BY <1>0, <1>2, <2>1
  <2>4. QED
    BY <2>1, <2>2
<1>3. rank \in Injection(S, 1..n)
  BY <1>1, <1>2 DEF Injection, IsInjective
<1>4. IsFiniteSet(1..n) /\ Cardinality(1..n) = n
  BY <1>1, FS_Interval
<1> HIDE DEF rank
<1>5. rank \in Surjection(S, 1..n)
  BY <1>3, <1>4, FS_Injection
<1>6. PICK x \in S : rank[x] = k
  BY <1>5 DEF Surjection
<1>7. QED
  BY <1>2, <1>6 DEF rank

\* The enumeration is the set in order.
LEMMA InOrderIs ==
  ASSUME NEW S, S \subseteq Nat, IsFiniteSet(S)
  PROVE  /\ InOrder(S) \in Seq(S) /\ InOrder(S) \in Seq(Nat)
         /\ Len(InOrder(S)) = Cardinality(S) /\ Cardinality(S) \in Nat
         /\ DOMAIN InOrder(S) = 1..Cardinality(S)
         /\ \A k \in 1..Cardinality(S) : InOrder(S)[k] \in S /\ RankIn(S, InOrder(S)[k]) = k
         /\ \A x \in S : RankIn(S, x) \in 1..Cardinality(S) /\ InOrder(S)[RankIn(S, x)] = x
         /\ \A i, j \in 1..Cardinality(S) : i < j => InOrder(S)[i] < InOrder(S)[j]
<1> DEFINE n == Cardinality(S)
           f == InOrder(S)
<1>1. n \in Nat /\ \A x \in S : RankIn(S, x) \in 1..n
  BY Ranks
<1>2. ASSUME NEW k \in 1..n PROVE f[k] \in S /\ RankIn(S, f[k]) = k
  <2>1. f[k] = CHOOSE x \in S : RankIn(S, x) = k
    BY DEF InOrder
  <2>2. \E x \in S : RankIn(S, x) = k
    BY RankTaken
  <2>3. QED
    BY <2>1, <2>2
<1>3. f \in [1..n -> S]
  BY <1>2 DEF InOrder
<1>4. f \in Seq(S) /\ Len(f) = n /\ DOMAIN f = 1..n
  BY <1>1, <1>3
<1>5. f \in Seq(Nat)
  <2>1. f \in [1..n -> Nat]
    BY <1>3
  <2>2. QED
    BY <1>1, <2>1
<1>6. ASSUME NEW x \in S PROVE f[RankIn(S, x)] = x
  <2>1. f[RankIn(S, x)] \in S /\ RankIn(S, f[RankIn(S, x)]) = RankIn(S, x)
    BY <1>1, <1>2
  <2>2. RankIn(S, x) \in 1..Cardinality(S)
    BY <1>1
  <2>3. QED
    BY <2>1, <2>2, RankTaken
<1>7. ASSUME NEW i \in 1..n, NEW j \in 1..n, i < j PROVE f[i] < f[j]
  <2>1. f[i] \in S /\ f[j] \in S /\ RankIn(S, f[i]) = i /\ RankIn(S, f[j]) = j
    BY <1>2
  <2> HIDE DEF f
  <2>2. f[i] \in Nat /\ f[j] \in Nat
    BY <2>1
  <2>3. ~(f[j] < f[i])
    <3> SUFFICES ASSUME f[j] < f[i] PROVE FALSE
      OBVIOUS
    <3>1. RankIn(S, f[j]) < RankIn(S, f[i])
      BY <2>1, Ranks
    <3>2. QED
      BY <1>1, <1>7, <2>1, <3>1
  <2>4. f[i] # f[j]
    BY <1>7, <2>1
  <2>5. QED
    BY <2>2, <2>3, <2>4
<1>8. QED
  BY <1>1, <1>2, <1>4, <1>5, <1>6, <1>7

-----------------------------------------------------------------------------
(* The enumeration is the only one *)

Increasing(s) == \A i, j \in 1..Len(s) : i < j => s[i] < s[j]
Enumerates(s, S) == s \in Seq(Nat) /\ Increasing(s) /\ S = {s[i] : i \in 1..Len(s)}

LEMMA InOrderEnumerates ==
  ASSUME NEW S, S \subseteq Nat, IsFiniteSet(S) PROVE Enumerates(InOrder(S), S)
<1> DEFINE n == Cardinality(S)
           f == InOrder(S)
<1>1. /\ f \in Seq(Nat) /\ Len(f) = n /\ \A k \in 1..n : f[k] \in S
      /\ \A x \in S : RankIn(S, x) \in 1..n /\ f[RankIn(S, x)] = x
      /\ \A i, j \in 1..n : i < j => f[i] < f[j]
  BY InOrderIs
<1> HIDE DEF f, n
<1>2. S = {f[i] : i \in 1..Len(f)}
  BY <1>1
<1>3. QED
  BY <1>1, <1>2 DEF Enumerates, Increasing, f

\* The elements up to the k-th are k.
LEMMA RankInEnumeration ==
  ASSUME NEW S, NEW s, Enumerates(s, S), NEW k \in 1..Len(s)
  PROVE  RankIn(S, s[k]) = k
<1> DEFINE T == {r \in S : r <= s[k]}
           g == [i \in 1..k |-> s[i]]
<1>1. /\ s \in Seq(Nat) /\ Len(s) \in Nat /\ k \in Nat
      /\ \A i \in 1..Len(s) : s[i] \in Nat /\ s[i] \in S
      /\ \A x \in S : \E i \in 1..Len(s) : s[i] = x
      /\ \A i, j \in 1..Len(s) : i < j => s[i] < s[j]
  BY DEF Enumerates, Increasing
<1>2. \A i \in 1..k : i \in 1..Len(s)
  BY <1>1
<1>3. ASSUME NEW i \in 1..Len(s) PROVE i \in 1..k <=> s[i] <= s[k]
  <2>1. CASE i < k
    BY <1>1, <2>1
  <2>2. CASE i = k
    BY <1>1, <2>2
  <2>3. CASE k < i
    BY <1>1, <2>3
  <2>4. QED
    BY <1>1, <2>1, <2>2, <2>3
<1>4. \A i, j \in 1..k : s[i] = s[j] => i = j
  <2> SUFFICES ASSUME NEW i \in 1..k, NEW j \in 1..k, s[i] = s[j], i < j PROVE FALSE
    BY <1>1
  <2>1. s[i] < s[j] /\ s[i] \in Nat
    BY <1>1, <1>2
  <2>2. QED
    BY <2>1
<1>5. g \in Bijection(1..k, T)
  <2>1. g \in [1..k -> T]
    BY <1>1, <1>2, <1>3
  <2>2. \A x \in T : \E i \in 1..k : g[i] = x
    BY <1>1, <1>2, <1>3
  <2>3. QED
    BY <1>4, <2>1, <2>2 DEF Bijection, Injection, Surjection, IsInjective
<1>6. Cardinality(T) = k
  <2> HIDE DEF T, g
  <2>1. ExistsBijection(1..k, T)
    BY <1>5 DEF ExistsBijection
  <2>2. QED
    BY <1>1, <2>1, FS_CountingElements
<1>7. QED
  BY <1>6 DEF RankIn

LEMMA EnumeratedIsFinite ==
  ASSUME NEW S, NEW s, Enumerates(s, S)
  PROVE  S \subseteq Nat /\ IsFiniteSet(S) /\ Cardinality(S) = Len(s)
<1>1. /\ s \in Seq(Nat) /\ Len(s) \in Nat
      /\ \A i \in 1..Len(s) : s[i] \in Nat /\ s[i] \in S
      /\ \A x \in S : \E i \in 1..Len(s) : s[i] = x
      /\ \A i, j \in 1..Len(s) : i < j => s[i] < s[j]
  BY DEF Enumerates, Increasing
<1>2. s \in Bijection(1..Len(s), S)
  <2>1. s \in [1..Len(s) -> S]
    BY <1>1
  <2>2. ASSUME NEW i \in 1..Len(s), NEW j \in 1..Len(s), s[i] = s[j] PROVE i = j
    <3>1. ~(i < j) /\ ~(j < i)
      BY <1>1, <2>2
    <3>2. QED
      BY <1>1, <3>1
  <2>3. QED
    BY <1>1, <2>1, <2>2 DEF Bijection, Injection, Surjection, IsInjective
<1>3. ExistsBijection(1..Len(s), S)
  BY <1>2 DEF ExistsBijection
<1>4. QED
  BY <1>1, <1>3, FS_CountingElements, FS_NatBijection

LEMMA InOrderUnique ==
  ASSUME NEW S, NEW s, Enumerates(s, S) PROVE s = InOrder(S)
<1> DEFINE n == Len(s)
           f == InOrder(S)
<1>1. S \subseteq Nat /\ IsFiniteSet(S) /\ Cardinality(S) = n
  BY EnumeratedIsFinite
<1>2. /\ f \in Seq(Nat) /\ Len(f) = n /\ DOMAIN f = 1..n
      /\ \A x \in S : f[RankIn(S, x)] = x
  BY <1>1, InOrderIs
<1>3. s \in Seq(Nat) /\ \A k \in 1..n : s[k] \in S /\ RankIn(S, s[k]) = k
  BY RankInEnumeration DEF Enumerates
<1> HIDE DEF f
<1>4. \A k \in 1..n : s[k] = f[k]
  BY <1>2, <1>3
<1>5. QED
  BY <1>2, <1>3, <1>4 DEF f

\* Nothing, one element, and two sets of which one lies below the other.
LEMMA InOrderEmpty == InOrder({}) = <<>>
<1>1. Enumerates(<<>>, {})
  BY DEF Enumerates, Increasing
<1>2. QED
  BY <1>1, InOrderUnique

LEMMA InOrderSingle == ASSUME NEW x \in Nat PROVE InOrder({x}) = <<x>>
<1>1. /\ <<x>> \in Seq(Nat) /\ Len(<<x>>) = 1 /\ <<x>>[1] = x
      /\ \A i, j \in 1..1 : ~(i < j)
  OBVIOUS
<1>2. {x} = {<<x>>[i] : i \in 1..1}
  BY <1>1
<1>3. Enumerates(<<x>>, {x})
  BY <1>1, <1>2 DEF Enumerates, Increasing
<1>4. QED
  BY <1>3, InOrderUnique

\* What a concatenation is made of.
LEMMA Concatenation ==
  ASSUME NEW s \in Seq(Nat), NEW t \in Seq(Nat)
  PROVE  /\ s \o t \in Seq(Nat) /\ Len(s \o t) = Len(s) + Len(t)
         /\ Len(s) \in Nat /\ Len(t) \in Nat
         /\ \A i \in 1..Len(s) : i \in 1..Len(s \o t) /\ (s \o t)[i] = s[i]
         /\ \A i \in 1..Len(t) : Len(s) + i \in 1..Len(s \o t) /\ (s \o t)[Len(s) + i] = t[i]
         /\ \A i \in 1..Len(s \o t) : i \in 1..Len(s) \/ (i - Len(s) \in 1..Len(t)
                                                        /\ i = Len(s) + (i - Len(s)))
<1>1. Len(s) \in Nat /\ Len(t) \in Nat /\ Len(s \o t) = Len(s) + Len(t) /\ s \o t \in Seq(Nat)
  OBVIOUS
<1>2. \A i \in 1..Len(s) : (s \o t)[i] = s[i]
  OBVIOUS
<1>3. \A i \in 1..Len(t) : (s \o t)[Len(s) + i] = t[i]
  OBVIOUS
<1>4. QED
  BY <1>1, <1>2, <1>3

LEMMA EnumeratesBoth ==
  ASSUME NEW S, NEW T, NEW s, NEW t, Enumerates(s, S), Enumerates(t, T),
         \A x \in S, y \in T : x < y
  PROVE  Enumerates(s \o t, S \cup T)
<1> DEFINE u == s \o t
<1>1. /\ s \in Seq(Nat) /\ t \in Seq(Nat) /\ Increasing(s) /\ Increasing(t)
      /\ S = {s[i] : i \in 1..Len(s)} /\ T = {t[i] : i \in 1..Len(t)}
  BY DEF Enumerates
<1>2. /\ u \in Seq(Nat) /\ Len(u) = Len(s) + Len(t) /\ Len(s) \in Nat /\ Len(t) \in Nat
      /\ \A i \in 1..Len(s) : i \in 1..Len(u) /\ u[i] = s[i]
      /\ \A i \in 1..Len(t) : Len(s) + i \in 1..Len(u) /\ u[Len(s) + i] = t[i]
      /\ \A i \in 1..Len(u) : i \in 1..Len(s) \/ (i - Len(s) \in 1..Len(t)
                                                /\ i = Len(s) + (i - Len(s)))
  BY <1>1, Concatenation
<1> HIDE DEF u
<1>3. ASSUME NEW i \in 1..Len(u), NEW j \in 1..Len(u), i < j PROVE u[i] < u[j]
  <2>1. CASE j \in 1..Len(s)
    <3>1. i \in 1..Len(s)
      BY <1>2, <1>3, <2>1
    <3>2. QED
      BY <1>1, <1>2, <1>3, <2>1, <3>1 DEF Increasing
  <2>2. CASE i \in 1..Len(s) /\ j \notin 1..Len(s)
    <3>1. u[i] \in S /\ u[j] \in T
      BY <1>1, <1>2, <2>2
    <3>2. QED
      BY <3>1
  <2>3. CASE i \notin 1..Len(s) /\ j \notin 1..Len(s)
    <3>1. PICK p \in 1..Len(t) : i = Len(s) + p
      BY <1>2, <2>3
    <3>2. PICK q \in 1..Len(t) : j = Len(s) + q
      BY <1>2, <2>3
    <3>3. p < q
      BY <1>2, <1>3, <3>1, <3>2
    <3>4. t[p] < t[q]
      BY <1>1, <3>3 DEF Increasing
    <3>5. QED
      BY <1>2, <3>1, <3>2, <3>4
  <2>4. QED
    BY <2>1, <2>2, <2>3
<1>4. S \cup T = {u[i] : i \in 1..Len(u)}
  <2>1. \A i \in 1..Len(u) : u[i] \in S \cup T
    <3> TAKE i \in 1..Len(u)
    <3>1. CASE i \in 1..Len(s)
      BY <1>1, <1>2, <3>1
    <3>2. CASE i \notin 1..Len(s)
      <4>1. PICK p \in 1..Len(t) : i = Len(s) + p
        BY <1>2, <3>2
      <4>2. u[i] = t[p]
        BY <1>2, <4>1
      <4>3. QED
        BY <1>1, <4>2
    <3>3. QED
      BY <3>1, <3>2
  <2>2. \A x \in S : \E i \in 1..Len(u) : u[i] = x
    BY <1>1, <1>2
  <2>3. \A x \in T : \E i \in 1..Len(u) : u[i] = x
    <3> TAKE x \in T
    <3>1. PICK p \in 1..Len(t) : t[p] = x
      BY <1>1
    <3>2. Len(s) + p \in 1..Len(u) /\ u[Len(s) + p] = x
      BY <1>2, <3>1
    <3>3. QED
      BY <3>2
  <2>4. QED
    BY <2>1, <2>2, <2>3
<1>5. QED
  BY <1>2, <1>3, <1>4 DEF Enumerates, Increasing, u

LEMMA InOrderUnion ==
  ASSUME NEW S, NEW T, S \subseteq Nat, T \subseteq Nat, IsFiniteSet(S), IsFiniteSet(T),
         \A x \in S, y \in T : x < y
  PROVE  InOrder(S \cup T) = InOrder(S) \o InOrder(T)
<1> DEFINE u == InOrder(S) \o InOrder(T)
<1>1. Enumerates(InOrder(S), S) /\ Enumerates(InOrder(T), T)
  BY InOrderEnumerates
<1>2. Enumerates(u, S \cup T)
  BY <1>1, EnumeratesBoth
<1> HIDE DEF u
<1>3. u = InOrder(S \cup T)
  BY <1>2, InOrderUnique
<1>4. QED
  BY <1>3 DEF u

=============================================================================
