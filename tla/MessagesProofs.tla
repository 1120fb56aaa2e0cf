--------------------------- MODULE MessagesProofs ---------------------------
(***************************************************************************)
(* Proofs about the message of a job and its cronjob, for every job, pod   *)
(* template, debugger and number of restarts and pods.  The first part is  *)
(* about sequences, the second about the types of what the mappers return, *)
(* the third about the job and its pods, the fourth joins them.            *)
(***************************************************************************)
EXTENDS Messages, TLAPS, WellFoundedInduction, FiniteSetTheorems

(***************************************************************************)
(* Induction over the natural numbers, as facts about sets of them.        *)
(***************************************************************************)

\* A set of numbers has a least element.
LEMMA LeastNumber ==
  ASSUME NEW T \in SUBSET Nat, T # {}
  PROVE  \E x \in T : \A y \in T : x <= y
<1> DEFINE R == OpToRel(<, Nat)
<1>1. IsWellFoundedOn(R, Nat)
  BY NatLessThanWellFounded
<1>2. \A x, y \in Nat : y < x => <<y, x>> \in R
  BY DEF OpToRel
<1> HIDE DEF R
<1>3. PICK x \in T : \A y \in T : ~ (<<y, x>> \in R)
  BY <1>1, WFMin
<1>4. \A y \in T : x \in Nat /\ y \in Nat /\ ~(y < x)
  BY <1>2, <1>3, Zenon
<1>5. \A a, b \in Nat : ~(b < a) => a <= b
  OBVIOUS
<1> QED
  BY <1>3, <1>4, <1>5, Zenon

\* A set with a first number and with the next of each of its numbers.
LEMMA StepInduction ==
  ASSUME NEW T \in SUBSET Nat, 0 \in T, \A n \in T : n + 1 \in T
  PROVE  T = Nat
<1> SUFFICES ASSUME T # Nat PROVE FALSE
  OBVIOUS
<1>1. PICK n \in Nat \ T : \A m \in Nat \ T : n <= m
  BY LeastNumber
<1>2. n - 1 \in T
  BY <1>1
<1> QED
  BY <1>1, <1>2

(***************************************************************************)
(* Where, by the places in a sequence.                                     *)
(***************************************************************************)

UpTo(P, m) == {j \in P : j <= m}

LEMMA UpToIsFinite ==
  ASSUME NEW n \in Nat, NEW P \in SUBSET (1..n)
  PROVE  /\ IsFiniteSet(P) /\ Cardinality(P) \in Nat
         /\ \A m : UpTo(P, m) \subseteq P
         /\ \A m : IsFiniteSet(UpTo(P, m)) /\ Cardinality(UpTo(P, m)) \in Nat
<1>1. IsFiniteSet(1..n)
  BY FS_Interval
<1>2. \A m : UpTo(P, m) \subseteq P
  BY DEF UpTo
<1>3. IsFiniteSet(P) /\ Cardinality(P) \in Nat
  BY <1>1, FS_Subset, FS_CardinalityType
<1>4. \A m : IsFiniteSet(UpTo(P, m))
  BY <1>2, <1>3, FS_Subset
<1> QED
  BY <1>2, <1>3, <1>4, FS_CardinalityType

LEMMA UpToSteps ==
  ASSUME NEW n \in Nat, NEW P \in SUBSET (1..n)
  PROVE  /\ UpTo(P, 0) = {} /\ UpTo(P, n) = P
         /\ \A m \in Nat : IF m \in P THEN /\ UpTo(P, m) = UpTo(P, m - 1) \cup {m}
                                           /\ m \notin UpTo(P, m - 1)
                         ELSE UpTo(P, m) = UpTo(P, m - 1)
<1>1. \A j \in P : j <= n /\ ~(j <= 0)
  OBVIOUS
<1>2. UpTo(P, 0) = {} /\ UpTo(P, n) = P
  BY <1>1, Zenon DEF UpTo
<1>3. ASSUME NEW m \in Nat, m \in P
      PROVE  UpTo(P, m) = UpTo(P, m - 1) \cup {m} /\ m \notin UpTo(P, m - 1)
  <2>1. ~(m <= m - 1) /\ \A j \in P : j <= m <=> j <= m - 1 \/ j = m
    OBVIOUS
  <2> QED
    BY <1>3, <2>1, Zenon DEF UpTo
<1>4. ASSUME NEW m \in Nat, m \notin P
      PROVE  UpTo(P, m) = UpTo(P, m - 1)
  <2>1. \A j \in P : j <= m <=> j <= m - 1
    BY <1>4
  <2> QED
    BY <2>1, Zenon DEF UpTo
<1> QED
  BY <1>2, <1>3, <1>4

\* There is a k-th place, and it is in P.
LEMMA PlaceIsThere ==
  ASSUME NEW n \in Nat, NEW P \in SUBSET (1..n), NEW k \in 1..Cardinality(P)
  PROVE  /\ Place(P, k) \in P
         /\ Cardinality(UpTo(P, Place(P, k))) = k
<1> DEFINE T == {m \in Nat : Cardinality(UpTo(P, m)) >= k}
<1>1. Cardinality(P) \in Nat /\ \A m : Cardinality(UpTo(P, m)) \in Nat
  BY UpToIsFinite
<1>2. n \in T
  <2>1. Cardinality(UpTo(P, n)) = Cardinality(P)
    BY UpToSteps
  <2> QED
    BY <1>1, <2>1
<1>3. PICK m \in T : \A y \in T : m <= y
  <2>1. T \in SUBSET Nat /\ T # {}
    BY <1>2
  <2> HIDE DEF T
  <2> QED
    BY <2>1, LeastNumber
<1>4. m # 0
  <2>1. Cardinality(UpTo(P, 0)) = 0
    BY UpToSteps, FS_EmptySet
  <2> QED
    BY <1>1, <1>3, <2>1
<1>5. Cardinality(UpTo(P, m - 1)) < k
  <2>1. m - 1 \in Nat /\ ~(m <= m - 1)
    BY <1>3, <1>4
  <2>2. m - 1 \notin T
    BY <1>3, <2>1
  <2>3. ~(Cardinality(UpTo(P, m - 1)) >= k)
    BY <2>1, <2>2
  <2> QED
    BY <1>1, <2>3
<1>6. Cardinality(UpTo(P, m)) >= k /\ m \in Nat
  BY <1>3
<1> HIDE DEF T
<1>7. m \in P
  <2> SUFFICES ASSUME m \notin P PROVE FALSE
    OBVIOUS
  <2>1. UpTo(P, m) = UpTo(P, m - 1)
    BY <1>6, UpToSteps
  <2> QED
    BY <1>1, <1>5, <1>6, <2>1
<1>8. Cardinality(UpTo(P, m)) = k
  <2>1. UpTo(P, m) = UpTo(P, m - 1) \cup {m} /\ m \notin UpTo(P, m - 1)
    BY <1>6, <1>7, UpToSteps
  <2>2. Cardinality(UpTo(P, m)) = Cardinality(UpTo(P, m - 1)) + 1
    BY <2>1, UpToIsFinite, FS_AddElement
  <2> QED
    BY <1>1, <1>5, <1>6, <2>2
<1> QED
  BY <1>7, <1>8 DEF Place, UpTo

\* Each place of P is the k-th for some k.
LEMMA PlaceIsReached ==
  ASSUME NEW n \in Nat, NEW P \in SUBSET (1..n), NEW i \in P
  PROVE  \E k \in 1..Cardinality(P) : Place(P, k) = i
<1> DEFINE k == Cardinality(UpTo(P, i))
<1>1. k \in 1..Cardinality(P)
  <2>1. IsFiniteSet(P) /\ Cardinality(P) \in Nat /\ IsFiniteSet(UpTo(P, i)) /\ k \in Nat
    BY UpToIsFinite
  <2>2. k <= Cardinality(P)
    BY <2>1, UpToIsFinite, FS_Subset
  <2>3. i \in UpTo(P, i)
    BY DEF UpTo
  <2>4. k # 0
    BY <2>1, <2>3, FS_EmptySet
  <2> QED
    BY <2>1, <2>2, <2>4
<1> DEFINE p == Place(P, k)
<1>2. p \in P /\ Cardinality(UpTo(P, p)) = k
  BY <1>1, PlaceIsThere
<1> HIDE DEF p
<1>3. ASSUME NEW a \in P, NEW b \in P, a < b
      PROVE  Cardinality(UpTo(P, a)) # Cardinality(UpTo(P, b))
  <2>1. ~(b <= a) /\ b <= b /\ \A j \in P : j <= a => j <= b
    BY <1>3
  <2>2. UpTo(P, a) \subseteq UpTo(P, b) /\ b \in UpTo(P, b) /\ b \notin UpTo(P, a)
    BY <2>1, Zenon DEF UpTo
  <2>3. IsFiniteSet(UpTo(P, b))
    BY UpToIsFinite
  <2> QED
    BY <2>2, <2>3, FS_Subset
<1>4. p = i
  BY <1>2, <1>3
<1> QED
  BY <1>1, <1>4 DEF p

\* What At returns.
LEMMA AtProperties ==
  ASSUME NEW S, NEW s \in Seq(S), NEW P \in SUBSET DOMAIN s
  PROVE  /\ At(s, P) \in Seq(S)
         /\ At(s, P) = <<>> <=> P = {}
         /\ \A k \in DOMAIN At(s, P) : \E i \in P : At(s, P)[k] = s[i] /\ Place(P, k) = i
         /\ \A i \in P : \E k \in DOMAIN At(s, P) : At(s, P)[k] = s[i]
<1>1. Len(s) \in Nat /\ DOMAIN s = 1..Len(s)
  OBVIOUS
<1>2. IsFiniteSet(P) /\ Cardinality(P) \in Nat
  BY <1>1, UpToIsFinite
<1>3. DOMAIN At(s, P) = 1..Cardinality(P)
  BY DEF At
<1>4. \A k \in 1..Cardinality(P) : Place(P, k) \in P
  BY <1>1, PlaceIsThere
<1>5. At(s, P) \in Seq(S)
  BY <1>1, <1>2, <1>4 DEF At
<1>6. At(s, P) = <<>> <=> P = {}
  <2>1. P = {} <=> Cardinality(P) = 0
    BY <1>2, FS_EmptySet
  <2>2. Len(At(s, P)) = Cardinality(P)
    BY <1>2, <1>3, <1>5
  <2> QED
    BY <1>5, <2>1, <2>2
<1>7. \A k \in DOMAIN At(s, P) : At(s, P)[k] = s[Place(P, k)]
  BY DEF At
<1>8. \A i \in P : \E k \in DOMAIN At(s, P) : Place(P, k) = i
  BY <1>1, <1>3, PlaceIsReached
<1> QED
  BY <1>3, <1>4, <1>5, <1>6, <1>7, <1>8

\* Of a sequence of one value, all or nothing.
LEMMA AtOne ==
  ASSUME NEW S, NEW s \in Seq(S), Len(s) = 1
  PROVE  At(s, {1}) = s /\ At(s, {}) = <<>>
<1>1. DOMAIN s = {1}
  OBVIOUS
<1>2. At(s, {}) = <<>>
  BY AtProperties
<1>3. Cardinality({1}) = 1
  BY FS_Singleton
<1>4. DOMAIN At(s, {1}) = {1}
  BY <1>3 DEF At
<1>5. {1} \in SUBSET DOMAIN s
  BY <1>1
<1>6. At(s, {1})[1] = s[1] /\ At(s, {1}) \in Seq(S)
  BY <1>4, <1>5, AtProperties
<1> QED
  BY <1>1, <1>2, <1>4, <1>6

(***************************************************************************)
(* FlattenSeq is what its equation says, and has the values of all the     *)
(* sequences.                                                              *)
(***************************************************************************)

\* f is the solution of FlattenSeq's equation for the first n sequences of ss.
IsFlat(f, ss, n) == f = [i \in 1..n |-> IF i = 1 THEN ss[i] ELSE f[i - 1] \o ss[i]]

LEMMA FlatExists ==
  ASSUME NEW ss
  PROVE  \A n \in Nat : \E f : IsFlat(f, ss, n)
<1> DEFINE T == {n \in Nat : \E f : IsFlat(f, ss, n)}
<1>1. 0 \in T
  <2>1. IsFlat([i \in 1..0 |-> ss], ss, 0)
    BY DEF IsFlat
  <2> QED
    BY <2>1
<1>2. ASSUME NEW n \in T PROVE n + 1 \in T
  <2>1. PICK f : IsFlat(f, ss, n)
    BY <1>2
  <2>2. n \in Nat
    BY <1>2
  <2> DEFINE g == [i \in 1..(n + 1) |-> IF i <= n THEN f[i]
                                       ELSE IF i = 1 THEN ss[i] ELSE f[i - 1] \o ss[i]]
  <2>3. ASSUME NEW i \in 1..(n + 1)
        PROVE  g[i] = IF i = 1 THEN ss[i] ELSE g[i - 1] \o ss[i]
    <3>1. g[i] = IF i = 1 THEN ss[i] ELSE f[i - 1] \o ss[i]
      <4>1. CASE i <= n
        <5>1. i \in 1..n
          BY <2>2, <4>1
        <5>2. f[i] = IF i = 1 THEN ss[i] ELSE f[i - 1] \o ss[i]
          BY <2>1, <5>1 DEF IsFlat
        <5> QED
          BY <4>1, <5>2
      <4> QED
        BY <4>1
    <3>2. i # 1 => g[i - 1] = f[i - 1]
      BY <2>2
    <3> QED
      BY <3>1, <3>2
  <2>4. IsFlat(g, ss, n + 1)
    <3> DEFINE h == [i \in 1..(n + 1) |-> IF i = 1 THEN ss[i] ELSE g[i - 1] \o ss[i]]
    <3>1. DOMAIN g = 1..(n + 1) /\ DOMAIN h = 1..(n + 1)
      OBVIOUS
    <3>2. \A i \in 1..(n + 1) : g[i] = h[i]
      BY <2>3
    <3>3. g = [i \in 1..(n + 1) |-> g[i]] /\ h = [i \in 1..(n + 1) |-> h[i]]
      OBVIOUS
    <3>4. g = h
      <4> HIDE DEF g, h
      <4> QED
        BY <3>1, <3>2, <3>3, Zenon
    <3> QED
      BY <3>4 DEF IsFlat
  <2> QED
    BY <2>2, <2>4
<1>3. T = Nat
  <2>1. T \in SUBSET Nat
    OBVIOUS
  <2> HIDE DEF T
  <2> QED
    BY <1>1, <1>2, <2>1, StepInduction
<1> QED
  BY <1>3

\* The values of the first n sequences.
HasValuesOf(s, ss, n) ==
    /\ \A k \in DOMAIN s : \E i \in 1..n : \E m \in DOMAIN ss[i] : s[k] = ss[i][m]
    /\ \A i \in 1..n : \A m \in DOMAIN ss[i] : \E k \in DOMAIN s : s[k] = ss[i][m]

LEMMA ConcatenationHasValues ==
  ASSUME NEW S, NEW s \in Seq(S), NEW ss, NEW n \in Nat, HasValuesOf(s, ss, n),
         ss[n + 1] \in Seq(S)
  PROVE  HasValuesOf(s \o ss[n + 1], ss, n + 1)
<1> DEFINE t == ss[n + 1]
           u == s \o t
<1>1. /\ DOMAIN s = 1..Len(s) /\ Len(s) \in Nat
      /\ DOMAIN t = 1..Len(t) /\ Len(t) \in Nat
      /\ DOMAIN u = 1..(Len(s) + Len(t))
      /\ \A k \in 1..Len(s) : u[k] = s[k]
      /\ \A k \in 1..Len(t) : u[Len(s) + k] = t[k]
      /\ \A k \in (Len(s) + 1)..(Len(s) + Len(t)) : u[k] = t[k - Len(s)]
  OBVIOUS
<1>2. ASSUME NEW k \in DOMAIN u
      PROVE  \E i \in 1..(n + 1) : \E m \in DOMAIN ss[i] : u[k] = ss[i][m]
  <2>1. CASE k \in 1..Len(s)
    <3>1. PICK i \in 1..n : \E m \in DOMAIN ss[i] : s[k] = ss[i][m]
      BY <1>1, <2>1 DEF HasValuesOf
    <3>2. i \in 1..(n + 1) /\ u[k] = s[k]
      BY <1>1, <2>1
    <3> QED
      BY <3>1, <3>2
  <2>2. CASE k \in (Len(s) + 1)..(Len(s) + Len(t))
    <3>1. u[k] = t[k - Len(s)] /\ k - Len(s) \in DOMAIN t
      BY <1>1, <2>2
    <3>2. n + 1 \in 1..(n + 1)
      OBVIOUS
    <3> QED
      BY <3>1, <3>2
  <2> QED
    BY <1>1, <2>1, <2>2
<1>3. ASSUME NEW i \in 1..(n + 1), NEW m \in DOMAIN ss[i]
      PROVE  \E k \in DOMAIN u : u[k] = ss[i][m]
  <2>1. CASE i \in 1..n
    <3>1. PICK k \in DOMAIN s : s[k] = ss[i][m]
      BY <2>1 DEF HasValuesOf
    <3>2. k \in DOMAIN u /\ u[k] = s[k]
      BY <1>1
    <3> QED
      BY <3>1, <3>2
  <2>2. CASE i = n + 1
    <3>1. m \in DOMAIN t /\ ss[i][m] = t[m]
      BY <2>2
    <3>2. Len(s) + m \in DOMAIN u /\ u[Len(s) + m] = t[m]
      BY <1>1, <3>1
    <3> QED
      BY <3>1, <3>2
  <2> QED
    BY <2>1, <2>2
<1> QED
  BY <1>2, <1>3 DEF HasValuesOf

LEMMA FlattenProperties ==
  ASSUME NEW S, NEW ss \in Seq(Seq(S))
  PROVE  FlattenSeq(ss) \in Seq(S) /\ HasValuesOf(FlattenSeq(ss), ss, Len(ss))
<1>1. Len(ss) \in Nat /\ DOMAIN ss = 1..Len(ss) /\ \A i \in 1..Len(ss) : ss[i] \in Seq(S)
  OBVIOUS
<1>2. CASE Len(ss) = 0
  <2>1. FlattenSeq(ss) = <<>>
    BY <1>2 DEF FlattenSeq
  <2> QED
    BY <1>2, <2>1 DEF HasValuesOf
<1>3. CASE Len(ss) # 0
  <2> DEFINE f == CHOOSE f : IsFlat(f, ss, Len(ss))
  <2>1. IsFlat(f, ss, Len(ss))
    BY <1>1, FlatExists
  <2>2. FlattenSeq(ss) = f[Len(ss)]
    BY <1>3 DEF FlattenSeq, IsFlat
  <2> HIDE DEF f
  <2>3. \A i \in 1..Len(ss) : f[i] = IF i = 1 THEN ss[i] ELSE f[i - 1] \o ss[i]
    BY <2>1 DEF IsFlat
  <2> DEFINE T == {n \in Nat : n \in 1..Len(ss) => f[n] \in Seq(S) /\ HasValuesOf(f[n], ss, n)}
  <2>4. 0 \in T
    OBVIOUS
  <2>5. ASSUME NEW n \in T PROVE n + 1 \in T
    <3> SUFFICES ASSUME n + 1 \in 1..Len(ss)
                 PROVE  f[n + 1] \in Seq(S) /\ HasValuesOf(f[n + 1], ss, n + 1)
      BY <2>5
    <3>1. CASE n = 0
      <4>1. f[1] = ss[1] /\ ss[1] \in Seq(S)
        BY <1>1, <1>3, <2>3
      <4>2. 1..1 = {1}
        OBVIOUS
      <4> QED
        BY <3>1, <4>1, <4>2 DEF HasValuesOf
    <3>2. CASE n # 0
      <4>1. n \in Nat /\ n \in 1..Len(ss) /\ n + 1 # 1 /\ (n + 1) - 1 = n
        BY <1>1, <2>5, <3>2
      <4>2. f[n] \in Seq(S) /\ HasValuesOf(f[n], ss, n)
        BY <2>5, <4>1
      <4>3. f[n + 1] = f[n] \o ss[n + 1] /\ ss[n + 1] \in Seq(S)
        BY <1>1, <2>3, <4>1
      <4>4. HasValuesOf(f[n] \o ss[n + 1], ss, n + 1)
        BY <4>1, <4>2, <4>3, ConcatenationHasValues
      <4> QED
        BY <4>2, <4>3, <4>4
    <3> QED
      BY <3>1, <3>2
  <2>6. T = Nat
    <3>1. T \in SUBSET Nat
      OBVIOUS
    <3> HIDE DEF T
    <3> QED
      BY <2>4, <2>5, <3>1, StepInduction
  <2> QED
    BY <1>1, <1>3, <2>2, <2>6
<1> QED
  BY <1>2, <1>3

LEMMA FlattenOne ==
  ASSUME NEW s
  PROVE  FlattenSeq(<<s>>) = s
<1> DEFINE f == CHOOSE f : IsFlat(f, <<s>>, 1)
<1>1. IsFlat(f, <<s>>, 1)
  BY FlatExists
<1>2. FlattenSeq(<<s>>) = f[1]
  BY DEF FlattenSeq, IsFlat
<1> HIDE DEF f
<1> QED
  BY <1>1, <1>2 DEF IsFlat

(***************************************************************************)
(* Latest.                                                                 *)
(***************************************************************************)

\* Of n numbers one is the greatest.
LEMMA Greatest ==
  ASSUME NEW n \in Nat, NEW f \in [1..n -> Nat], n # 0
  PROVE  \E i \in 1..n : \A k \in 1..n : f[k] <= f[i]
<1> DEFINE T == {m \in Nat : m \in 1..n => \E i \in 1..m : \A k \in 1..m : f[k] <= f[i]}
<1>1. 0 \in T
  OBVIOUS
<1>2. ASSUME NEW m \in T PROVE m + 1 \in T
  <2> SUFFICES ASSUME m + 1 \in 1..n
               PROVE  \E i \in 1..(m + 1) : \A k \in 1..(m + 1) : f[k] <= f[i]
    BY <1>2
  <2>1. CASE m = 0
    BY <2>1
  <2>2. CASE m # 0
    <3>1. m \in Nat /\ m \in 1..n
      BY <1>2, <2>2
    <3>2. PICK i \in 1..m : \A k \in 1..m : f[k] <= f[i]
      BY <1>2, <3>1
    <3>3. f[m + 1] \in Nat /\ \A k \in 1..m : f[k] \in Nat
      BY <3>1
    <3>4. CASE f[i] <= f[m + 1]
      <4>1. \A k \in 1..(m + 1) : f[k] <= f[m + 1]
        BY <3>1, <3>2, <3>3, <3>4
      <4> QED
        BY <3>1, <4>1
    <3>5. CASE ~(f[i] <= f[m + 1])
      <4>1. \A k \in 1..(m + 1) : f[k] <= f[i]
        BY <3>1, <3>2, <3>3, <3>5
      <4> QED
        BY <3>1, <4>1
    <3> QED
      BY <3>4, <3>5
  <2> QED
    BY <2>1, <2>2
<1>3. T = Nat
  <2>1. T \in SUBSET Nat
    OBVIOUS
  <2> HIDE DEF T
  <2> QED
    BY <1>1, <1>2, <2>1, StepInduction
<1>4. n \in 1..n
  OBVIOUS
<1>5. n \in T
  BY <1>3
<1> QED
  BY <1>4, <1>5

(***************************************************************************)
(* The types of what the mappers return.                                   *)
(***************************************************************************)

LEMMA PointerCases ==
  ASSUME NEW S, NEW p \in Pointer(S)
  PROVE  \/ p = <<>> /\ DOMAIN p = {}
         \/ p # <<>> /\ p = <<p[1]>> /\ p[1] \in S /\ DOMAIN p = {1}
<1>1. CASE p \in [1..0 -> S]
  <2>1. DOMAIN p = {} /\ p = [i \in 1..0 |-> p[i]]
    BY <1>1
  <2>2. p = <<>>
    BY <2>1
  <2> QED
    BY <2>1, <2>2
<1>2. CASE p \in [1..1 -> S]
  <2>1. DOMAIN p = 1..1 /\ p = [i \in 1..1 |-> p[i]] /\ p[1] \in S
    BY <1>2
  <2>2. p = <<p[1]>>
    BY <2>1
  <2> QED
    BY <2>1, <2>2
<1> QED
  BY <1>1, <1>2 DEF Pointer

LEMMA PointerValues ==
  ASSUME NEW S, NEW p \in Pointer(S)
  PROVE  \A i \in DOMAIN p : i = 1 /\ p[i] \in S
  BY PointerCases

LEMMA PointerOf ==
  ASSUME NEW S
  PROVE  /\ <<>> \in Pointer(S)
         /\ \A x \in S : <<x>> \in Pointer(S)
  BY DEF Pointer

\* A mapper of what a pointer points to.
LEMMA PointerMap ==
  ASSUME NEW S, NEW T, NEW p \in Pointer(S), NEW f, DOMAIN f = DOMAIN p,
         f = [i \in DOMAIN p |-> f[i]], \A i \in DOMAIN p : f[i] \in T
  PROVE  f \in Pointer(T)
<1>1. CASE p = <<>>
  BY <1>1 DEF Pointer
<1>2. CASE DOMAIN p = {1}
  <2>1. DOMAIN p = 1..1
    BY <1>2
  <2> QED
    BY <2>1 DEF Pointer
<1> QED
  BY <1>1, <1>2, PointerCases

LEMMA TextsAreStrings ==
  \A text \in Texts : text \in STRING
  BY TextsAssumption

LEMMA OrZeroTypes ==
  /\ \A p \in Pointer(Nat) : OrZero(p, 0) \in Nat
  /\ \A p \in Pointer(BOOLEAN) : OrZero(p, FALSE) \in BOOLEAN
  /\ \A p \in Pointer(STRING) : OrZero(p, "") \in STRING
<1>1. ASSUME NEW S, NEW zero \in S, NEW p \in Pointer(S)
      PROVE  OrZero(p, zero) \in S
  BY PointerCases DEF OrZero
<1>2. \A p \in Pointer(Nat) : OrZero(p, 0) \in Nat
  <2>1. 0 \in Nat
    OBVIOUS
  <2> QED
    BY <1>1, <2>1, Zenon
<1>3. \A p \in Pointer(BOOLEAN) : OrZero(p, FALSE) \in BOOLEAN
  <2>1. FALSE \in BOOLEAN
    OBVIOUS
  <2> QED
    BY <1>1, <2>1, Zenon
<1>4. \A p \in Pointer(STRING) : OrZero(p, "") \in STRING
  <2>1. "" \in STRING
    <3>1. "" \in Texts
      BY DEF Texts
    <3> QED
      BY <3>1, TextsAreStrings, Zenon
  <2> QED
    BY <1>1, <2>1, Zenon
<1> QED
  BY <1>2, <1>3, <1>4

LEMMA TimeToStringType ==
  /\ \A t \in Timestamp : TimeToString(t) = t
  /\ \A t \in Time : TimeToString(<<t>>) = <<t>>
  /\ \A t \in Time : <<t>> \in Timestamp
<1>1. \A t \in Time : t # 0 /\ TimeToString(<<t>>) = <<t>>
  BY DEF Time, TimeToString
<1>2. \A t \in Timestamp : t = <<>> \/ (t = <<t[1]>> /\ t[1] \in Time)
  BY PointerCases DEF Timestamp
<1>3. TimeToString(<<>>) = <<>>
  BY DEF TimeToString
<1> QED
  BY <1>1, <1>2, <1>3, PointerOf DEF Timestamp

LEMMA TerminatedType ==
  ASSUME NEW t \in Pointer([reason : STRING, startedAt : Time, finishedAt : Time])
  PROVE  /\ MapContainerStateTerminated(t) \in Pointer(ContainerStateTerminatedResponse)
         /\ DOMAIN MapContainerStateTerminated(t) = DOMAIN t
         /\ \A i \in DOMAIN t : MapContainerStateTerminated(t)[i] =
               [reason |-> t[i].reason, startedAt |-> <<t[i].startedAt>>,
                finishedAt |-> <<t[i].finishedAt>>]
<1> DEFINE f == MapContainerStateTerminated(t)
<1>1. ASSUME NEW i \in DOMAIN t
      PROVE  /\ t[i].reason \in STRING
             /\ t[i].startedAt \in Time /\ t[i].finishedAt \in Time
  <2>1. t[i] \in [reason : STRING, startedAt : Time, finishedAt : Time]
    BY PointerValues, Zenon
  <2> QED
    BY <2>1
<1>2. DOMAIN f = DOMAIN t /\ f = [i \in DOMAIN t |-> f[i]]
  BY DEF MapContainerStateTerminated, Each
<1>3. \A i \in DOMAIN t : f[i] =
        [reason |-> t[i].reason, startedAt |-> TimeToString(<<t[i].startedAt>>),
         finishedAt |-> TimeToString(<<t[i].finishedAt>>)]
  BY DEF MapContainerStateTerminated, Each
<1>4. \A i \in DOMAIN t : f[i] =
        [reason |-> t[i].reason, startedAt |-> <<t[i].startedAt>>,
         finishedAt |-> <<t[i].finishedAt>>]
  BY <1>1, <1>3, TimeToStringType
<1> HIDE DEF f
<1>5. ASSUME NEW i \in DOMAIN t PROVE f[i] \in ContainerStateTerminatedResponse
  <2> DEFINE a == <<t[i].startedAt>>
             b == <<t[i].finishedAt>>
  <2>1. a \in Timestamp /\ b \in Timestamp
    BY <1>1, TimeToStringType
  <2>2. f[i] = [reason |-> t[i].reason, startedAt |-> a, finishedAt |-> b]
    BY <1>4
  <2> HIDE DEF a, b
  <2> QED
    BY <1>1, <2>1, <2>2 DEF ContainerStateTerminatedResponse
<1>6. f \in Pointer(ContainerStateTerminatedResponse)
  BY <1>2, <1>5, PointerMap
<1> QED
  BY <1>2, <1>4, <1>6 DEF f

LEMMA StateType ==
  ASSUME NEW s \in StoredContainerState
  PROVE  MapContainerState(s) \in ContainerStateResponse
<1>1. /\ s.waiting \in Pointer([reason : STRING])
      /\ s.running \in Pointer([startedAt : Time])
      /\ s.terminated \in Pointer([reason : STRING, startedAt : Time, finishedAt : Time])
  BY DEF StoredContainerState
<1> DEFINE r == Each(LAMBDA q : [startedAt |-> TimeToString(<<q.startedAt>>)], s.running)
<1>2. DOMAIN r = DOMAIN s.running /\ r = [i \in DOMAIN s.running |-> r[i]]
  BY DEF Each
<1>3. \A i \in DOMAIN s.running : r[i] = [startedAt |-> TimeToString(<<s.running[i].startedAt>>)]
  BY DEF Each
<1>4. ASSUME NEW i \in DOMAIN s.running PROVE s.running[i].startedAt \in Time
  <2>1. s.running[i] \in [startedAt : Time]
    BY <1>1, PointerValues, Zenon
  <2> QED
    BY <2>1
<1>5. ASSUME NEW i \in DOMAIN s.running PROVE r[i] \in ContainerStateRunningResponse
  <2> DEFINE a == TimeToString(<<s.running[i].startedAt>>)
  <2>1. a \in Timestamp
    BY <1>4, TimeToStringType
  <2>2. r[i] = [startedAt |-> a]
    BY <1>3
  <2> HIDE DEF a, r
  <2> QED
    BY <2>1, <2>2 DEF ContainerStateRunningResponse
<1>6. MapContainerState(s) =
        [waiting |-> s.waiting, running |-> r,
         terminated |-> MapContainerStateTerminated(s.terminated)]
  BY DEF MapContainerState
<1> HIDE DEF r
<1>7. r \in Pointer(ContainerStateRunningResponse)
  BY <1>1, <1>2, <1>5, PointerMap
<1>8. s.waiting \in Pointer(ContainerStateWaitingResponse)
  BY <1>1 DEF ContainerStateWaitingResponse
<1>9. MapContainerStateTerminated(s.terminated) \in Pointer(ContainerStateTerminatedResponse)
  BY <1>1, TerminatedType
<1> QED
  BY <1>6, <1>7, <1>8, <1>9 DEF ContainerStateResponse

LEMMA StatusType ==
  ASSUME NEW cs \in StoredContainerStatus
  PROVE  MapContainerStatus(cs) \in ContainerStatusResponse
<1>1. /\ cs.name \in STRING /\ cs.restarts \in Nat /\ cs.started \in Pointer(BOOLEAN)
      /\ cs.state \in StoredContainerState /\ cs.last \in StoredContainerState
  BY DEF StoredContainerStatus
<1>2. OrZero(cs.started, FALSE) \in BOOLEAN
  BY <1>1, OrZeroTypes
<1> QED
  BY <1>1, <1>2, StateType DEF MapContainerStatus, ContainerStatusResponse

\* A mapper of what a sequence holds.
LEMMA SeqMap ==
  ASSUME NEW S, NEW T, NEW s \in Seq(S), NEW f,
         f = [i \in DOMAIN s |-> f[i]], \A i \in DOMAIN s : f[i] \in T
  PROVE  f \in Seq(T) /\ Len(f) = Len(s)
<1>1. Len(s) \in Nat /\ DOMAIN s = 1..Len(s)
  OBVIOUS
<1>2. f \in [1..Len(s) -> T]
  BY <1>1
<1> QED
  BY <1>1, <1>2

LEMMA EnvVarsType ==
  ASSUME NEW envs \in Seq(StoredEnvVar)
  PROVE  MapEnvVars(envs) \in Seq(EnvVarResponse)
<1> DEFINE f == MapEnvVars(envs)
<1>1. f = [i \in DOMAIN envs |-> f[i]]
  BY DEF MapEnvVars, Each
<1>2. ASSUME NEW i \in DOMAIN envs PROVE f[i] \in EnvVarResponse
  <2> DEFINE v == OrZero(envs[i].value, "")
  <2>1. envs[i] \in StoredEnvVar
    OBVIOUS
  <2>2. envs[i].name \in STRING /\ envs[i].value \in Pointer(STRING)
    BY <2>1 DEF StoredEnvVar
  <2>3. f[i] = [name |-> envs[i].name, value |-> v]
    BY DEF MapEnvVars, Each
  <2>4. v \in STRING
    BY <2>2, OrZeroTypes
  <2> HIDE DEF f, v
  <2> QED
    BY <2>2, <2>3, <2>4 DEF EnvVarResponse
<1> HIDE DEF f
<1>3. f \in Seq(EnvVarResponse)
  BY <1>1, <1>2, SeqMap
<1> QED
  BY <1>3 DEF f

LEMMA ContainerType ==
  ASSUME NEW c \in StoredContainer
  PROVE  /\ MapContainer(c) \in ContainerSpecResponse
         /\ MapEphemeralContainer(c) \in ContainerSpecResponse
<1>1. /\ c.name \in STRING /\ c.command \in Seq(STRING)
      /\ c.env \in Seq(StoredEnvVar)
  BY DEF StoredContainer
<1>2. MapEnvVars(c.env) \in Seq(EnvVarResponse) /\ <<>> \in Seq(EnvVarResponse)
  BY <1>1, EnvVarsType
<1> QED
  BY <1>1, <1>2 DEF MapContainer, MapEphemeralContainer, ContainerSpecResponse

LEMMA PodSpecType ==
  ASSUME NEW spec \in StoredPodSpec
  PROVE  MapPodSpec(spec) \in PodSpecResponse
<1>1. /\ spec.containers \in [Kinds -> Seq(StoredContainer)]
      /\ spec.restartPolicy \in STRING
  BY DEF StoredPodSpec
<1> DEFINE of(kind) == Each(LAMBDA c : IF kind = "ephemeral" THEN MapEphemeralContainer(c)
                                       ELSE MapContainer(c),
                            spec.containers[kind])
<1>2. ASSUME NEW kind \in Kinds PROVE of(kind) \in Seq(ContainerSpecResponse)
  <2> DEFINE s == spec.containers[kind]
             f == of(kind)
  <2>1. s \in Seq(StoredContainer)
    BY <1>1
  <2>2. f = [i \in DOMAIN s |-> f[i]]
    BY DEF Each
  <2>3. \A i \in DOMAIN s : f[i] = IF kind = "ephemeral" THEN MapEphemeralContainer(s[i])
                                   ELSE MapContainer(s[i])
    BY DEF Each
  <2> HIDE DEF s, f
  <2>4. \A i \in DOMAIN s : s[i] \in StoredContainer
    BY <2>1
  <2>5. \A i \in DOMAIN s : f[i] \in ContainerSpecResponse
    BY <2>3, <2>4, ContainerType
  <2>6. f \in Seq(ContainerSpecResponse)
    BY <2>1, <2>2, <2>5, SeqMap
  <2> QED
    BY <2>6 DEF f
<1>3. MapPodSpec(spec) = [containers |-> [kind \in Kinds |-> of(kind)],
                          restartPolicy |-> spec.restartPolicy]
  BY DEF MapPodSpec
<1> HIDE DEF of
<1> QED
  BY <1>1, <1>2, <1>3 DEF PodSpecResponse

LEMMA StatusesType ==
  ASSUME NEW s \in Seq(StoredContainerStatus)
  PROVE  /\ Each(MapContainerStatus, s) \in Seq(ContainerStatusResponse)
         /\ DOMAIN Each(MapContainerStatus, s) = DOMAIN s
         /\ \A i \in DOMAIN s : Each(MapContainerStatus, s)[i] = MapContainerStatus(s[i])
<1> DEFINE f == Each(MapContainerStatus, s)
<1>1. f = [i \in DOMAIN s |-> f[i]] /\ DOMAIN f = DOMAIN s
  BY DEF Each
<1>2. \A i \in DOMAIN s : f[i] = MapContainerStatus(s[i])
  BY DEF Each
<1> HIDE DEF f
<1>3. \A i \in DOMAIN s : s[i] \in StoredContainerStatus
  OBVIOUS
<1>4. \A i \in DOMAIN s : f[i] \in ContainerStatusResponse
  BY <1>2, <1>3, StatusType
<1>5. f \in Seq(ContainerStatusResponse)
  BY <1>1, <1>4, SeqMap
<1> QED
  BY <1>1, <1>2, <1>5 DEF f

LEMMA PodTypes ==
  ASSUME NEW pod \in StoredPod
  PROVE  /\ pod.spec \in StoredPodSpec /\ pod.phase \in STRING
         /\ pod.startTime \in Timestamp
         /\ \A kind \in Kinds : pod.statuses[kind] \in Seq(StoredContainerStatus)
  BY DEF StoredPod

LEMMA PodStatusType ==
  ASSUME NEW pod \in StoredPod
  PROVE  /\ MapPodStatus(pod) \in PodStatusResponse
         /\ \A kind \in Kinds :
              MapPodStatus(pod).statuses[kind] = Each(MapContainerStatus, pod.statuses[kind])
<1>1. /\ pod.phase \in STRING /\ pod.startTime \in Timestamp
      /\ \A kind \in Kinds : pod.statuses[kind] \in Seq(StoredContainerStatus)
  BY PodTypes
<1>2. TimeToString(pod.startTime) \in Timestamp
  BY <1>1, TimeToStringType
<1> DEFINE g == [kind \in Kinds |-> Each(MapContainerStatus, pod.statuses[kind])]
<1>3. g \in [Kinds -> Seq(ContainerStatusResponse)]
  BY <1>1, StatusesType
<1>4. MapPodStatus(pod) = [phase |-> pod.phase, startTime |-> TimeToString(pod.startTime),
                           statuses |-> g]
  BY DEF MapPodStatus
<1>5. \A kind \in Kinds : g[kind] = Each(MapContainerStatus, pod.statuses[kind])
  OBVIOUS
<1> HIDE DEF g
<1> QED
  BY <1>1, <1>2, <1>3, <1>4, <1>5 DEF PodStatusResponse

LEMMA JobConditionsType ==
  ASSUME NEW c \in Seq(StoredCondition)
  PROVE  /\ \A i \in DOMAIN c : /\ MapJobCondition(c[i]) \in JobConditionResponse
                                /\ MapJobCondition(c[i]).lastTransitionTime
                                     = <<c[i].lastTransitionTime>>
         /\ MapJobConditions(c) \in Seq(JobConditionResponse)
         /\ MapCustomJobConditions(c) \in Seq(JobCondition)
<1> DEFINE f == Each(MapJobCondition, c)
<1>1. f = [i \in DOMAIN c |-> f[i]] /\ \A i \in DOMAIN c : f[i] = MapJobCondition(c[i])
  BY DEF Each
<1>2. MapJobConditions(c) = f /\ MapCustomJobConditions(c) = f
  BY DEF MapJobConditions, MapCustomJobConditions
<1> HIDE DEF f
<1>3. ASSUME NEW i \in DOMAIN c
      PROVE  /\ MapJobCondition(c[i]) \in JobConditionResponse
             /\ MapJobCondition(c[i]).lastTransitionTime = <<c[i].lastTransitionTime>>
  <2>1. c[i].type \in STRING /\ c[i].status \in STRING /\ c[i].lastTransitionTime \in Time
    <3>1. c[i] \in StoredCondition
      OBVIOUS
    <3> QED
      BY <3>1 DEF StoredCondition
  <2> DEFINE a == TimeToString(<<c[i].lastTransitionTime>>)
  <2>2. a \in Timestamp /\ a = <<c[i].lastTransitionTime>>
    BY <2>1, TimeToStringType
  <2>3. MapJobCondition(c[i]) =
          [type |-> c[i].type, status |-> c[i].status, lastTransitionTime |-> a]
    BY DEF MapJobCondition
  <2> HIDE DEF a
  <2> QED
    BY <2>1, <2>2, <2>3 DEF JobConditionResponse
<1>4. f \in Seq(JobConditionResponse)
  BY <1>1, <1>3, SeqMap
<1>5. JobCondition = JobConditionResponse
  BY DEF JobCondition, JobConditionResponse
<1> QED
  BY <1>2, <1>3, <1>4, <1>5

LEMMA JobStatusTypes ==
  ASSUME NEW status \in StoredJobStatus
  PROVE  /\ MapJobStatus(status) \in JobStatusResponse
         /\ MapCustomJobStatus(status) \in CustomJobStatus
<1>1. /\ status.active \in Nat /\ status.succeeded \in Nat /\ status.failed \in Nat
      /\ status.ready \in Pointer(Nat) /\ status.terminating \in Pointer(Nat)
      /\ status.startTime \in Timestamp /\ status.completionTime \in Timestamp
      /\ status.conditions \in Seq(StoredCondition)
  BY DEF StoredJobStatus
<1>2. /\ TimeToString(status.startTime) \in Timestamp
      /\ TimeToString(status.completionTime) \in Timestamp
  BY <1>1, TimeToStringType
<1>3. OrZero(status.ready, 0) \in Nat /\ OrZero(status.terminating, 0) \in Nat
  BY <1>1, OrZeroTypes
<1>4. \A t \in Timestamp : OrZero(t, 0) \in Nat
  <2>1. \A t \in Timestamp : t = <<>> \/ t[1] \in Time
    BY PointerCases DEF Timestamp
  <2> QED
    BY <2>1 DEF OrZero, Time
<1>5. OrZero(status.startTime, 0) \in Nat /\ OrZero(status.completionTime, 0) \in Nat
  BY <1>1, <1>4
<1>6. /\ MapJobConditions(status.conditions) \in Seq(JobConditionResponse)
      /\ MapCustomJobConditions(status.conditions) \in Seq(JobCondition)
  BY <1>1, JobConditionsType
<1>7. MapJobStatus(status) \in JobStatusResponse
  BY <1>1, <1>2, <1>3, <1>6 DEF MapJobStatus, JobStatusResponse
<1>8. MapCustomJobStatus(status) \in CustomJobStatus
  BY <1>1, <1>2, <1>3, <1>5, <1>6 DEF MapCustomJobStatus, CustomJobStatus
<1> QED
  BY <1>7, <1>8

LEMMA SpecTypes ==
  /\ \A spec \in StoredJobSpec : MapJobSpec(spec) \in JobSpecResponse
  /\ \A spec \in StoredCronJobSpec : MapCronJobSpec(spec) \in CronJobSpecResponse
<1>2. ASSUME NEW spec \in StoredJobSpec PROVE MapJobSpec(spec) \in JobSpecResponse
  BY OrZeroTypes DEF MapJobSpec, JobSpecResponse, StoredJobSpec
<1>3. ASSUME NEW spec \in StoredCronJobSpec PROVE MapCronJobSpec(spec) \in CronJobSpecResponse
  BY OrZeroTypes DEF MapCronJobSpec, CronJobSpecResponse, StoredCronJobSpec
<1> QED
  BY <1>2, <1>3

(***************************************************************************)
(* The containers of a pod that failed, and why.                           *)
(***************************************************************************)

LEMMA StateFields ==
  ASSUME NEW cs \in StoredContainerStatus
  PROVE  /\ cs.name \in STRING /\ cs.state \in StoredContainerState
         /\ cs.state.waiting \in Pointer([reason : STRING])
         /\ cs.state.running \in Pointer([startedAt : Time])
         /\ cs.state.terminated
              \in Pointer([reason : STRING, startedAt : Time, finishedAt : Time])
<1>1. cs.name \in STRING /\ cs.state \in StoredContainerState
  BY DEF StoredContainerStatus
<1> QED
  BY <1>1 DEF StoredContainerState

Refused(cs) == \E i \in DOMAIN cs.state.waiting :
                  cs.state.waiting[i].reason = "CreateContainerConfigError"
Erred(cs) == \E i \in DOMAIN cs.state.terminated : cs.state.terminated[i].reason = "Error"

\* The details of the reason of a container that was refused its configuration, and of
\* one that ended with an error.
RefusedDetails(pod) ==
    [reason |-> "CreateContainerConfigError", startedAt |-> <<>>, finishedAt |-> pod.startTime]
ErredDetails(cs) ==
    [reason |-> cs.state.terminated[1].reason,
     startedAt |-> <<cs.state.terminated[1].startedAt>>,
     finishedAt |-> <<cs.state.terminated[1].finishedAt>>]

ReasonOf(pod, cs) == ContainerResponseOf(pod, cs).reason

\* What ContainerResponseOf gives for a reason.
LEMMA ReasonCases ==
  ASSUME NEW pod \in StoredPod, NEW cs \in StoredContainerStatus
  PROVE  /\ Refused(cs) =>
              ReasonOf(pod, cs) = <<[details |-> RefusedDetails(pod), container |-> cs.name]>>
         /\ ~Refused(cs) /\ Erred(cs) =>
              ReasonOf(pod, cs) = <<[details |-> ErredDetails(cs), container |-> cs.name]>>
         /\ ~Refused(cs) /\ ~Erred(cs) => ReasonOf(pod, cs) = <<>>
         /\ Refused(cs) => cs.state.waiting # <<>>
         /\ Erred(cs) => cs.state.terminated # <<>> /\ cs.state.terminated[1].reason = "Error"
<1>1. pod.startTime \in Timestamp /\ TimeToString(pod.startTime) = pod.startTime
  BY PodTypes, TimeToStringType
<1>2. ASSUME Erred(cs)
      PROVE  /\ cs.state.terminated # <<>> /\ cs.state.terminated[1].reason = "Error"
             /\ MapContainerStateTerminated(cs.state.terminated)[1] = ErredDetails(cs)
  <2>1. cs.state.terminated # <<>> /\ DOMAIN cs.state.terminated = {1}
    BY <1>2, StateFields, PointerCases DEF Erred
  <2>2. cs.state.terminated[1].reason = "Error"
    BY <1>2, <2>1 DEF Erred
  <2> QED
    BY <2>1, <2>2, StateFields, TerminatedType DEF ErredDetails
<1>3. Refused(cs) => cs.state.waiting # <<>>
  BY StateFields, PointerCases DEF Refused
<1>4. Refused(cs) =>
        ReasonOf(pod, cs) = <<[details |-> RefusedDetails(pod), container |-> cs.name]>>
  BY <1>1 DEF ReasonOf, ContainerResponseOf, Refused, RefusedDetails
<1>5. ~Refused(cs) /\ Erred(cs) =>
        ReasonOf(pod, cs) = <<[details |-> ErredDetails(cs), container |-> cs.name]>>
  <2> SUFFICES ASSUME ~Refused(cs), Erred(cs)
               PROVE  ReasonOf(pod, cs) = <<[details |-> ErredDetails(cs), container |-> cs.name]>>
    OBVIOUS
  <2> DEFINE d == MapContainerStateTerminated(cs.state.terminated)[1]
  <2>1. ReasonOf(pod, cs) = <<[details |-> d, container |-> cs.name]>>
    BY DEF ReasonOf, ContainerResponseOf, Refused, Erred
  <2>2. d = ErredDetails(cs)
    BY <1>2
  <2> HIDE DEF d
  <2> QED
    BY <2>1, <2>2
<1>6. ~Refused(cs) /\ ~Erred(cs) => ReasonOf(pod, cs) = <<>>
  BY DEF ReasonOf, ContainerResponseOf, Refused, Erred
<1> QED
  BY <1>2, <1>3, <1>4, <1>5, <1>6

\* The message of a container has a reason exactly when it shows a failed status.
LEMMA ContainerResponseType ==
  ASSUME NEW pod \in StoredPod, NEW cs \in StoredContainerStatus
  PROVE  /\ ContainerResponseOf(pod, cs) \in ContainerResponse
         /\ ContainerResponseOf(pod, cs).status = MapContainerStatus(cs)
         /\ (ReasonOf(pod, cs) # <<>>) = FailedStatus(MapContainerStatus(cs))
         /\ (ReasonOf(pod, cs) # <<>>) = (Refused(cs) \/ Erred(cs))
         /\ ReasonOf(pod, cs) # <<>> =>
              /\ ReasonOf(pod, cs)[1] \in TerminationReason
              /\ ReasonOf(pod, cs)[1].container = cs.name
<1> DEFINE r == ReasonOf(pod, cs)
           d == RefusedDetails(pod)
           e == ErredDetails(cs)
           x == [details |-> d, container |-> cs.name]
           y == [details |-> e, container |-> cs.name]
<1>1. /\ pod.startTime \in Timestamp /\ pod.phase \in STRING /\ cs.name \in STRING
      /\ <<>> \in Timestamp
  BY PodTypes, StateFields, PointerOf DEF Timestamp
<1>2. d \in ContainerStateTerminatedResponse
  <2>1. "CreateContainerConfigError" \in STRING
    <3>1. "CreateContainerConfigError" \in Texts
      BY DEF Texts
    <3> QED
      BY <3>1, TextsAreStrings, Zenon
  <2> QED
    BY <1>1, <2>1 DEF RefusedDetails, ContainerStateTerminatedResponse
<1>3. Erred(cs) => e \in ContainerStateTerminatedResponse
  <2> SUFFICES ASSUME Erred(cs) PROVE e \in ContainerStateTerminatedResponse
    OBVIOUS
  <2> DEFINE t == cs.state.terminated
             a == <<t[1].startedAt>>
             b == <<t[1].finishedAt>>
  <2>1. t # <<>> /\ t \in Pointer([reason : STRING, startedAt : Time, finishedAt : Time])
    BY ReasonCases, StateFields
  <2>2. t[1] \in [reason : STRING, startedAt : Time, finishedAt : Time]
    BY <2>1, PointerCases, Zenon
  <2>3. t[1].reason \in STRING /\ t[1].startedAt \in Time /\ t[1].finishedAt \in Time
    BY <2>2
  <2>4. a \in Timestamp /\ b \in Timestamp
    BY <2>3, TimeToStringType
  <2>5. e = [reason |-> t[1].reason, startedAt |-> a, finishedAt |-> b]
    BY DEF ErredDetails
  <2> HIDE DEF a, b, t
  <2> QED
    BY <2>3, <2>4, <2>5 DEF ContainerStateTerminatedResponse
<1> HIDE DEF d, e
<1>4. x \in TerminationReason /\ x.container = cs.name
  BY <1>1, <1>2 DEF TerminationReason
<1>5. Erred(cs) => y \in TerminationReason /\ y.container = cs.name
  BY <1>1, <1>3 DEF TerminationReason
<1>6. /\ Refused(cs) => r = <<x>>
      /\ ~Refused(cs) /\ Erred(cs) => r = <<y>>
      /\ ~Refused(cs) /\ ~Erred(cs) => r = <<>>
  BY ReasonCases DEF d, e
<1> HIDE DEF x, y
<1>7. /\ r \in Pointer(TerminationReason)
      /\ (r # <<>>) = (Refused(cs) \/ Erred(cs))
      /\ r # <<>> => r[1] \in TerminationReason /\ r[1].container = cs.name
  <2> HIDE DEF r
  <2>1. CASE ~Refused(cs) /\ ~Erred(cs)
    BY <1>6, <2>1, PointerOf
  <2>2. ASSUME NEW z \in TerminationReason, z.container = cs.name, r = <<z>>
        PROVE  r \in Pointer(TerminationReason) /\ r # <<>> /\ r[1] = z
    BY <2>2, PointerOf
  <2>3. CASE Refused(cs)
    BY <1>4, <1>6, <2>2, <2>3
  <2>4. CASE ~Refused(cs) /\ Erred(cs)
    BY <1>5, <1>6, <2>2, <2>4
  <2> QED
    BY <2>1, <2>3, <2>4
<1>8. /\ ContainerResponseOf(pod, cs)
            = [status |-> MapContainerStatus(cs), phase |-> pod.phase, reason |-> r]
      /\ ContainerResponseOf(pod, cs).status = MapContainerStatus(cs)
  BY DEF ContainerResponseOf, ReasonOf
<1>9. FailedStatus(MapContainerStatus(cs)) = (Refused(cs) \/ Erred(cs))
  <2> DEFINE m == MapContainerStateTerminated(cs.state.terminated)
  <2>1. /\ MapContainerStatus(cs).state.waiting = cs.state.waiting
        /\ MapContainerStatus(cs).state.terminated = m
    BY DEF MapContainerStatus, MapContainerState
  <2>2. /\ DOMAIN m = DOMAIN cs.state.terminated
        /\ \A i \in DOMAIN cs.state.terminated : m[i].reason = cs.state.terminated[i].reason
    <3> DEFINE t == cs.state.terminated
    <3>1. t \in Pointer([reason : STRING, startedAt : Time, finishedAt : Time])
      BY StateFields
    <3> HIDE DEF t
    <3>2. /\ DOMAIN MapContainerStateTerminated(t) = DOMAIN t
          /\ \A i \in DOMAIN t : MapContainerStateTerminated(t)[i] =
                [reason |-> t[i].reason, startedAt |-> <<t[i].startedAt>>,
                 finishedAt |-> <<t[i].finishedAt>>]
      BY <3>1, TerminatedType
    <3>3. m = MapContainerStateTerminated(t)
      BY DEF t
    <3> HIDE DEF m
    <3>4. DOMAIN m = DOMAIN t /\ \A i \in DOMAIN t : m[i].reason = t[i].reason
      <4>1. ASSUME NEW i \in DOMAIN t PROVE m[i].reason = t[i].reason
        BY <3>2, <3>3
      <4> QED
        BY <3>2, <3>3, <4>1
    <3> QED
      BY <3>4 DEF t
  <2> HIDE DEF m
  <2> QED
    BY <2>1, <2>2 DEF FailedStatus, Refused, Erred
<1>10. ContainerResponseOf(pod, cs) \in ContainerResponse
  <2> HIDE DEF r
  <2> QED
    BY <1>1, <1>7, <1>8, StatusType DEF ContainerResponse
<1> QED
  BY <1>7, <1>8, <1>9, <1>10

\* The messages of all the containers of a kind, and the places of the failed ones.
All(pod, kind) == Each(LAMBDA cs : ContainerResponseOf(pod, cs), pod.statuses[kind])
FailedPlaces(pod, kind) ==
    {i \in DOMAIN pod.statuses[kind] : ReasonOf(pod, pod.statuses[kind][i]) # <<>>}

LEMMA AllProperties ==
  ASSUME NEW pod \in StoredPod, NEW kind \in Kinds
  PROVE  /\ pod.statuses[kind] \in Seq(StoredContainerStatus)
         /\ All(pod, kind) \in Seq(ContainerResponse)
         /\ DOMAIN All(pod, kind) = DOMAIN pod.statuses[kind]
         /\ \A i \in DOMAIN pod.statuses[kind] :
              /\ pod.statuses[kind][i] \in StoredContainerStatus
              /\ All(pod, kind)[i] = ContainerResponseOf(pod, pod.statuses[kind][i])
<1> DEFINE s == pod.statuses[kind]
           f == All(pod, kind)
<1>1. s \in Seq(StoredContainerStatus)
  BY PodTypes
<1>2. /\ DOMAIN f = DOMAIN s /\ f = [i \in DOMAIN s |-> f[i]]
      /\ \A i \in DOMAIN s : f[i] = ContainerResponseOf(pod, s[i])
  BY DEF All, Each
<1> HIDE DEF s, f
<1>3. \A i \in DOMAIN s : s[i] \in StoredContainerStatus
  BY <1>1
<1>4. \A i \in DOMAIN s : f[i] \in ContainerResponse
  BY <1>2, <1>3, ContainerResponseType
<1>5. f \in Seq(ContainerResponse)
  BY <1>1, <1>2, <1>4, SeqMap
<1> QED
  BY <1>1, <1>2, <1>3, <1>5 DEF s, f

LEMMA CollectFailedProperties ==
  ASSUME NEW pod \in StoredPod, NEW kind \in Kinds
  PROVE  LET failed == CollectFailedContainers(pod, kind)
             P == FailedPlaces(pod, kind)
         IN  /\ failed = At(All(pod, kind), P)
             /\ failed \in Seq(ContainerResponse)
             /\ failed = <<>> <=> P = {}
             /\ P \in SUBSET DOMAIN pod.statuses[kind]
             /\ \A k \in DOMAIN failed :
                   /\ Place(P, k) \in P
                   /\ failed[k] = ContainerResponseOf(pod, pod.statuses[kind][Place(P, k)])
                   /\ failed[k].reason = ReasonOf(pod, pod.statuses[kind][Place(P, k)])
                   /\ failed[k].reason # <<>>
<1> DEFINE failed == CollectFailedContainers(pod, kind)
           P == FailedPlaces(pod, kind)
           all == All(pod, kind)
           s == pod.statuses[kind]
<1>1. /\ all \in Seq(ContainerResponse) /\ DOMAIN all = DOMAIN s
      /\ \A i \in DOMAIN s : all[i] = ContainerResponseOf(pod, s[i])
  BY AllProperties
<1>2. failed = At(all, {i \in DOMAIN all : all[i].reason # <<>>})
  BY DEF CollectFailedContainers, Where, All
<1>3. P = {i \in DOMAIN s : ReasonOf(pod, s[i]) # <<>>}
  BY DEF FailedPlaces
<1> HIDE DEF failed, P, all, s
<1>4. \A i \in DOMAIN s : all[i].reason = ReasonOf(pod, s[i])
  BY <1>1 DEF ReasonOf
<1>5. {i \in DOMAIN all : all[i].reason # <<>>} = P
  BY <1>1, <1>3, <1>4, Zenon
<1>6. failed = At(all, P) /\ P \in SUBSET DOMAIN all
  BY <1>1, <1>2, <1>3, <1>5
<1>7. /\ failed \in Seq(ContainerResponse)
      /\ failed = <<>> <=> P = {}
      /\ \A k \in DOMAIN failed : \E i \in P : failed[k] = all[i] /\ Place(P, k) = i
  BY <1>1, <1>6, AtProperties
<1>8. \A k \in DOMAIN failed :
        /\ Place(P, k) \in P
        /\ failed[k] = ContainerResponseOf(pod, s[Place(P, k)])
        /\ failed[k].reason = ReasonOf(pod, s[Place(P, k)])
        /\ failed[k].reason # <<>>
  BY <1>1, <1>3, <1>4, <1>7
<1> QED
  BY <1>1, <1>6, <1>7, <1>8 DEF failed, P, all, s

LEMMA CollectTerminatedType ==
  ASSUME NEW pod \in StoredPod, NEW kind \in Kinds
  PROVE  CollectTerminatedContainers(pod, kind) \in Seq(ContainerResponse)
<1> DEFINE s == pod.statuses[kind]
           w == Where(s, NotRunning)
           f == CollectTerminatedContainers(pod, kind)
<1>1. s \in Seq(StoredContainerStatus)
  BY PodTypes
<1>2. w \in Seq(StoredContainerStatus)
  <2> DEFINE P == {i \in DOMAIN s : NotRunning(s[i])}
  <2>1. w = At(s, P) /\ P \in SUBSET DOMAIN s
    BY DEF Where
  <2> HIDE DEF P, s, w
  <2> QED
    BY <1>1, <2>1, AtProperties
<1>3. /\ f = [i \in DOMAIN w |-> f[i]]
      /\ \A i \in DOMAIN w : f[i] = ContainerResponseOf(pod, w[i])
  BY DEF CollectTerminatedContainers, Each
<1> HIDE DEF w, f
<1>4. \A i \in DOMAIN w : w[i] \in StoredContainerStatus
  BY <1>2
<1>5. \A i \in DOMAIN w : f[i] \in ContainerResponse
  BY <1>3, <1>4, ContainerResponseType
<1>6. f \in Seq(ContainerResponse)
  BY <1>2, <1>3, <1>5, SeqMap
<1> QED
  BY <1>6 DEF f

\* The reasons of the failed containers of one kind.
ReasonsOf(pod, kind) == Each(LAMBDA c : c.reason[1], CollectFailedContainers(pod, kind))

LEMMA ReasonsOfProperties ==
  ASSUME NEW pod \in StoredPod, NEW kind \in Kinds
  PROVE  LET failed == CollectFailedContainers(pod, kind)
         IN  /\ ReasonsOf(pod, kind) \in Seq(TerminationReason)
             /\ Len(ReasonsOf(pod, kind)) = Len(failed)
             /\ DOMAIN ReasonsOf(pod, kind) = DOMAIN failed
             /\ \A k \in DOMAIN failed : ReasonsOf(pod, kind)[k] = failed[k].reason[1]
<1> DEFINE failed == CollectFailedContainers(pod, kind)
           P == FailedPlaces(pod, kind)
           s == pod.statuses[kind]
           f == ReasonsOf(pod, kind)
<1>1. /\ failed \in Seq(ContainerResponse)
      /\ P \in SUBSET DOMAIN s
      /\ \A k \in DOMAIN failed : /\ Place(P, k) \in P
                                  /\ failed[k].reason = ReasonOf(pod, s[Place(P, k)])
                                  /\ failed[k].reason # <<>>
  BY CollectFailedProperties
<1>2. /\ f = [k \in DOMAIN failed |-> f[k]] /\ DOMAIN f = DOMAIN failed
      /\ \A k \in DOMAIN failed : f[k] = failed[k].reason[1]
  BY DEF ReasonsOf, Each
<1>3. \A i \in DOMAIN s : s[i] \in StoredContainerStatus
  BY AllProperties
<1> HIDE DEF failed, P, s, f
<1>4. ASSUME NEW k \in DOMAIN failed PROVE failed[k].reason[1] \in TerminationReason
  <2>1. s[Place(P, k)] \in StoredContainerStatus
    BY <1>1, <1>3
  <2>2. ReasonOf(pod, s[Place(P, k)]) # <<>>
    BY <1>1
  <2> QED
    BY <1>1, <2>1, <2>2, ContainerResponseType
<1>5. f \in Seq(TerminationReason) /\ Len(f) = Len(failed)
  BY <1>1, <1>2, <1>4, SeqMap
<1> QED
  BY <1>2, <1>5 DEF failed, f

LEMMA TerminationReasonsType ==
  ASSUME NEW pod \in StoredPod
  PROVE  /\ TerminationReasons(pod) =
              ReasonsOf(pod, "ephemeral") \o ReasonsOf(pod, "init") \o ReasonsOf(pod, "main")
         /\ TerminationReasons(pod) \in Seq(TerminationReason)
<1>1. \A kind \in Kinds : ReasonsOf(pod, kind) \in Seq(TerminationReason)
  BY ReasonsOfProperties
<1>2. "ephemeral" \in Kinds /\ "init" \in Kinds /\ "main" \in Kinds
  BY DEF Kinds
<1>3. TerminationReasons(pod) =
        ReasonsOf(pod, "ephemeral") \o ReasonsOf(pod, "init") \o ReasonsOf(pod, "main")
  BY DEF TerminationReasons, ReasonsOf
<1> QED
  BY <1>1, <1>2, <1>3

(***************************************************************************)
(* When a pod has finished.                                                *)
(***************************************************************************)

FinishTimes(pod) ==
    LET failed == CollectFailedContainers(pod, "main")
    IN  UNION {{failed[i].reason[1].details.finishedAt[k] :
                  k \in DOMAIN failed[i].reason[1].details.finishedAt} : i \in DOMAIN failed}

\* A reason has the time of its container's end, or of its pod's start.
LEMMA ReasonHasTime ==
  ASSUME NEW pod \in StoredPod, PodInv(pod), NEW kind \in Kinds,
         NEW i \in DOMAIN pod.statuses[kind],
         ReasonOf(pod, pod.statuses[kind][i]) # <<>>
  PROVE  LET cs == pod.statuses[kind][i]
             t == ReasonOf(pod, cs)[1].details.finishedAt
         IN  /\ t # <<>> /\ t \in Timestamp
             /\ cs.state.terminated # <<>> => t = <<cs.state.terminated[1].finishedAt>>
<1> DEFINE cs == pod.statuses[kind][i]
           t == ReasonOf(pod, cs)[1].details.finishedAt
<1>1. cs \in StoredContainerStatus
  BY AllProperties
<1>2. pod.startTime # <<>> /\ pod.startTime \in Timestamp
  <2>1. pod.statuses[kind] # <<>>
    OBVIOUS
  <2> QED
    BY <2>1, PodTypes DEF PodInv
<1>3. cs.state.waiting = <<>> \/ cs.state.terminated = <<>>
  BY DEF PodInv
<1> HIDE DEF cs
<1>4. Refused(cs) \/ Erred(cs)
  BY <1>1, ContainerResponseType DEF cs
<1>5. CASE Refused(cs)
  <2>1. t = pod.startTime
    BY <1>1, <1>5, ReasonCases DEF RefusedDetails
  <2>2. cs.state.terminated = <<>>
    BY <1>1, <1>3, <1>5, ReasonCases
  <2> QED
    BY <1>2, <2>1, <2>2 DEF cs
<1>6. CASE ~Refused(cs) /\ Erred(cs)
  <2>1. t = <<cs.state.terminated[1].finishedAt>>
    BY <1>1, <1>6, ReasonCases DEF ErredDetails
  <2>2. cs.state.terminated # <<>>
    BY <1>1, <1>6, ReasonCases
  <2>3. cs.state.terminated[1] \in [reason : STRING, startedAt : Time, finishedAt : Time]
    BY <1>1, <2>2, StateFields, PointerCases, Zenon
  <2>4. cs.state.terminated[1].finishedAt \in Time
    BY <2>3
  <2>5. <<cs.state.terminated[1].finishedAt>> \in Timestamp
    BY <2>4, TimeToStringType
  <2> QED
    BY <2>1, <2>5 DEF cs
<1> QED
  BY <1>4, <1>5, <1>6

\* The greatest of some times.
LEMMA LatestIsGreatest ==
  ASSUME NEW n \in Nat, NEW f \in [1..n -> Time]
  PROVE  LET T == {f[i] : i \in 1..n}
         IN  /\ Latest(T) \in Timestamp
             /\ Latest(T) = <<>> <=> n = 0
             /\ \A i \in 1..n : f[i] <= Latest(T)[1]
<1> DEFINE T == {f[i] : i \in 1..n}
<1>1. CASE n = 0
  <2>1. T = {}
    BY <1>1
  <2>2. Latest(T) = <<>>
    BY <2>1 DEF Latest
  <2> QED
    BY <1>1, <2>2, PointerOf DEF Timestamp
<1>2. CASE n # 0
  <2>1. f \in [1..n -> Nat]
    BY DEF Time
  <2>2. PICK i \in 1..n : \A k \in 1..n : f[k] <= f[i]
    BY <1>2, <2>1, Greatest
  <2>3. \E t \in T : \A s \in T : s <= t
    BY <2>2
  <2> DEFINE g == CHOOSE t \in T : \A s \in T : s <= t
  <2>4. g \in T /\ \A s \in T : s <= g
    BY <2>3
  <2>5. Latest(T) = <<g>>
    BY <2>3 DEF Latest
  <2> HIDE DEF g
  <2>6. g \in Time
    BY <2>4
  <2>7. <<g>> \in Timestamp /\ <<g>> # <<>> /\ <<g>>[1] = g
    BY <2>6, TimeToStringType
  <2>8. \A k \in 1..n : f[k] <= g
    BY <2>4
  <2> DEFINE latest == Latest(T)
  <2>9. latest = <<g>>
    BY <2>5
  <2> HIDE DEF latest
  <2>10. /\ latest \in Timestamp
         /\ latest = <<>> <=> n = 0
         /\ \A k \in 1..n : f[k] <= latest[1]
    BY <1>2, <2>7, <2>8, <2>9
  <2> QED
    BY <2>10 DEF latest
<1> QED
  BY <1>1, <1>2

LEMMA FinishedAtProperties ==
  ASSUME NEW pod \in StoredPod, PodInv(pod)
  PROVE  LET failed == CollectFailedContainers(pod, "main")
         IN  /\ FinishedAt(pod) \in Timestamp
             /\ FinishedAt(pod) = <<>> <=> failed = <<>>
             /\ \A i \in DOMAIN failed :
                   LET ended == pod.statuses["main"][Place(FailedPlaces(pod, "main"), i)].state.terminated
                   IN  ended # <<>> => ended[1].finishedAt <= FinishedAt(pod)[1]
<1> DEFINE failed == CollectFailedContainers(pod, "main")
           P == FailedPlaces(pod, "main")
           s == pod.statuses["main"]
           time(i) == failed[i].reason[1].details.finishedAt
<1>1. "main" \in Kinds
  BY DEF Kinds
<1>2. /\ failed \in Seq(ContainerResponse)
      /\ P \in SUBSET DOMAIN s
      /\ \A k \in DOMAIN failed : /\ Place(P, k) \in P
                                  /\ failed[k].reason = ReasonOf(pod, s[Place(P, k)])
                                  /\ failed[k].reason # <<>>
  BY <1>1, CollectFailedProperties
<1>3. FinishedAt(pod) = Latest(UNION {{time(i)[k] : k \in DOMAIN time(i)} : i \in DOMAIN failed})
  BY DEF FinishedAt
<1> HIDE DEF failed, P, s
<1>4. ASSUME NEW i \in DOMAIN failed
      PROVE  /\ time(i) # <<>> /\ time(i) \in Timestamp
             /\ s[Place(P, i)].state.terminated # <<>> =>
                  time(i) = <<s[Place(P, i)].state.terminated[1].finishedAt>>
  <2>1. Place(P, i) \in DOMAIN pod.statuses["main"]
    BY <1>2 DEF s
  <2>2. ReasonOf(pod, s[Place(P, i)]) # <<>>
    BY <1>2
  <2> QED
    BY <1>1, <1>2, <2>1, <2>2, ReasonHasTime DEF s
<1> HIDE DEF time
<1> DEFINE n == Len(failed)
           f == [i \in 1..n |-> time(i)[1]]
<1>5. n \in Nat /\ DOMAIN failed = 1..n
  BY <1>2
<1>6. \A i \in 1..n : DOMAIN time(i) = {1} /\ time(i)[1] \in Time
  BY <1>4, <1>5, PointerCases DEF Timestamp
<1>7. f \in [1..n -> Time]
  BY <1>6
<1>8. FinishedAt(pod) = Latest({f[i] : i \in 1..n})
  <2>1. \A i \in 1..n : {time(i)[k] : k \in DOMAIN time(i)} = {f[i]}
    BY <1>6
  <2>2. UNION {{time(i)[k] : k \in DOMAIN time(i)} : i \in 1..n} = {f[i] : i \in 1..n}
    <3> DEFINE g(i) == {time(i)[k] : k \in DOMAIN time(i)}
    <3>1. \A i \in 1..n : g(i) = {f[i]}
      BY <2>1
    <3> HIDE DEF f, g
    <3>2. UNION {g(i) : i \in 1..n} = {f[i] : i \in 1..n}
      BY <3>1
    <3> QED
      BY <3>2 DEF g
  <2> QED
    BY <1>3, <1>5, <2>2
<1>9. \A i \in 1..n : f[i] = time(i)[1]
  OBVIOUS
<1> HIDE DEF f
<1>10. /\ FinishedAt(pod) \in Timestamp
       /\ FinishedAt(pod) = <<>> <=> n = 0
       /\ \A i \in 1..n : f[i] <= FinishedAt(pod)[1]
  BY <1>5, <1>7, <1>8, LatestIsGreatest
<1>11. failed = <<>> <=> n = 0
  BY <1>2
<1>12. \A i \in 1..n : s[Place(P, i)].state.terminated # <<>> =>
                         s[Place(P, i)].state.terminated[1].finishedAt <= FinishedAt(pod)[1]
  <2> SUFFICES ASSUME NEW i \in 1..n, s[Place(P, i)].state.terminated # <<>>
               PROVE  s[Place(P, i)].state.terminated[1].finishedAt <= FinishedAt(pod)[1]
    OBVIOUS
  <2>1. time(i) = <<s[Place(P, i)].state.terminated[1].finishedAt>>
    BY <1>4, <1>5
  <2>2. f[i] = s[Place(P, i)].state.terminated[1].finishedAt
    BY <1>9, <2>1
  <2> QED
    BY <1>10, <2>2
<1> QED
  BY <1>5, <1>10, <1>11, <1>12 DEF failed, P, s

(***************************************************************************)
(* The message of a pod, and of a job's pods.                              *)
(***************************************************************************)

LEMMA PodResponseType ==
  ASSUME NEW pod \in StoredPod, PodInv(pod)
  PROVE  PodResponseOf(pod) \in PodResponse
<1> DEFINE reasons == TerminationReasons(pod)
           terminated == TerminatedContainersResponse(pod)
           failed == FailedContainersResponse(pod)
<1>1. reasons \in Seq(TerminationReason)
  BY TerminationReasonsType
<1>2. terminated \in TerminatedContainers
  <2> DEFINE c == [kind \in Kinds |-> CollectTerminatedContainers(pod, kind)]
  <2>1. c \in [Kinds -> Seq(ContainerResponse)]
    BY CollectTerminatedType
  <2>2. terminated = [containers |-> c, reasons |-> <<>>]
    BY DEF TerminatedContainersResponse
  <2>3. <<>> \in Pointer(Seq(TerminationReason))
    BY PointerOf
  <2> HIDE DEF c, terminated
  <2> QED
    BY <2>1, <2>2, <2>3 DEF TerminatedContainers
<1>3. failed \in TerminatedContainers
  <2> DEFINE c == [kind \in Kinds |-> CollectFailedContainers(pod, kind)]
             r == <<reasons>>
  <2>1. c \in [Kinds -> Seq(ContainerResponse)]
    BY CollectFailedProperties
  <2>2. failed = [containers |-> c, reasons |-> r]
    BY DEF FailedContainersResponse
  <2>3. r \in Pointer(Seq(TerminationReason))
    BY <1>1, PointerOf
  <2> HIDE DEF c, r, failed
  <2> QED
    BY <2>1, <2>2, <2>3 DEF TerminatedContainers
<1>4. FinishedAt(pod) \in Timestamp
  BY FinishedAtProperties
<1>5. /\ MapPodSpec(pod.spec) \in PodSpecResponse /\ MapPodStatus(pod) \in PodStatusResponse
      /\ pod.phase \in STRING
  BY PodTypes, PodSpecType, PodStatusType
<1>6. PodResponseOf(pod) =
        [spec |-> MapPodSpec(pod.spec), status |-> MapPodStatus(pod), phase |-> pod.phase,
         terminated |-> terminated, failedContainers |-> failed,
         failed |-> reasons # <<>>, reasons |-> reasons, finishedAt |-> FinishedAt(pod)]
  BY DEF PodResponseOf
<1> HIDE DEF reasons, terminated, failed
<1> QED
  BY <1>1, <1>2, <1>3, <1>4, <1>5, <1>6 DEF PodResponse

LEMMA PodResponsesType ==
  ASSUME NEW stored \in Seq(StoredPod), \A p \in DOMAIN stored : PodInv(stored[p])
  PROVE  /\ BuildJobPodsResponses(stored) \in Seq(PodResponse)
         /\ DOMAIN BuildJobPodsResponses(stored) = DOMAIN stored
         /\ \A p \in DOMAIN stored : /\ stored[p] \in StoredPod
                                     /\ BuildJobPodsResponses(stored)[p] = PodResponseOf(stored[p])
<1> DEFINE f == BuildJobPodsResponses(stored)
<1>1. /\ f = [p \in DOMAIN stored |-> f[p]] /\ DOMAIN f = DOMAIN stored
      /\ \A p \in DOMAIN stored : f[p] = PodResponseOf(stored[p])
  BY DEF BuildJobPodsResponses, Each
<1> HIDE DEF f
<1>2. \A p \in DOMAIN stored : stored[p] \in StoredPod
  OBVIOUS
<1>3. \A p \in DOMAIN stored : f[p] \in PodResponse
  BY <1>1, <1>2, PodResponseType
<1>4. f \in Seq(PodResponse)
  BY <1>1, <1>3, SeqMap
<1> QED
  BY <1>1, <1>2, <1>4 DEF f

(***************************************************************************)
(* The failure condition and the duration of a job.                        *)
(***************************************************************************)

HasFailed(status) == \E i \in DOMAIN status.conditions : status.conditions[i].type = "Failed"

LEMMA FailureConditionProperties ==
  ASSUME NEW status \in StoredJobStatus
  PROVE  /\ FailureCondition(status) \in Pointer(JobConditionResponse)
         /\ FailureCondition(status) # <<>> <=> HasFailed(status)
         /\ FailureCondition(status) # <<>> =>
              \E i \in DOMAIN status.conditions :
                 /\ status.conditions[i].type = "Failed"
                 /\ status.conditions[i].lastTransitionTime \in Time
                 /\ FailureCondition(status)[1].lastTransitionTime
                      = <<status.conditions[i].lastTransitionTime>>
<1> DEFINE s == status.conditions
           P == {i \in DOMAIN s : s[i].type = "Failed"}
           failed == At(s, P)
<1>1. s \in Seq(StoredCondition)
  BY DEF StoredJobStatus
<1>2. FailureCondition(status) = IF failed = <<>> THEN <<>> ELSE <<MapJobCondition(failed[1])>>
  BY DEF FailureCondition, Where
<1>3. P \in SUBSET DOMAIN s /\ (P # {} <=> HasFailed(status))
  BY DEF HasFailed
<1>4. \A i \in P : i \in DOMAIN s /\ s[i].type = "Failed"
  OBVIOUS
<1> HIDE DEF s, P
<1>5. /\ failed \in Seq(StoredCondition)
      /\ failed = <<>> <=> P = {}
      /\ \A k \in DOMAIN failed : \E i \in P : failed[k] = s[i]
  BY <1>1, <1>3, AtProperties
<1> HIDE DEF failed
<1>6. CASE failed = <<>>
  BY <1>2, <1>3, <1>5, <1>6, PointerOf
<1>7. CASE failed # <<>>
  <2>1. 1 \in DOMAIN failed
    BY <1>5, <1>7
  <2>2. PICK i \in P : failed[1] = s[i]
    BY <1>5, <2>1
  <2> DEFINE r == MapJobCondition(s[i])
  <2>3. r \in JobConditionResponse /\ r.lastTransitionTime = <<s[i].lastTransitionTime>>
    BY <1>1, <1>4, JobConditionsType
  <2>4. s[i] \in StoredCondition
    BY <1>1, <1>4
  <2>5. s[i].lastTransitionTime \in Time
    BY <2>4 DEF StoredCondition
  <2>6. FailureCondition(status) = <<r>>
    BY <1>2, <1>7, <2>2
  <2> HIDE DEF r
  <2>7. /\ FailureCondition(status) # <<>> /\ FailureCondition(status)[1] = r
        /\ FailureCondition(status) \in Pointer(JobConditionResponse)
    BY <2>3, <2>6, PointerOf
  <2> QED
    BY <1>3, <1>4, <1>5, <1>7, <2>3, <2>5, <2>7 DEF s
<1> QED
  BY <1>6, <1>7

\* Where the duration of a job ends.
End(status, time) ==
    IF FailureCondition(status) # <<>>
    THEN FailureCondition(status)[1].lastTransitionTime[1]
    ELSE IF status.completionTime # <<>> THEN status.completionTime[1] ELSE time

\* A failed job is one whose condition or whose pods say so; its duration only asks
\* for the condition, and thus not for the pods.
LEMMA DurationIs ==
  ASSUME NEW stored \in StoredJob, NEW found
  PROVE  DurationInS(stored, found) =
           IF stored.status.startTime = <<>> THEN 0
           ELSE End(stored.status, now) - stored.status.startTime[1]
<1> DEFINE failed == JobFailed(stored.status, BuildJobPodsResponses(found))
           c == FailureCondition(stored.status)
<1>1. stored.status \in StoredJobStatus
  BY DEF StoredJob
<1>2. c # <<>> => failed
  BY DEF JobFailed
<1>3. DurationInS(stored, found) = ToDurationInS(stored.status, failed)
  BY DEF DurationInS
<1>4. c # <<>> => c[1].lastTransitionTime # <<>>
  <2> SUFFICES ASSUME c # <<>> PROVE c[1].lastTransitionTime # <<>>
    OBVIOUS
  <2>1. PICK i \in DOMAIN stored.status.conditions :
          c[1].lastTransitionTime = <<stored.status.conditions[i].lastTransitionTime>>
    BY <1>1, FailureConditionProperties
  <2>2. \A x : <<x>> # <<>>
    OBVIOUS
  <2> HIDE DEF c
  <2> QED
    BY <2>1, <2>2
<1> HIDE DEF failed
<1> QED
  BY <1>2, <1>3, <1>4 DEF ToDurationInS, OrZero, End

\* The types of the objects alone.
ObjectsOK ==
    /\ job \in StoredJob
    /\ pods \in Seq(StoredPod)
    /\ now \in 1..MaxTime

LEMMA DurationType ==
  ASSUME ObjectsOK, JobInv
  PROVE  DurationInS(job, pods) \in Nat
<1>1. /\ job \in StoredJob /\ job.status \in StoredJobStatus /\ now \in Nat
      /\ job.status.startTime \in Timestamp /\ job.status.completionTime \in Timestamp
  BY BoundsAssumption DEF ObjectsOK, StoredJob, StoredJobStatus
<1>2. CASE job.status.startTime = <<>>
  BY <1>1, <1>2, DurationIs
<1>3. CASE job.status.startTime # <<>>
  <2> DEFINE start == job.status.startTime[1]
             end == End(job.status, now)
  <2>1. start \in Nat /\ start <= now
    BY <1>1, <1>3, PointerCases DEF Timestamp, Time, JobInv, JobStatusInv
  <2>2. end \in Nat /\ start <= end
    <3>1. CASE FailureCondition(job.status) # <<>>
      <4>1. PICK i \in DOMAIN job.status.conditions :
              /\ job.status.conditions[i].type = "Failed"
              /\ job.status.conditions[i].lastTransitionTime \in Time
              /\ FailureCondition(job.status)[1].lastTransitionTime
                   = <<job.status.conditions[i].lastTransitionTime>>
        BY <1>1, <3>1, FailureConditionProperties
      <4>2. start <= job.status.conditions[i].lastTransitionTime
        BY <1>3, <4>1 DEF JobInv, JobStatusInv
      <4>3. end = job.status.conditions[i].lastTransitionTime
        BY <3>1, <4>1 DEF End
      <4> QED
        BY <4>1, <4>2, <4>3 DEF Time
    <3>2. CASE FailureCondition(job.status) = <<>> /\ job.status.completionTime # <<>>
      <4>1. job.status.completionTime[1] \in Nat
        BY <1>1, <3>2, PointerCases DEF Timestamp, Time
      <4> QED
        BY <3>2, <4>1 DEF End, JobInv, JobStatusInv
    <3>3. CASE FailureCondition(job.status) = <<>> /\ job.status.completionTime = <<>>
      BY <1>1, <2>1, <3>3 DEF End
    <3> QED
      BY <3>1, <3>2, <3>3
  <2>3. DurationInS(job, pods) = end - start
    BY <1>1, <1>3, DurationIs
  <2> HIDE DEF start, end
  <2> QED
    BY <2>1, <2>2, <2>3
<1> QED
  BY <1>2, <1>3

(***************************************************************************)
(* The message of the job and of its cronjob.                              *)
(***************************************************************************)

LEMMA ResponseType ==
  ASSUME ObjectsOK, JobInv, PodsInv
  PROVE  /\ Response \in JobResponse
         /\ Response.pods = BuildJobPodsResponses(pods)
         /\ Response.durationInS = DurationInS(job, pods)
<1> DEFINE responses == BuildJobPodsResponses(pods)
           reasonsOf == Each(LAMBDA r : r.reasons, responses)
           reasons == FlattenSeq(reasonsOf)
<1>1. /\ job \in StoredJob /\ job.status \in StoredJobStatus /\ job.spec \in StoredJobSpec
      /\ job.created \in Nat
  BY DEF ObjectsOK, StoredJob, Time
<1>2. responses \in Seq(PodResponse)
  BY PodResponsesType DEF ObjectsOK, PodsInv
<1>3. reasons \in Seq(TerminationReason)
  <2>1. /\ reasonsOf = [p \in DOMAIN responses |-> reasonsOf[p]]
        /\ \A p \in DOMAIN responses : reasonsOf[p] = responses[p].reasons
    BY DEF Each
  <2> HIDE DEF responses, reasonsOf
  <2>2. ASSUME NEW p \in DOMAIN responses PROVE reasonsOf[p] \in Seq(TerminationReason)
    <3>1. responses[p] \in PodResponse
      BY <1>2
    <3>2. responses[p].reasons \in Seq(TerminationReason)
      BY <3>1 DEF PodResponse
    <3> QED
      BY <2>1, <3>2
  <2>3. reasonsOf \in Seq(Seq(TerminationReason))
    BY <1>2, <2>1, <2>2, SeqMap
  <2> QED
    BY <2>3, FlattenProperties
<1>4. DurationInS(job, pods) \in Nat
  BY DurationType
<1>5. /\ MapJobSpec(job.spec) \in JobSpecResponse
      /\ MapJobStatus(job.status) \in JobStatusResponse
      /\ MapCustomJobStatus(job.status) \in CustomJobStatus
      /\ FailureCondition(job.status) \in Pointer(JobConditionResponse)
  BY <1>1, SpecTypes, JobStatusTypes, FailureConditionProperties
<1>6. /\ JobFailed(job.status, responses) \in BOOLEAN
      /\ JobWithSidecarContainer(job.template) \in BOOLEAN
  BY DEF JobFailed, JobWithSidecarContainer
<1>7. Response =
        [created |-> job.created, durationInS |-> DurationInS(job, pods),
         spec |-> MapJobSpec(job.spec), jobStatus |-> MapJobStatus(job.status),
         status |-> MapCustomJobStatus(job.status),
         succeeded |-> job.status.completionTime # <<>>,
         failed |-> JobFailed(job.status, responses),
         failureCondition |-> FailureCondition(job.status),
         pods |-> responses, reasons |-> reasons,
         sidecar |-> JobWithSidecarContainer(job.template)]
  BY DEF Response, BuildJobResponse
<1> HIDE DEF responses, reasons
<1>8. Response \in JobResponse
  BY <1>1, <1>2, <1>3, <1>4, <1>5, <1>6, <1>7 DEF JobResponse
<1> QED
  BY <1>7, <1>8 DEF responses

\* The cronjob has one job, so its lists have one message, or its running ones none.
LEMMA CronjobMessageIs ==
  ASSUME ObjectsOK, JobInv, PodsInv
  PROVE  /\ CronjobMessage.jobs = <<Response>>
         /\ CronjobMessage.failed = Response.failed
         /\ CronjobMessage.lastDuration = Response.durationInS
         /\ CronjobMessage.currentDuration =
              IF Response.status.active > 0 THEN Response.durationInS ELSE 0
         /\ CronjobMessage.runningJobs \in Seq(JobResponse)
         /\ CronjobMessage.jobsPods = Response.pods
<1> DEFINE r == Response
           jobs == <<r>>
           running == Where(jobs, LAMBDA q : q.status.active > 0)
<1>1. r \in JobResponse
  BY ResponseType
<1>2. CronjobMessage.jobs = jobs /\ CronjobMessage.runningJobs = running
  BY DEF CronjobMessage, BuildCronJobResponse
<1>3. CronjobMessage.failed = \E i \in DOMAIN jobs : jobs[i].failed
  BY DEF CronjobMessage, BuildCronJobResponse
<1>4. /\ CronjobMessage.lastDuration = LastDuration(jobs)
      /\ CronjobMessage.currentDuration = CurrentDuration(running)
  BY DEF CronjobMessage, BuildCronJobResponse
<1>5. CronjobMessage.jobsPods = FlattenSeq(Each(LAMBDA q : q.pods, jobs))
  BY DEF CronjobMessage, BuildCronJobResponse
<1>6. running = IF r.status.active > 0 THEN jobs ELSE <<>>
  <2> DEFINE P == {i \in DOMAIN jobs : jobs[i].status.active > 0}
  <2>1. running = At(jobs, P)
    BY DEF Where
  <2>2. DOMAIN jobs = {1} /\ jobs[1] = r
    OBVIOUS
  <2>3. P = IF r.status.active > 0 THEN {1} ELSE {}
    BY <2>2
  <2>4. jobs \in Seq(JobResponse) /\ Len(jobs) = 1
    BY <1>1
  <2> HIDE DEF P, jobs
  <2> QED
    BY <2>1, <2>3, <2>4, AtOne
<1>7. /\ DOMAIN jobs = {1} /\ jobs[1] = r /\ Len(jobs) = 1 /\ jobs # <<>>
      /\ jobs \in Seq(JobResponse)
  BY <1>1
<1>8. Each(LAMBDA q : q.pods, jobs) = <<r.pods>>
  BY <1>7 DEF Each
<1>9. FlattenSeq(Each(LAMBDA q : q.pods, jobs)) = r.pods
  BY <1>8, FlattenOne
<1>10. r.failed \in BOOLEAN
  BY <1>1 DEF JobResponse
<1> HIDE DEF r, jobs, running
<1>11. /\ CronjobMessage.failed = r.failed
       /\ LastDuration(jobs) = r.durationInS
       /\ CurrentDuration(running) = IF r.status.active > 0 THEN r.durationInS ELSE 0
       /\ running \in Seq(JobResponse)
  <2>1. CronjobMessage.failed = r.failed
    BY <1>3, <1>7, <1>10
  <2>2. LastDuration(jobs) = r.durationInS
    BY <1>7 DEF LastDuration
  <2>3. CASE r.status.active > 0
    BY <1>6, <1>7, <2>1, <2>2, <2>3 DEF CurrentDuration
  <2>4. CASE ~(r.status.active > 0)
    BY <1>6, <2>1, <2>2, <2>4 DEF CurrentDuration
  <2> QED
    BY <2>3, <2>4
<1> QED
  BY <1>2, <1>4, <1>5, <1>9, <1>11 DEF r, jobs

LEMMA CronjobMessageType ==
  ASSUME ObjectsOK, JobInv, PodsInv
  PROVE  CronjobMessage \in CronjobResponse
<1> DEFINE m == CronjobMessage
<1>1. /\ Response \in JobResponse /\ Response.durationInS \in Nat
      /\ Response.pods \in Seq(PodResponse)
      /\ Response.failed \in BOOLEAN
  <2>1. Response \in JobResponse
    BY ResponseType
  <2> QED
    BY <2>1 DEF JobResponse
<1>2. /\ m.jobs \in Seq(JobResponse) /\ m.runningJobs \in Seq(JobResponse)
      /\ m.jobsPods \in Seq(PodResponse) /\ m.failed \in BOOLEAN
      /\ m.lastDuration \in Nat /\ m.currentDuration \in Nat
  <2> DEFINE r == Response
             jobs == <<r>>
  <2>1. jobs \in Seq(JobResponse)
    BY <1>1
  <2>2. /\ m.jobs = jobs /\ m.runningJobs \in Seq(JobResponse) /\ m.jobsPods = r.pods
        /\ m.failed = r.failed /\ m.lastDuration = r.durationInS
        /\ m.currentDuration = r.durationInS \/ m.currentDuration = 0
    BY CronjobMessageIs, Zenon
  <2> HIDE DEF m, r, jobs
  <2> QED
    BY <1>1, <2>1, <2>2 DEF r
<1>3. /\ job.template \in StoredPodSpec /\ job.created \in Time
      /\ job.status.completionTime \in Timestamp /\ job.status.active \in Nat
  BY DEF ObjectsOK, StoredJob, StoredJobStatus
<1>4. BuildCronJobCommand(job.template) \in [Kinds -> ContainerCommands]
  <2> DEFINE of(kind) == Each(LAMBDA c : c.command, job.template.containers[kind])
  <2>1. ASSUME NEW kind \in Kinds PROVE of(kind) \in ContainerCommands
    <3> DEFINE s == job.template.containers[kind]
               f == of(kind)
    <3>1. s \in Seq(StoredContainer)
      BY <1>3 DEF StoredPodSpec
    <3>2. f = [i \in DOMAIN s |-> f[i]] /\ \A i \in DOMAIN s : f[i] = s[i].command
      BY DEF Each
    <3> HIDE DEF s, f
    <3>3. ASSUME NEW i \in DOMAIN s PROVE f[i] \in Seq(STRING)
      <4>1. s[i] \in StoredContainer
        BY <3>1
      <4>2. s[i].command \in Seq(STRING)
        BY <4>1 DEF StoredContainer
      <4> QED
        BY <3>2, <4>2
    <3>4. f \in ContainerCommands
      BY <3>1, <3>2, <3>3, SeqMap DEF ContainerCommands
    <3> QED
      BY <3>4 DEF f
  <2>2. BuildCronJobCommand(job.template) = [kind \in Kinds |-> of(kind)]
    BY DEF BuildCronJobCommand
  <2> HIDE DEF of
  <2> QED
    BY <2>1, <2>2
<1>5. /\ MapCronJobSpec(CronJobSpec) \in CronJobSpecResponse
      /\ CronJobSpec.schedule \in STRING
  BY ObjectsAssumption, SpecTypes DEF StoredCronJobSpec
<1>6. m.runningJobsPods \in Seq(PodResponse)
  <2> DEFINE s == m.jobsPods
             P == {i \in DOMAIN s : s[i].phase = "Running"}
  <2>1. m.runningJobsPods = At(s, P)
    BY DEF CronjobMessage, BuildCronJobResponse, Where
  <2>2. P \in SUBSET DOMAIN s
    OBVIOUS
  <2> HIDE DEF s, P
  <2>3. s \in Seq(PodResponse)
    BY <1>2 DEF s
  <2> QED
    BY <2>1, <2>2, <2>3, AtProperties
<1> DEFINE scheduled == <<job.created>>
<1>7. scheduled \in Timestamp
  BY <1>3, TimeToStringType
<1>8. m = [commands |-> BuildCronJobCommand(job.template),
           definition |-> CronJobSpec.schedule,
           created |-> job.created,
           lastSuccessfulTime |-> job.status.completionTime,
           lastScheduleTime |-> scheduled,
           active |-> job.status.active > 0,
           lastDuration |-> m.lastDuration,
           currentDuration |-> m.currentDuration,
           jobs |-> m.jobs,
           runningJobs |-> m.runningJobs,
           jobsPods |-> m.jobsPods,
           runningJobsPods |-> m.runningJobsPods,
           spec |-> MapCronJobSpec(CronJobSpec),
           failed |-> m.failed]
  BY DEF CronjobMessage, BuildCronJobResponse
<1> HIDE DEF m, scheduled
<1>9. m \in CronjobResponse
  <2> DEFINE commands == BuildCronJobCommand(job.template)
             active == job.status.active > 0
             spec == MapCronJobSpec(CronJobSpec)
  <2>1. /\ job.created \in Nat /\ active \in BOOLEAN
        /\ commands \in [Kinds -> ContainerCommands] /\ spec \in CronJobSpecResponse
    BY <1>3, <1>4, <1>5 DEF Time
  <2>2. m = [commands |-> commands, definition |-> CronJobSpec.schedule,
             created |-> job.created,
             lastSuccessfulTime |-> job.status.completionTime,
             lastScheduleTime |-> scheduled, active |-> active,
             lastDuration |-> m.lastDuration, currentDuration |-> m.currentDuration,
             jobs |-> m.jobs, runningJobs |-> m.runningJobs, jobsPods |-> m.jobsPods,
             runningJobsPods |-> m.runningJobsPods, spec |-> spec, failed |-> m.failed]
    BY <1>8
  <2> HIDE DEF commands, active, spec
  <2> QED
    BY <1>2, <1>3, <1>5, <1>6, <1>7, <2>1, <2>2 DEF CronjobResponse
<1> QED
  BY <1>9 DEF m

(***************************************************************************)
(* The steps of a pod.                                                     *)
(***************************************************************************)

LEMMA TextIs ==
  ASSUME NEW text \in Texts
  PROVE  text \in STRING
  BY TextsAreStrings

LEMMA PodChange ==
  ASSUME ObjectsOK, PodsInv, NEW p \in DOMAIN pods,
         NEW pod \in StoredPod, PodInv(pod), pods' = [pods EXCEPT ![p] = pod]
  PROVE  pods' \in Seq(StoredPod) /\ PodsInv'
<1>1. pods \in Seq(StoredPod)
  BY DEF ObjectsOK
<1>2. pods' \in Seq(StoredPod)
  BY <1>1
<1>3. \A q \in DOMAIN pods' : PodInv(pods'[q])
  BY <1>1 DEF PodsInv
<1>4. PodsInv' = \A q \in DOMAIN pods' : PodInv(pods'[q])
  BY DEF PodsInv, PodInv
<1> QED
  BY <1>2, <1>3, <1>4

\* The status of one container changes, and with it perhaps the pod's phase.
Changed(pod, kind, i, phase, cs) ==
    [spec |-> pod.spec, phase |-> phase, startTime |-> pod.startTime,
     statuses |-> [pod.statuses EXCEPT ![kind] = [pod.statuses[kind] EXCEPT ![i] = cs]]]

LEMMA StatusChange ==
  ASSUME NEW pod \in StoredPod, PodInv(pod), NEW kind \in Kinds,
         NEW i \in DOMAIN pod.statuses[kind], NEW phase \in STRING,
         NEW cs \in StoredContainerStatus,
         cs.state.waiting = <<>> \/ cs.state.terminated = <<>>
  PROVE  Changed(pod, kind, i, phase, cs) \in StoredPod /\ PodInv(Changed(pod, kind, i, phase, cs))
<1> DEFINE s == [pod.statuses[kind] EXCEPT ![i] = cs]
           t == [pod.statuses EXCEPT ![kind] = s]
           pod2 == Changed(pod, kind, i, phase, cs)
<1>1. /\ pod.spec \in StoredPodSpec /\ pod.startTime \in Timestamp
      /\ pod.statuses \in [Kinds -> Seq(StoredContainerStatus)]
  BY DEF StoredPod
<1>2. s \in Seq(StoredContainerStatus) /\ DOMAIN s = DOMAIN pod.statuses[kind]
  BY <1>1
<1>3. t \in [Kinds -> Seq(StoredContainerStatus)]
  BY <1>1, <1>2
<1>4. pod2 = [spec |-> pod.spec, phase |-> phase, startTime |-> pod.startTime, statuses |-> t]
  BY DEF Changed
<1>5. /\ t[kind] = s
      /\ \A k \in Kinds : k # kind => t[k] = pod.statuses[k]
      /\ \A k \in DOMAIN s : s[k] = IF k = i THEN cs ELSE pod.statuses[kind][k]
  BY <1>1, <1>2
<1>6. pod.startTime # <<>>
  <2>1. pod.statuses[kind] # <<>>
    OBVIOUS
  <2> QED
    BY <2>1 DEF PodInv
<1> HIDE DEF s, t, pod2
<1>7. pod2 \in StoredPod
  BY <1>1, <1>3, <1>4 DEF StoredPod
<1>8. ASSUME NEW l \in Kinds, NEW k \in DOMAIN t[l]
      PROVE  t[l][k].state.waiting = <<>> \/ t[l][k].state.terminated = <<>>
  <2>1. CASE l = kind
    BY <1>2, <1>5, <1>8, <2>1 DEF PodInv
  <2>2. CASE l # kind
    BY <1>5, <1>8, <2>2 DEF PodInv
  <2> QED
    BY <2>1, <2>2
<1>9. PodInv(pod2)
  BY <1>4, <1>6, <1>8 DEF PodInv
<1> QED
  BY <1>7, <1>9 DEF pod2

\* The states of a container.
LEMMA StatesType ==
  /\ NoState \in StoredContainerState
  /\ \A reason \in STRING : /\ Waiting(reason) \in StoredContainerState
                            /\ Waiting(reason).terminated = <<>>
  /\ \A t \in Time : /\ [NoState EXCEPT !.running = <<[startedAt |-> t]>>] \in StoredContainerState
                     /\ [NoState EXCEPT !.running = <<[startedAt |-> t]>>].waiting = <<>>
  /\ \A e \in [reason : STRING, startedAt : Time, finishedAt : Time] :
        /\ [NoState EXCEPT !.terminated = <<e>>] \in StoredContainerState
        /\ [NoState EXCEPT !.terminated = <<e>>].waiting = <<>>
<1> DEFINE W == [reason : STRING]
           R == [startedAt : Time]
           E == [reason : STRING, startedAt : Time, finishedAt : Time]
<1>1. /\ <<>> \in Pointer(W) /\ <<>> \in Pointer(R) /\ <<>> \in Pointer(E)
      /\ \A w \in W : <<w>> \in Pointer(W)
      /\ \A r \in R : <<r>> \in Pointer(R)
      /\ \A e \in E : <<e>> \in Pointer(E)
  BY PointerOf, Zenon
<1>2. StoredContainerState = [waiting : Pointer(W), running : Pointer(R), terminated : Pointer(E)]
  BY DEF StoredContainerState
<1>3. NoState = [waiting |-> <<>>, running |-> <<>>, terminated |-> <<>>]
  BY DEF NoState
<1>4. NoState \in StoredContainerState
  <2> HIDE DEF W, R, E
  <2> QED
    BY <1>1, <1>2, <1>3
<1>5. ASSUME NEW reason \in STRING
      PROVE  Waiting(reason) \in StoredContainerState /\ Waiting(reason).terminated = <<>>
  <2> DEFINE w == [reason |-> reason]
             x == <<w>>
  <2>1. w \in W
    OBVIOUS
  <2>2. x \in Pointer(W)
    BY <1>1, <2>1, Zenon
  <2>3. Waiting(reason) = [waiting |-> x, running |-> <<>>, terminated |-> <<>>]
    BY <1>3 DEF Waiting
  <2> HIDE DEF W, R, E, x
  <2> QED
    BY <1>1, <1>2, <2>2, <2>3
<1>6. ASSUME NEW t \in Time
      PROVE  /\ [NoState EXCEPT !.running = <<[startedAt |-> t]>>] \in StoredContainerState
             /\ [NoState EXCEPT !.running = <<[startedAt |-> t]>>].waiting = <<>>
  <2> DEFINE r == [startedAt |-> t]
             x == <<r>>
             s == [NoState EXCEPT !.running = x]
  <2>1. r \in R
    OBVIOUS
  <2>2. x \in Pointer(R)
    BY <1>1, <2>1, Zenon
  <2>3. s = [waiting |-> <<>>, running |-> x, terminated |-> <<>>]
    BY <1>3
  <2> HIDE DEF W, R, E, x, s
  <2>4. s \in StoredContainerState /\ s.waiting = <<>>
    BY <1>1, <1>2, <2>2, <2>3
  <2> QED
    BY <2>4 DEF s, x
<1>7. ASSUME NEW e \in E
      PROVE  /\ [NoState EXCEPT !.terminated = <<e>>] \in StoredContainerState
             /\ [NoState EXCEPT !.terminated = <<e>>].waiting = <<>>
  <2> DEFINE x == <<e>>
             s == [NoState EXCEPT !.terminated = x]
  <2>1. x \in Pointer(E)
    BY <1>1, Zenon
  <2>2. s = [waiting |-> <<>>, running |-> <<>>, terminated |-> x]
    BY <1>3
  <2> HIDE DEF W, R, E, x, s
  <2>3. s \in StoredContainerState /\ s.waiting = <<>>
    BY <1>1, <1>2, <2>1, <2>2
  <2> QED
    BY <2>3 DEF s, x
<1> QED
  BY <1>4, <1>5, <1>6, <1>7

LEMMA NewContainerStatusType ==
  ASSUME NEW c \in StoredContainer
  PROVE  /\ NewContainerStatus(c) \in StoredContainerStatus
         /\ NewContainerStatus(c).state.terminated = <<>>
<1> DEFINE w == Waiting("PodInitializing")
<1>1. w \in StoredContainerState /\ w.terminated = <<>> /\ NoState \in StoredContainerState
  <2>1. "PodInitializing" \in Texts
    BY DEF Texts
  <2>2. "PodInitializing" \in STRING
    BY <2>1, TextIs, Zenon
  <2> QED
    BY <2>2, StatesType
<1>2. c.name \in STRING
  BY DEF StoredContainer
<1>3. NewContainerStatus(c) =
        [name |-> c.name, state |-> w, last |-> NoState, restarts |-> 0, started |-> <<>>]
  BY DEF NewContainerStatus
<1>4. <<>> \in Pointer(BOOLEAN)
  BY PointerOf
<1> HIDE DEF w
<1> QED
  BY <1>1, <1>2, <1>3, <1>4 DEF StoredContainerStatus

\* A pod and the status of one of its containers.
LEMMA StatusOf ==
  ASSUME ObjectsOK, PodsInv, NEW p \in DOMAIN pods, NEW kind \in Kinds,
         NEW i \in DOMAIN pods[p].statuses[kind]
  PROVE  /\ pods[p] \in StoredPod /\ PodInv(pods[p])
         /\ pods[p] = [spec |-> pods[p].spec, phase |-> pods[p].phase,
                       startTime |-> pods[p].startTime, statuses |-> pods[p].statuses]
         /\ pods[p].statuses \in [Kinds -> Seq(StoredContainerStatus)]
         /\ pods[p].statuses[kind][i] \in StoredContainerStatus
<1>1. pods[p] \in StoredPod
  BY DEF ObjectsOK
<1>2. PodInv(pods[p])
  BY DEF PodsInv
<1>3. /\ pods[p].statuses \in [Kinds -> Seq(StoredContainerStatus)]
      /\ pods[p] = [spec |-> pods[p].spec, phase |-> pods[p].phase,
                    startTime |-> pods[p].startTime, statuses |-> pods[p].statuses]
  BY <1>1 DEF StoredPod
<1>4. pods[p].statuses[kind] \in Seq(StoredContainerStatus)
  BY <1>3
<1>5. pods[p].statuses[kind][i] \in StoredContainerStatus
  BY <1>4
<1> QED
  BY <1>1, <1>2, <1>3, <1>5

\* A step that changes the state of one container only.
LEMMA StateStep ==
  ASSUME ObjectsOK, PodsInv, NEW p \in DOMAIN pods, NEW kind \in Kinds,
         NEW i \in DOMAIN pods[p].statuses[kind],
         NEW state \in StoredContainerState, state.waiting = <<>> \/ state.terminated = <<>>,
         pods' = [pods EXCEPT ![p].statuses[kind][i].state = state]
  PROVE  pods' \in Seq(StoredPod) /\ PodsInv'
<1> DEFINE pod == pods[p]
           old == pod.statuses[kind][i]
           cs == [old EXCEPT !.state = state]
           pod2 == Changed(pod, kind, i, pod.phase, cs)
<1>1. /\ pod \in StoredPod /\ PodInv(pod) /\ old \in StoredContainerStatus
      /\ pod = [spec |-> pod.spec, phase |-> pod.phase, startTime |-> pod.startTime,
                statuses |-> pod.statuses]
  BY StatusOf
<1>2. pods' = [pods EXCEPT ![p] = [pod EXCEPT !.statuses =
                 [pod.statuses EXCEPT ![kind] = [pod.statuses[kind] EXCEPT ![i] = cs]]]]
  OBVIOUS
<1> HIDE DEF pod
<1>3. pods' = [pods EXCEPT ![p] = pod2]
  BY <1>1, <1>2 DEF Changed
<1> HIDE DEF old
<1>4. cs \in StoredContainerStatus /\ cs.state = state
  BY <1>1 DEF StoredContainerStatus
<1> HIDE DEF cs
<1>5. pod.phase \in STRING
  BY <1>1, PodTypes
<1>6. pod2 \in StoredPod /\ PodInv(pod2)
  BY <1>1, <1>4, <1>5, StatusChange DEF pod
<1> QED
  BY <1>3, <1>6, PodChange

LEMMA RefuseContainerStep ==
  ASSUME ObjectsOK, PodsInv, NEW p \in DOMAIN pods, NEW kind \in Kinds,
         NEW i \in DOMAIN pods[p].statuses[kind], RefuseContainer(p, kind, i)
  PROVE  pods' \in Seq(StoredPod) /\ PodsInv'
<1> DEFINE state == Waiting("CreateContainerConfigError")
<1>1. state \in StoredContainerState /\ state.terminated = <<>>
  <2>1. "CreateContainerConfigError" \in Texts
    BY DEF Texts
  <2>2. "CreateContainerConfigError" \in STRING
    BY <2>1, TextIs, Zenon
  <2> QED
    BY <2>2, StatesType
<1>2. pods' = [pods EXCEPT ![p].statuses[kind][i].state = state]
  BY DEF RefuseContainer
<1> HIDE DEF state
<1> QED
  BY <1>1, <1>2, StateStep

LEMMA EndContainerStep ==
  ASSUME ObjectsOK, PodsInv, NEW p \in DOMAIN pods, NEW kind \in Kinds,
         NEW i \in DOMAIN pods[p].statuses[kind],
         NEW reason \in {"Completed", "Error", "OOMKilled"}, EndContainer(p, kind, i, reason)
  PROVE  pods' \in Seq(StoredPod) /\ PodsInv'
<1> DEFINE cs == pods[p].statuses[kind][i]
           e == [reason |-> reason, startedAt |-> cs.state.running[1].startedAt,
                 finishedAt |-> now]
           state == [NoState EXCEPT !.terminated = <<e>>]
<1>1. cs \in StoredContainerStatus
  BY StatusOf
<1>2. cs.state.running # <<>>
  BY DEF EndContainer, IsRunning
<1>3. pods' = [pods EXCEPT ![p].statuses[kind][i].state = state]
  BY DEF EndContainer
<1> HIDE DEF cs
<1>4. cs.state.running[1] \in [startedAt : Time]
  BY <1>1, <1>2, StateFields, PointerCases, Zenon
<1>5. cs.state.running[1].startedAt \in Time /\ now \in Time
  BY <1>4, BoundsAssumption DEF ObjectsOK, Time
<1>6. reason \in STRING
  <2>1. reason \in Texts
    BY DEF Texts
  <2> QED
    BY <2>1, TextIs
<1>7. e \in [reason : STRING, startedAt : Time, finishedAt : Time]
  BY <1>5, <1>6
<1> HIDE DEF e
<1>8. state \in StoredContainerState /\ state.waiting = <<>>
  BY <1>7, StatesType
<1> HIDE DEF state
<1> QED
  BY <1>3, <1>8, StateStep

LEMMA StartContainerStep ==
  ASSUME ObjectsOK, PodsInv, NEW p \in DOMAIN pods, NEW kind \in Kinds,
         NEW i \in DOMAIN pods[p].statuses[kind], StartContainer(p, kind, i)
  PROVE  pods' \in Seq(StoredPod) /\ PodsInv'
<1> DEFINE pod == pods[p]
           old == pod.statuses[kind][i]
           state == [NoState EXCEPT !.running = <<[startedAt |-> now]>>]
           started == <<TRUE>>
           phase == IF kind = "main" THEN "Running" ELSE pod.phase
           cs == [[old EXCEPT !.started = started] EXCEPT !.state = state]
           pod2 == Changed(pod, kind, i, phase, cs)
<1>1. /\ pod \in StoredPod /\ PodInv(pod) /\ old \in StoredContainerStatus
      /\ pod = [spec |-> pod.spec, phase |-> pod.phase, startTime |-> pod.startTime,
                statuses |-> pod.statuses]
      /\ pod.statuses \in [Kinds -> Seq(StoredContainerStatus)]
  BY StatusOf
<1>2. state \in StoredContainerState /\ state.waiting = <<>>
  <2>1. now \in Time
    BY BoundsAssumption DEF ObjectsOK, Time
  <2> QED
    BY <2>1, StatesType
<1>3. started \in Pointer(BOOLEAN)
  BY PointerOf
<1>4. phase \in STRING
  <2>1. "Running" \in Texts
    BY DEF Texts
  <2>2. "Running" \in STRING
    BY <2>1, TextIs, Zenon
  <2> QED
    BY <1>1, <2>2, PodTypes
<1>5. pods' = [pods EXCEPT ![p] = [pod EXCEPT !.phase = phase, !.statuses[kind][i] = cs]]
  BY DEF StartContainer
<1> HIDE DEF state, started, phase, cs, pod
<1>6. [pod EXCEPT !.phase = phase, !.statuses[kind][i] = cs] = pod2
  <2> DEFINE q == [pod EXCEPT !.phase = phase]
  <2>1. q = [spec |-> pod.spec, phase |-> phase, startTime |-> pod.startTime,
             statuses |-> pod.statuses]
    BY <1>1
  <2> HIDE DEF q
  <2>2. [q EXCEPT !.statuses[kind][i] = cs] = pod2
    BY <2>1 DEF Changed
  <2> QED
    BY <2>2 DEF q
<1>7. pods' = [pods EXCEPT ![p] = pod2]
  BY <1>5, <1>6 DEF pod
<1> HIDE DEF old
<1>8. cs \in StoredContainerStatus /\ cs.state = state
  BY <1>1, <1>2, <1>3 DEF StoredContainerStatus, cs
<1>9. pod2 \in StoredPod /\ PodInv(pod2)
  BY <1>1, <1>2, <1>4, <1>8, StatusChange DEF pod
<1> HIDE DEF pod2
<1> QED
  BY <1>7, <1>9, PodChange

LEMMA RestartContainerStep ==
  ASSUME ObjectsOK, PodsInv, NEW p \in DOMAIN pods, NEW kind \in Kinds,
         NEW i \in DOMAIN pods[p].statuses[kind], RestartContainer(p, kind, i)
  PROVE  pods' \in Seq(StoredPod) /\ PodsInv'
<1> DEFINE pod == pods[p]
           old == pod.statuses[kind][i]
           state == Waiting("CrashLoopBackOff")
           started == <<FALSE>>
           cs == [old EXCEPT !.last = old.state, !.state = state,
                             !.restarts = old.restarts + 1, !.started = started]
           pod2 == Changed(pod, kind, i, pod.phase, cs)
<1>1. /\ pod \in StoredPod /\ PodInv(pod) /\ old \in StoredContainerStatus
      /\ pod = [spec |-> pod.spec, phase |-> pod.phase, startTime |-> pod.startTime,
                statuses |-> pod.statuses]
  BY StatusOf
<1>2. state \in StoredContainerState /\ state.terminated = <<>>
  <2>1. "CrashLoopBackOff" \in Texts
    BY DEF Texts
  <2>2. "CrashLoopBackOff" \in STRING
    BY <2>1, TextIs, Zenon
  <2> QED
    BY <2>2, StatesType
<1>3. started \in Pointer(BOOLEAN)
  BY PointerOf
<1>4. pods' = [pods EXCEPT ![p] = [pod EXCEPT !.statuses[kind][i] = cs]]
  BY DEF RestartContainer
<1> HIDE DEF state, started, cs, pod
<1>5. [pod EXCEPT !.statuses[kind][i] = cs] = pod2
  BY <1>1 DEF Changed
<1>6. pods' = [pods EXCEPT ![p] = pod2]
  BY <1>4, <1>5 DEF pod
<1> HIDE DEF old
<1>7. cs \in StoredContainerStatus /\ cs.state = state
  <2> DEFINE restarts == old.restarts + 1
  <2>1. /\ old.name \in STRING /\ old.state \in StoredContainerState
        /\ restarts \in Nat
        /\ old = [name |-> old.name, state |-> old.state, last |-> old.last,
                  restarts |-> old.restarts, started |-> old.started]
    BY <1>1 DEF StoredContainerStatus
  <2>2. cs = [old EXCEPT !.last = old.state, !.state = state, !.restarts = restarts,
                         !.started = started]
    BY DEF cs
  <2> HIDE DEF restarts
  <2>3. cs = [name |-> old.name, state |-> state, last |-> old.state,
              restarts |-> restarts, started |-> started]
    BY <2>1, <2>2
  <2> QED
    BY <1>2, <1>3, <2>1, <2>3 DEF StoredContainerStatus
<1>8. pod.phase \in STRING
  BY <1>1, PodTypes
<1>9. pod2 \in StoredPod /\ PodInv(pod2)
  BY <1>1, <1>2, <1>7, <1>8, StatusChange DEF pod
<1> HIDE DEF pod2
<1> QED
  BY <1>6, <1>9, PodChange

\* New statuses for a sequence of containers.
LEMMA NewStatuses ==
  ASSUME NEW s \in Seq(StoredContainer)
  PROVE  /\ Each(NewContainerStatus, s) \in Seq(StoredContainerStatus)
         /\ \A i \in DOMAIN Each(NewContainerStatus, s) :
               Each(NewContainerStatus, s)[i].state.terminated = <<>>
<1> DEFINE f == Each(NewContainerStatus, s)
<1>1. /\ f = [i \in DOMAIN s |-> f[i]] /\ DOMAIN f = DOMAIN s
      /\ \A i \in DOMAIN s : f[i] = NewContainerStatus(s[i])
  BY DEF Each
<1> HIDE DEF f
<1>2. \A i \in DOMAIN s : s[i] \in StoredContainer
  OBVIOUS
<1>3. \A i \in DOMAIN s : f[i] \in StoredContainerStatus /\ f[i].state.terminated = <<>>
  BY <1>1, <1>2, NewContainerStatusType
<1>4. f \in Seq(StoredContainerStatus)
  BY <1>1, <1>3, SeqMap
<1> QED
  BY <1>1, <1>3, <1>4 DEF f

LEMMA AckPodStep ==
  ASSUME ObjectsOK, PodsInv, NEW p \in DOMAIN pods, AckPod(p)
  PROVE  pods' \in Seq(StoredPod) /\ PodsInv'
<1> DEFINE pod == pods[p]
           start == <<now>>
           t == [kind \in Kinds |-> Each(NewContainerStatus, pod.spec.containers[kind])]
           pod2 == [pod EXCEPT !.startTime = start, !.statuses = t]
<1>1. pod \in StoredPod
  BY DEF ObjectsOK
<1>2. pods' = [pods EXCEPT ![p] = pod2]
  BY DEF AckPod
<1>3. start \in Timestamp /\ start # <<>>
  <2>1. now \in Time
    BY BoundsAssumption DEF ObjectsOK, Time
  <2> QED
    BY <2>1, TimeToStringType
<1>4. \A kind \in Kinds : pod.spec.containers[kind] \in Seq(StoredContainer)
  <2>1. pod.spec \in StoredPodSpec
    BY <1>1, PodTypes
  <2> QED
    BY <2>1 DEF StoredPodSpec
<1> HIDE DEF pod
<1>5. /\ t \in [Kinds -> Seq(StoredContainerStatus)]
      /\ \A kind \in Kinds : \A i \in DOMAIN t[kind] : t[kind][i].state.terminated = <<>>
  BY <1>4, NewStatuses
<1> HIDE DEF start, t
<1>6. /\ pod2 \in StoredPod /\ pod2.startTime = start /\ pod2.statuses = t
  BY <1>1, <1>3, <1>5 DEF StoredPod
<1> HIDE DEF pod2
<1>7. PodInv(pod2)
  BY <1>3, <1>5, <1>6 DEF PodInv
<1> QED
  BY <1>2, <1>6, <1>7, PodChange

LEMMA DebugStep ==
  ASSUME ObjectsOK, PodsInv, NEW p \in DOMAIN pods, NEW c \in Debuggers, Debug(p, c)
  PROVE  pods' \in Seq(StoredPod) /\ PodsInv'
<1> DEFINE pod == pods[p]
           cs == <<c>>
           new == <<NewContainerStatus(c)>>
           pod2 == [pod EXCEPT !.spec.containers["ephemeral"] = cs, !.statuses["ephemeral"] = new]
<1>1. pod \in StoredPod /\ PodInv(pod) /\ pod.phase = "Running"
  BY DEF ObjectsOK, PodsInv, Debug
<1>2. pods' = [pods EXCEPT ![p] = pod2]
  BY DEF Debug
<1>3. c \in StoredContainer
  BY ObjectsAssumption
<1>4. /\ cs \in Seq(StoredContainer)
      /\ new \in Seq(StoredContainerStatus)
      /\ \A i \in DOMAIN new : new[i].state.terminated = <<>>
  BY <1>3, NewContainerStatusType
<1> HIDE DEF pod, cs, new
<1> DEFINE spec == [pod.spec EXCEPT !.containers["ephemeral"] = cs]
           t == [pod.statuses EXCEPT !["ephemeral"] = new]
<1>5. spec \in StoredPodSpec
  <2>1. pod.spec \in StoredPodSpec
    BY <1>1, PodTypes
  <2> QED
    BY <1>4, <2>1 DEF StoredPodSpec
<1>6. /\ t \in [Kinds -> Seq(StoredContainerStatus)]
      /\ t["ephemeral"] = new
      /\ \A kind \in Kinds : kind # "ephemeral" => t[kind] = pod.statuses[kind]
  <2>1. pod.statuses \in [Kinds -> Seq(StoredContainerStatus)]
    BY <1>1 DEF StoredPod
  <2> QED
    BY <1>4, <2>1 DEF Kinds
<1>7. /\ pod.phase \in STRING /\ pod.startTime \in Timestamp
      /\ pod2 = [spec |-> spec, phase |-> pod.phase, startTime |-> pod.startTime, statuses |-> t]
  <2>1. /\ pod.phase \in STRING /\ pod.startTime \in Timestamp
        /\ pod = [spec |-> pod.spec, phase |-> pod.phase, startTime |-> pod.startTime,
                  statuses |-> pod.statuses]
    BY <1>1 DEF StoredPod
  <2> DEFINE q == [pod EXCEPT !.spec = spec]
  <2>2. q = [spec |-> spec, phase |-> pod.phase, startTime |-> pod.startTime,
             statuses |-> pod.statuses]
    BY <2>1
  <2>3. pod2 = [q EXCEPT !.statuses["ephemeral"] = new]
    OBVIOUS
  <2> HIDE DEF q, spec
  <2> QED
    BY <2>1, <2>2, <2>3
<1> HIDE DEF spec, t, pod2
<1>8. pod2 \in StoredPod
  BY <1>5, <1>6, <1>7 DEF StoredPod
<1>9. pod.startTime # <<>>
  BY <1>1 DEF PodInv
<1>10. ASSUME NEW kind \in Kinds, NEW i \in DOMAIN t[kind]
       PROVE  t[kind][i].state.waiting = <<>> \/ t[kind][i].state.terminated = <<>>
  <2>1. CASE kind = "ephemeral"
    BY <1>4, <1>6, <1>10, <2>1
  <2>2. CASE kind # "ephemeral"
    BY <1>1, <1>6, <1>10, <2>2 DEF PodInv
  <2> QED
    BY <2>1, <2>2
<1>11. PodInv(pod2)
  BY <1>7, <1>9, <1>10 DEF PodInv
<1> QED
  BY <1>2, <1>8, <1>11, PodChange

LEMMA EndPodStep ==
  ASSUME ObjectsOK, PodsInv, NEW p \in DOMAIN pods, EndPod(p)
  PROVE  pods' \in Seq(StoredPod) /\ PodsInv'
<1> DEFINE pod == pods[p]
           main == pod.statuses["main"]
           phase == IF \A i \in DOMAIN main : Completed(main[i]) THEN "Succeeded" ELSE "Failed"
           pod2 == [pod EXCEPT !.phase = phase]
<1>1. pod \in StoredPod /\ PodInv(pod)
  BY DEF ObjectsOK, PodsInv
<1>2. pods' = [pods EXCEPT ![p] = pod2] /\ main # <<>>
  BY DEF EndPod
<1>3. phase \in STRING
  <2>1. "Succeeded" \in Texts /\ "Failed" \in Texts
    BY DEF Texts
  <2>2. "Succeeded" \in STRING /\ "Failed" \in STRING
    BY <2>1, TextIs, Zenon
  <2> QED
    BY <2>2
<1> HIDE DEF pod, phase
<1>4. /\ pod2 \in StoredPod
      /\ pod2.startTime = pod.startTime /\ pod2.statuses = pod.statuses
  BY <1>1, <1>3 DEF StoredPod
<1> HIDE DEF pod2
<1>5. pod.startTime # <<>>
  BY <1>1, <1>2 DEF PodInv, Kinds
<1>6. PodInv(pod2)
  BY <1>1, <1>4, <1>5 DEF PodInv
<1> QED
  BY <1>2, <1>4, <1>6, PodChange

LEMMA CreatePodStep ==
  ASSUME ObjectsOK, PodsInv, CreatePod
  PROVE  pods' \in Seq(StoredPod) /\ PodsInv'
<1> DEFINE start == <<>>
           t == [kind \in Kinds |-> <<>>]
           pod == [spec |-> job.template, phase |-> "Pending", startTime |-> start, statuses |-> t]
<1>1. pods \in Seq(StoredPod) /\ \A p \in DOMAIN pods : PodInv(pods[p])
  BY DEF ObjectsOK, PodsInv
<1>2. pods' = Append(pods, pod)
  BY DEF CreatePod
<1>3. "Pending" \in STRING
  <2>1. "Pending" \in Texts
    BY DEF Texts
  <2> QED
    BY <2>1, TextIs, Zenon
<1>4. job.template \in StoredPodSpec /\ start \in Timestamp
  BY PointerOf DEF ObjectsOK, StoredJob, Timestamp
<1>5. t \in [Kinds -> Seq(StoredContainerStatus)] /\ \A kind \in Kinds : t[kind] = <<>>
  OBVIOUS
<1> HIDE DEF start, t
<1>6. pod \in StoredPod
  BY <1>3, <1>4, <1>5 DEF StoredPod
<1>7. PodInv(pod)
  <2>1. \A kind \in Kinds : DOMAIN t[kind] = {}
    BY <1>5
  <2> QED
    BY <1>5, <2>1 DEF PodInv
<1> HIDE DEF pod
<1>8. pods' \in Seq(StoredPod)
  BY <1>1, <1>2, <1>6
<1>9. \A p \in DOMAIN pods' : PodInv(pods'[p])
  BY <1>1, <1>2, <1>6, <1>7
<1> QED
  BY <1>8, <1>9 DEF PodsInv, PodInv

LEMMA SuspendJobPods ==
  ASSUME ObjectsOK, PodsInv, NEW time, SuspendJob(time)
  PROVE  pods' \in Seq(StoredPod) /\ PodsInv'
<1> DEFINE P == {p \in DOMAIN pods : pods[p].phase \in {"Succeeded", "Failed"}}
<1>1. pods \in Seq(StoredPod) /\ \A p \in DOMAIN pods : PodInv(pods[p])
  BY DEF ObjectsOK, PodsInv
<1>2. pods' = At(pods, P)
  BY DEF SuspendJob, Where
<1>3. P \in SUBSET DOMAIN pods
  OBVIOUS
<1> HIDE DEF P
<1>4. /\ pods' \in Seq(StoredPod)
      /\ \A k \in DOMAIN pods' : \E p \in P : pods'[k] = pods[p]
  BY <1>1, <1>2, <1>3, AtProperties
<1>5. \A k \in DOMAIN pods' : PodInv(pods'[k])
  BY <1>1, <1>3, <1>4
<1> QED
  BY <1>4, <1>5 DEF PodsInv, PodInv

(***************************************************************************)
(* The steps of the job.                                                   *)
(***************************************************************************)

LEMMA JobTypes ==
  ASSUME ObjectsOK
  PROVE  /\ job \in StoredJob /\ job.spec \in StoredJobSpec /\ job.status \in StoredJobStatus
         /\ job.status.conditions \in Seq(StoredCondition)
         /\ job.status.startTime \in Timestamp /\ job.status.completionTime \in Timestamp
         /\ job.status.active \in Nat /\ job.status.succeeded \in Nat
         /\ job.status.failed \in Nat
         /\ now \in Time /\ now \in Nat /\ <<now>> \in Timestamp
<1>1. /\ job \in StoredJob /\ job.spec \in StoredJobSpec /\ job.status \in StoredJobStatus
      /\ now \in Time /\ now \in Nat
  BY BoundsAssumption DEF ObjectsOK, StoredJob, Time
<1> QED
  BY <1>1, TimeToStringType DEF StoredJobStatus

\* A new status of a job.
LEMMA JobWith ==
  ASSUME NEW j \in StoredJob, NEW status \in StoredJobStatus
  PROVE  [j EXCEPT !.status = status] \in StoredJob
  BY DEF StoredJob

LEMMA ConditionType ==
  ASSUME NEW type \in Texts, NEW status \in Texts, NEW time \in Time
  PROVE  /\ Condition(type, status, time) \in StoredCondition
         /\ Condition(type, status, time).type = type
         /\ Condition(type, status, time).status = status
         /\ Condition(type, status, time).lastTransitionTime = time
<1>1. type \in STRING /\ status \in STRING
  BY TextIs
<1> QED
  BY <1>1 DEF Condition, StoredCondition

\* What ended a job came after its start, and is over.
LEMMA SinceIs ==
  ASSUME ObjectsOK, NEW time \in Since
  PROVE  /\ time \in Time /\ time <= now
         /\ job.status.startTime # <<>> => job.status.startTime[1] <= time
<1>1. job.created \in Time /\ now \in Nat
  BY JobTypes DEF StoredJob
<1> QED
  BY <1>1 DEF Since, Started, Time

\* The counts of a job change, not its times and conditions.
SameTimes(old, status) ==
    /\ status.startTime = old.startTime /\ status.completionTime = old.completionTime
    /\ status.conditions = old.conditions

LEMMA CountsChange ==
  ASSUME NEW status \in StoredJobStatus, NEW old \in StoredJobStatus, SameTimes(old, status),
         NEW t \in Nat, NEW u \in Nat, t <= u, JobStatusInv(old, t)
  PROVE  JobStatusInv(status, u)
<1>1. old.startTime = <<>> \/ old.startTime[1] \in Nat
  BY PointerCases DEF StoredJobStatus, Timestamp, Time
<1>2. old.startTime # <<>> => old.startTime[1] <= u
  BY <1>1 DEF JobStatusInv
<1> QED
  BY <1>2, Zenon DEF JobStatusInv, SameTimes

\* A condition is added, which is not Complete.
LEMMA ConditionAdded ==
  ASSUME ObjectsOK, JobInv, NEW type \in {"FailureTarget", "Failed"}, NEW time \in Since,
         job.status.startTime # <<>>,
         job' = [job EXCEPT !.status.conditions =
                    Append(job.status.conditions, Condition(type, "True", time))]
  PROVE  /\ job' \in StoredJob /\ JobStatusInv(job'.status, now)
         /\ job'.status.startTime = job.status.startTime
         /\ job'.status.completionTime = job.status.completionTime
         /\ job'.status.conditions = Append(job.status.conditions, Condition(type, "True", time))
<1> DEFINE s == job.status
           c == Condition(type, "True", time)
           t == Append(s.conditions, c)
           s2 == [s EXCEPT !.conditions = t]
<1>1. /\ c \in StoredCondition /\ c.type = type /\ c.status = "True"
      /\ c.lastTransitionTime = time
  <2>1. type \in Texts /\ "True" \in Texts
    BY DEF Texts
  <2> QED
    BY <2>1, ConditionType, SinceIs
<1>2. s.conditions \in Seq(StoredCondition) /\ s \in StoredJobStatus /\ job \in StoredJob
  BY JobTypes
<1>3. job' = [job EXCEPT !.status = s2]
  OBVIOUS
<1>4. JobStatusInv(s, now) /\ s.startTime # <<>>
  BY DEF JobInv
<1> HIDE DEF s, c
<1>5. /\ t \in Seq(StoredCondition)
      /\ DOMAIN t = 1..(Len(s.conditions) + 1) /\ DOMAIN s.conditions = 1..Len(s.conditions)
      /\ Len(s.conditions) \in Nat
      /\ \A i \in DOMAIN s.conditions : t[i] = s.conditions[i]
      /\ t[Len(s.conditions) + 1] = c
  BY <1>1, <1>2
<1> HIDE DEF t
<1>6. /\ s2 \in StoredJobStatus
      /\ s2.startTime = s.startTime /\ s2.completionTime = s.completionTime
      /\ s2.conditions = t
  BY <1>2, <1>5 DEF StoredJobStatus
<1> HIDE DEF s2
<1>7. job' \in StoredJob /\ job'.status = s2
  <2>1. job' \in StoredJob
    BY <1>2, <1>3, <1>6, JobWith
  <2>2. job'.status = s2
    BY <1>2, <1>3 DEF StoredJob
  <2> QED
    BY <2>1, <2>2
<1>8. (\E i \in DOMAIN t : t[i].type = "Complete")
        = (\E i \in DOMAIN s.conditions : s.conditions[i].type = "Complete")
  <2>1. \A i \in DOMAIN t : i \in DOMAIN s.conditions \/ i = Len(s.conditions) + 1
    BY <1>5
  <2>2. \A i \in DOMAIN s.conditions : i \in DOMAIN t
    BY <1>5
  <2>3. c.type # "Complete"
    BY <1>1
  <2> QED
    BY <1>5, <2>1, <2>2, <2>3
<1>9. s.startTime[1] <= now /\ s.startTime[1] <= time
  <2>1. s.startTime[1] <= time
    BY <1>4, SinceIs DEF s
  <2> QED
    BY <1>4, <2>1 DEF JobStatusInv
<1>10. ASSUME NEW i \in DOMAIN t, t[i].type \in {"Complete", "FailureTarget", "Failed"}
       PROVE  t[i].status = "True" /\ s.startTime[1] <= t[i].lastTransitionTime
  <2>1. CASE i \in DOMAIN s.conditions
    BY <1>4, <1>5, <1>10, <2>1 DEF JobStatusInv
  <2>2. CASE i = Len(s.conditions) + 1
    BY <1>1, <1>5, <1>9, <2>2
  <2> QED
    BY <1>5, <2>1, <2>2
<1>11. JobStatusInv(s2, now)
  BY <1>4, <1>6, <1>8, <1>9, <1>10 DEF JobStatusInv
<1> QED
  BY <1>6, <1>7, <1>11 DEF t, s, c

LEMMA CompleteJobStep ==
  ASSUME ObjectsOK, JobInv, NEW time \in Since, CompleteJob(time)
  PROVE  /\ job' \in StoredJob /\ JobStatusInv(job'.status, now)
         /\ job'.status.startTime = job.status.startTime
         /\ job'.status.completionTime = <<time>>
         /\ job'.status.conditions = Append(job.status.conditions, Condition("Complete", "True", time))
<1> DEFINE s == job.status
           c == Condition("Complete", "True", time)
           t == Append(s.conditions, c)
           end == <<time>>
           s2 == [s EXCEPT !.completionTime = end, !.conditions = t]
<1>1. /\ c \in StoredCondition /\ c.type = "Complete" /\ c.status = "True"
      /\ c.lastTransitionTime = time
  <2>1. "Complete" \in Texts /\ "True" \in Texts
    BY DEF Texts
  <2> QED
    BY <2>1, ConditionType, SinceIs
<1>2. s.conditions \in Seq(StoredCondition) /\ s \in StoredJobStatus /\ job \in StoredJob
  BY JobTypes
<1>3. job' = [job EXCEPT !.status = s2]
  <2>1. job' = [job EXCEPT !.status.completionTime = end, !.status.conditions = t]
    BY <1>2 DEF CompleteJob, StoredJob, StoredJobStatus
  <2> HIDE DEF end, t
  <2> DEFINE q == [job EXCEPT !.status.completionTime = end]
  <2>2. q = [job EXCEPT !.status = [s EXCEPT !.completionTime = end]]
    OBVIOUS
  <2>3. job' = [q EXCEPT !.status.conditions = t]
    BY <2>1
  <2> DEFINE r == [s EXCEPT !.completionTime = end]
  <2>4. q.status = r
    BY <1>2, <2>2 DEF StoredJob
  <2>5. q = [job EXCEPT !.status = r]
    BY <2>2
  <2> HIDE DEF q, r
  <2>6. job' = [q EXCEPT !.status = [r EXCEPT !.conditions = t]]
    BY <2>3, <2>4
  <2>7. job' = [job EXCEPT !.status = [r EXCEPT !.conditions = t]]
    BY <1>2, <2>5, <2>6 DEF StoredJob
  <2> QED
    BY <2>7 DEF r
<1>4. JobStatusInv(s, now) /\ s.startTime # <<>>
  BY DEF JobInv, CompleteJob, Started
<1>5. end \in Timestamp /\ end # <<>> /\ end[1] = time
  BY SinceIs, PointerOf DEF Timestamp
<1> HIDE DEF s, c, end
<1>6. /\ t \in Seq(StoredCondition)
      /\ DOMAIN t = 1..(Len(s.conditions) + 1) /\ DOMAIN s.conditions = 1..Len(s.conditions)
      /\ Len(s.conditions) \in Nat
      /\ \A i \in DOMAIN s.conditions : t[i] = s.conditions[i]
      /\ t[Len(s.conditions) + 1] = c
  BY <1>1, <1>2
<1> HIDE DEF t
<1>7. /\ s2 \in StoredJobStatus
      /\ s2.startTime = s.startTime /\ s2.completionTime = end
      /\ s2.conditions = t
  BY <1>2, <1>5, <1>6 DEF StoredJobStatus
<1> HIDE DEF s2
<1>8. job' \in StoredJob /\ job'.status = s2
  <2>1. job' \in StoredJob
    BY <1>2, <1>3, <1>7, JobWith
  <2>2. job'.status = s2
    BY <1>2, <1>3 DEF StoredJob
  <2> QED
    BY <2>1, <2>2
<1>9. s.startTime[1] <= now /\ s.startTime[1] <= time
  <2>1. s.startTime[1] <= time
    BY <1>4, SinceIs DEF s
  <2> QED
    BY <1>4, <2>1 DEF JobStatusInv
<1>10. \E i \in DOMAIN t : t[i].type = "Complete"
  <2>1. Len(s.conditions) + 1 \in DOMAIN t
    BY <1>6
  <2> QED
    BY <1>1, <1>6, <2>1
<1>11. ASSUME NEW i \in DOMAIN t, t[i].type \in {"Complete", "FailureTarget", "Failed"}
       PROVE  t[i].status = "True" /\ s.startTime[1] <= t[i].lastTransitionTime
  <2>1. CASE i \in DOMAIN s.conditions
    BY <1>4, <1>6, <1>11, <2>1 DEF JobStatusInv
  <2>2. CASE i = Len(s.conditions) + 1
    BY <1>1, <1>6, <1>9, <2>2
  <2> QED
    BY <1>6, <2>1, <2>2
<1>12. JobStatusInv(s2, now)
  BY <1>4, <1>5, <1>7, <1>9, <1>10, <1>11 DEF JobStatusInv
<1> QED
  BY <1>7, <1>8, <1>12 DEF t, s, c, end

\* The conditions are Suspended or none, so the job had not ended.
LEMMA StartJobStep ==
  ASSUME ObjectsOK, JobInv, NEW time \in Since, StartJob(time)
  PROVE  /\ job' \in StoredJob /\ JobStatusInv(job'.status, now)
         /\ job'.status.startTime # job.status.startTime
<1> DEFINE s == job.status
           old == s.conditions
           c == Condition("Suspended", "False", time)
           t == Each(LAMBDA d : IF d.type = "Suspended" THEN Condition(d.type, "False", time) ELSE d, old)
           start == <<time>>
           no == <<FALSE>>
           spec2 == [job.spec EXCEPT !.suspend = no]
           s2 == [s EXCEPT !.startTime = start, !.conditions = t]
<1>1. /\ c \in StoredCondition /\ c.type = "Suspended"
  <2>1. "Suspended" \in Texts /\ "False" \in Texts
    BY DEF Texts
  <2> QED
    BY <2>1, ConditionType, SinceIs
<1>2. /\ old \in Seq(StoredCondition) /\ s \in StoredJobStatus /\ job \in StoredJob
      /\ job.spec \in StoredJobSpec
  BY JobTypes
<1>3. /\ t = [i \in DOMAIN old |-> t[i]] /\ DOMAIN t = DOMAIN old
      /\ \A i \in DOMAIN old : t[i] = IF old[i].type = "Suspended" THEN c ELSE old[i]
  BY DEF Each
<1>4. JobStatusInv(s, now) /\ s.startTime = <<>>
  BY DEF JobInv, StartJob, Started
<1>5. start \in Timestamp /\ start # <<>> /\ start[1] <= now
  BY SinceIs, PointerOf DEF Timestamp
<1>6. spec2 \in StoredJobSpec
  <2>1. no \in Pointer(BOOLEAN)
    BY PointerOf
  <2> HIDE DEF no
  <2> QED
    BY <1>2, <2>1 DEF StoredJobSpec
<1>7. job' = [created |-> job.created, template |-> job.template, spec |-> spec2, status |-> s2]
  <2> DEFINE q == [job EXCEPT !.spec.suspend = no]
             q2 == [q EXCEPT !.status.startTime = start]
             r == [s EXCEPT !.startTime = start]
  <2>1. job' = [q2 EXCEPT !.status.conditions =
                  Each(LAMBDA d : IF d.type = "Suspended" THEN Condition(d.type, "False", time) ELSE d,
                       q2.status.conditions)]
    BY DEF StartJob
  <2>2. job = [created |-> job.created, template |-> job.template, spec |-> job.spec,
               status |-> s]
    BY <1>2 DEF StoredJob
  <2>3. q = [job EXCEPT !.spec = spec2]
    OBVIOUS
  <2>4. r.conditions = old
    BY <1>2 DEF StoredJobStatus
  <2> HIDE DEF spec2, s, start
  <2>5. q = [created |-> job.created, template |-> job.template, spec |-> spec2, status |-> s]
    BY <2>2, <2>3
  <2> HIDE DEF q
  <2>6. q2 = [created |-> job.created, template |-> job.template, spec |-> spec2, status |-> r]
    BY <2>5
  <2>7. q2.status = r
    BY <2>6
  <2>8. Each(LAMBDA d : IF d.type = "Suspended" THEN Condition(d.type, "False", time) ELSE d,
             q2.status.conditions) = t
    BY <2>4, <2>7
  <2> HIDE DEF t, q2, r
  <2>9. job' = [created |-> job.created, template |-> job.template, spec |-> spec2,
                status |-> [r EXCEPT !.conditions = t]]
    BY <2>1, <2>6, <2>7, <2>8
  <2> QED
    BY <2>9 DEF r
<1> HIDE DEF s, c, t, start, spec2
<1>8. \A i \in DOMAIN old : t[i] \in StoredCondition /\ t[i].type = old[i].type
  <2> SUFFICES ASSUME NEW i \in DOMAIN old
               PROVE  t[i] \in StoredCondition /\ t[i].type = old[i].type
    OBVIOUS
  <2>1. old[i] \in StoredCondition
    BY <1>2
  <2>2. CASE old[i].type = "Suspended"
    <3>1. t[i] = c
      BY <1>3, <2>2
    <3> QED
      BY <1>1, <2>2, <3>1
  <2>3. CASE old[i].type # "Suspended"
    <3>1. t[i] = old[i]
      BY <1>3, <2>3
    <3> QED
      BY <2>1, <3>1
  <2> QED
    BY <2>2, <2>3
<1>9. t \in Seq(StoredCondition)
  BY <1>2, <1>3, <1>8, SeqMap
<1>10. /\ s2 \in StoredJobStatus
       /\ s2.startTime = start /\ s2.completionTime = s.completionTime
       /\ s2.conditions = t
  BY <1>2, <1>5, <1>9 DEF StoredJobStatus
<1> HIDE DEF s2
<1>11. job' \in StoredJob /\ job'.status = s2
  BY <1>2, <1>6, <1>7, <1>10 DEF StoredJob
<1>12. s.completionTime = <<>>
  BY <1>4 DEF JobStatusInv
<1>13. \A i \in DOMAIN old : old[i].type \notin {"Complete", "FailureTarget", "Failed"}
  BY <1>4 DEF JobStatusInv
<1>14. \A i \in DOMAIN t : t[i].type \notin {"Complete", "FailureTarget", "Failed"}
  BY <1>3, <1>8, <1>13
<1>15. JobStatusInv(s2, now)
  <2>1. s2.startTime[1] <= now /\ s2.completionTime = <<>>
    BY <1>5, <1>10, <1>12
  <2>2. \A i \in DOMAIN s2.conditions :
          s2.conditions[i].type \notin {"Complete", "FailureTarget", "Failed"}
    BY <1>10, <1>14
  <2>3. ~ \E i \in DOMAIN s2.conditions : s2.conditions[i].type = "Complete"
    BY <2>2
  <2> QED
    BY <2>1, <2>2, <2>3, Zenon DEF JobStatusInv
<1> QED
  BY <1>4, <1>5, <1>10, <1>11, <1>15 DEF s

LEMMA SuspendJobStep ==
  ASSUME ObjectsOK, JobInv, NEW time \in Since, SuspendJob(time)
  PROVE  /\ job' \in StoredJob /\ JobStatusInv(job'.status, now)
         /\ job'.status.startTime # job.status.startTime
<1> DEFINE s == job.status
           c == Condition("Suspended", "True", time)
           t == <<c>>
           start == <<>>
           yes == <<TRUE>>
           spec2 == [job.spec EXCEPT !.suspend = yes]
           s2 == [s EXCEPT !.startTime = start, !.active = 0, !.conditions = t]
<1>1. /\ c \in StoredCondition /\ c.type = "Suspended"
  <2>1. "Suspended" \in Texts /\ "True" \in Texts
    BY DEF Texts
  <2> QED
    BY <2>1, ConditionType, SinceIs
<1>2. /\ s \in StoredJobStatus /\ job \in StoredJob /\ job.spec \in StoredJobSpec
  BY JobTypes
<1>3. JobStatusInv(s, now) /\ s.conditions = <<>>
  BY DEF JobInv, SuspendJob
<1>4. start \in Timestamp
  BY PointerOf DEF Timestamp
<1>5. spec2 \in StoredJobSpec
  <2>1. yes \in Pointer(BOOLEAN)
    BY PointerOf
  <2> HIDE DEF yes
  <2> QED
    BY <1>2, <2>1 DEF StoredJobSpec
<1>6. job' = [job EXCEPT !.spec.suspend = yes, !.status.startTime = start,
                         !.status.active = 0, !.status.conditions = t]
  BY DEF SuspendJob
<1>7. /\ t \in Seq(StoredCondition)
      /\ \A i \in DOMAIN t : t[i].type = "Suspended"
  BY <1>1
<1> HIDE DEF c, t, start, yes
<1>8. job' = [created |-> job.created, template |-> job.template, spec |-> spec2, status |-> s2]
  <2> DEFINE q == [job EXCEPT !.spec.suspend = yes]
             q2 == [q EXCEPT !.status.startTime = start]
             q3 == [q2 EXCEPT !.status.active = 0]
             r2 == [s EXCEPT !.startTime = start]
             r3 == [r2 EXCEPT !.active = 0]
  <2>1. job' = [q3 EXCEPT !.status.conditions = t]
    BY <1>6
  <2>2. job = [created |-> job.created, template |-> job.template, spec |-> job.spec,
               status |-> s]
    BY <1>2 DEF StoredJob
  <2>3. q = [job EXCEPT !.spec = spec2]
    OBVIOUS
  <2> HIDE DEF spec2, s
  <2>4. q = [created |-> job.created, template |-> job.template, spec |-> spec2, status |-> s]
    BY <2>2, <2>3
  <2> HIDE DEF q
  <2>5. q2 = [created |-> job.created, template |-> job.template, spec |-> spec2, status |-> r2]
    BY <2>4
  <2> HIDE DEF q2, r2
  <2>6. q3 = [created |-> job.created, template |-> job.template, spec |-> spec2, status |-> r3]
    BY <2>5
  <2> HIDE DEF q3, r3
  <2>7. job' = [created |-> job.created, template |-> job.template, spec |-> spec2,
                status |-> [r3 EXCEPT !.conditions = t]]
    BY <2>1, <2>6
  <2> QED
    BY <2>7 DEF r3, r2
<1> HIDE DEF s, spec2
<1>9. /\ s2 \in StoredJobStatus
      /\ s2.startTime = <<>> /\ s2.completionTime = s.completionTime
      /\ s2.conditions = t
  BY <1>2, <1>4, <1>7 DEF StoredJobStatus, start
<1> HIDE DEF s2
<1>10. job' \in StoredJob /\ job'.status = s2
  BY <1>2, <1>5, <1>8, <1>9 DEF StoredJob
<1>11. s.completionTime = <<>>
  <2>1. DOMAIN s.conditions = {}
    BY <1>3
  <2> QED
    BY <1>3, <2>1 DEF JobStatusInv
<1>12. JobStatusInv(s2, now)
  BY <1>7, <1>9, <1>11 DEF JobStatusInv
<1>13. s.startTime # <<>>
  BY DEF SuspendJob, Started, s
<1> QED
  BY <1>9, <1>10, <1>12, <1>13 DEF s

\* The counts of the job's pods.
WithCounts(status, active, succeeded, failed) ==
    [[[status EXCEPT !.active = active] EXCEPT !.succeeded = succeeded] EXCEPT !.failed = failed]

LEMMA CountsStep ==
  ASSUME ObjectsOK, JobInv, NEW active \in Nat, NEW succeeded \in Nat, NEW failed \in Nat,
         job' = [created |-> job.created, template |-> job.template, spec |-> job.spec,
                 status |-> WithCounts(job.status, active, succeeded, failed)]
  PROVE  /\ job' \in StoredJob /\ JobStatusInv(job'.status, now)
         /\ SameTimes(job.status, job'.status)
<1> DEFINE s == job.status
           s2 == WithCounts(s, active, succeeded, failed)
<1>1. s \in StoredJobStatus /\ job \in StoredJob /\ now \in Nat
  BY JobTypes
<1>2. JobStatusInv(s, now)
  BY DEF JobInv
<1> HIDE DEF s
<1>3. s2 \in StoredJobStatus /\ SameTimes(s, s2)
  BY <1>1 DEF StoredJobStatus, WithCounts, SameTimes
<1> HIDE DEF s2
<1>4. job' \in StoredJob /\ job'.status = s2
  BY <1>1, <1>3 DEF StoredJob, s2, s
<1>5. now <= now
  BY <1>1
<1> QED
  BY <1>1, <1>2, <1>3, <1>4, <1>5, CountsChange DEF s

LEMMA CreatePodJob ==
  ASSUME ObjectsOK, JobInv, CreatePod
  PROVE  /\ job' \in StoredJob /\ JobStatusInv(job'.status, now)
         /\ SameTimes(job.status, job'.status)
<1> DEFINE s == job.status
<1>1. /\ job \in StoredJob /\ s \in StoredJobStatus /\ s.succeeded \in Nat /\ s.failed \in Nat
  BY JobTypes
<1>2. job' = [job EXCEPT !.status.active = 1]
  BY DEF CreatePod
<1>3. job = [created |-> job.created, template |-> job.template, spec |-> job.spec, status |-> s]
  BY <1>1 DEF StoredJob
<1>4. WithCounts(s, 1, s.succeeded, s.failed) = [s EXCEPT !.active = 1]
  BY <1>1 DEF StoredJobStatus, WithCounts
<1> HIDE DEF s
<1>5. job' = [created |-> job.created, template |-> job.template, spec |-> job.spec,
              status |-> WithCounts(s, 1, s.succeeded, s.failed)]
  BY <1>2, <1>3, <1>4
<1> QED
  BY <1>1, <1>5, CountsStep DEF s

LEMMA EndPodJob ==
  ASSUME ObjectsOK, JobInv, NEW p, EndPod(p)
  PROVE  /\ job' \in StoredJob /\ JobStatusInv(job'.status, now)
         /\ SameTimes(job.status, job'.status)
<1> DEFINE s == job.status
           main == pods[p].statuses["main"]
           won == \A i \in DOMAIN main : Completed(main[i])
           succeeded == IF won THEN s.succeeded + 1 ELSE s.succeeded
           failed == IF won THEN s.failed ELSE s.failed + 1
<1>1. /\ job \in StoredJob /\ s \in StoredJobStatus
      /\ s.active \in Nat /\ s.succeeded \in Nat /\ s.failed \in Nat
  BY JobTypes
<1>2. job' = [job EXCEPT !.status.active = 0,
                         !.status.succeeded = IF won THEN @ + 1 ELSE @,
                         !.status.failed = IF won THEN @ ELSE @ + 1]
  BY DEF EndPod
<1>3. job = [created |-> job.created, template |-> job.template, spec |-> job.spec, status |-> s]
  BY <1>1 DEF StoredJob
<1>4. /\ s.succeeded = [s EXCEPT !.active = 0].succeeded
      /\ s.failed = [[s EXCEPT !.active = 0] EXCEPT !.succeeded = succeeded].failed
  BY <1>1 DEF StoredJobStatus
<1> HIDE DEF won
<1>5. job' = [created |-> job.created, template |-> job.template, spec |-> job.spec,
              status |-> WithCounts(s, 0, succeeded, failed)]
  <2> DEFINE q == [job EXCEPT !.status.active = 0]
             r == [s EXCEPT !.active = 0]
             q2 == [q EXCEPT !.status.succeeded = IF won THEN @ + 1 ELSE @]
             r2 == [r EXCEPT !.succeeded = succeeded]
  <2>1. job' = [q2 EXCEPT !.status.failed = IF won THEN @ ELSE @ + 1]
    BY <1>2
  <2> HIDE DEF s
  <2>2. q = [created |-> job.created, template |-> job.template, spec |-> job.spec,
             status |-> r]
    BY <1>3
  <2> HIDE DEF q
  <2>3. q2 = [q EXCEPT !.status.succeeded = succeeded]
    BY <1>4, <2>2
  <2> HIDE DEF q2, r, succeeded
  <2>4. q2 = [created |-> job.created, template |-> job.template, spec |-> job.spec,
              status |-> r2]
    BY <2>2, <2>3
  <2>5. q2.status.failed = s.failed
    BY <1>4, <2>4 DEF r
  <2> HIDE DEF r2
  <2>6. job' = [q2 EXCEPT !.status.failed = failed]
    BY <2>1, <2>5
  <2> HIDE DEF failed
  <2>7. job' = [created |-> job.created, template |-> job.template, spec |-> job.spec,
                status |-> [r2 EXCEPT !.failed = failed]]
    BY <2>4, <2>6
  <2> QED
    BY <2>7 DEF WithCounts, r2, r
<1>6. succeeded \in Nat /\ failed \in Nat
  BY <1>1
<1> HIDE DEF succeeded, failed
<1> QED
  BY <1>5, <1>6, CountsStep

LEMMA TargetFailureStep ==
  ASSUME ObjectsOK, JobInv, NEW time \in Since, TargetFailure(time)
  PROVE  /\ job' \in StoredJob /\ JobStatusInv(job'.status, now)
         /\ job'.status.startTime = job.status.startTime
         /\ job'.status.completionTime = job.status.completionTime
         /\ job'.status.conditions = Append(job.status.conditions, Condition("FailureTarget", "True", time))
<1>1. /\ job.status.startTime # <<>>
      /\ job' = [job EXCEPT !.status.conditions =
                    Append(job.status.conditions, Condition("FailureTarget", "True", time))]
  BY DEF TargetFailure, Started
<1> QED
  BY <1>1, ConditionAdded

LEMMA FailJobStep ==
  ASSUME ObjectsOK, JobInv, NEW time \in Since, FailJob(time)
  PROVE  /\ job' \in StoredJob /\ JobStatusInv(job'.status, now)
         /\ job'.status.startTime = job.status.startTime
         /\ job'.status.completionTime = job.status.completionTime
         /\ job'.status.conditions = Append(job.status.conditions, Condition("Failed", "True", time))
<1>1. job' = [job EXCEPT !.status.conditions =
                 Append(job.status.conditions, Condition("Failed", "True", time))]
  BY DEF FailJob
<1>2. PICK i \in DOMAIN job.status.conditions : job.status.conditions[i].type = "FailureTarget"
  BY DEF FailJob, HasCondition
<1>3. job.status.startTime # <<>>
  BY <1>2 DEF JobInv, JobStatusInv
<1> QED
  BY <1>1, <1>3, ConditionAdded

(***************************************************************************)
(* The inductive invariant.                                                *)
(***************************************************************************)

LEMMA TypeOKIs ==
  TypeOK <=> ObjectsOK /\ CronjobMessage \in CronjobResponse
  BY DEF TypeOK, ObjectsOK

\* The time only grows, and the job and its pods are not touched by it.
LEMMA TickStep ==
  ASSUME ObjectsOK, JobInv, Tick
  PROVE  now' \in 1..MaxTime /\ JobStatusInv(job.status, now')
<1>1. now \in Nat /\ now' \in Nat /\ now <= now' /\ now' \in 1..MaxTime
  BY BoundsAssumption, JobTypes DEF ObjectsOK, Tick
<1>2. /\ job.status \in StoredJobStatus /\ JobStatusInv(job.status, now)
      /\ SameTimes(job.status, job.status)
  BY JobTypes DEF JobInv, SameTimes
<1> QED
  BY <1>1, <1>2, CountsChange

\* The kubelet's and a user's steps change the pods only.
LEMMA PodStepKeeps ==
  ASSUME ObjectsOK, JobInv, PodsInv, NEW p \in DOMAIN pods, PodStep(p)
  PROVE  /\ now' = now /\ pods' \in Seq(StoredPod) /\ PodsInv'
         /\ job' \in StoredJob /\ JobStatusInv(job'.status, now)
         /\ SameTimes(job.status, job'.status)
<1>1. job \in StoredJob /\ JobStatusInv(job.status, now) /\ SameTimes(job.status, job.status)
  BY JobTypes DEF JobInv, SameTimes
<1>2. CASE AckPod(p)
  BY <1>1, <1>2, AckPodStep DEF AckPod
<1>3. CASE EndPod(p)
  <2>1. now' = now
    BY <1>3 DEF EndPod
  <2> QED
    BY <1>3, <2>1, EndPodStep, EndPodJob
<1>4. ASSUME NEW c \in Debuggers, Debug(p, c)
      PROVE  /\ now' = now /\ job' = job /\ pods' \in Seq(StoredPod) /\ PodsInv'
  BY <1>4, DebugStep DEF Debug
<1>5. ASSUME NEW kind \in Kinds, NEW i \in DOMAIN pods[p].statuses[kind],
             ContainerStep(p, kind, i)
      PROVE  /\ now' = now /\ job' = job /\ pods' \in Seq(StoredPod) /\ PodsInv'
  <2>1. CASE StartContainer(p, kind, i)
    <3>1. now' = now /\ job' = job
      BY <2>1 DEF StartContainer
    <3> QED
      BY <2>1, <3>1, StartContainerStep
  <2>2. CASE RefuseContainer(p, kind, i)
    <3>1. now' = now /\ job' = job
      BY <2>2 DEF RefuseContainer
    <3> QED
      BY <2>2, <3>1, RefuseContainerStep
  <2>3. ASSUME NEW reason \in {"Completed", "Error", "OOMKilled"},
               EndContainer(p, kind, i, reason)
        PROVE  /\ now' = now /\ job' = job /\ pods' \in Seq(StoredPod) /\ PodsInv'
    <3>1. now' = now /\ job' = job
      BY <2>3 DEF EndContainer
    <3> QED
      BY <2>3, <3>1, EndContainerStep
  <2>4. CASE RestartContainer(p, kind, i)
    <3>1. now' = now /\ job' = job
      BY <2>4 DEF RestartContainer
    <3> QED
      BY <2>4, <3>1, RestartContainerStep
  <2> QED
    BY <1>5, <2>1, <2>2, <2>3, <2>4, Zenon DEF ContainerStep
<1>6. CASE now' = now /\ job' = job /\ pods' \in Seq(StoredPod) /\ PodsInv'
  BY <1>1, <1>6
<1> QED
  BY <1>2, <1>3, <1>4, <1>5, <1>6, Zenon DEF PodStep

LEMMA ObjectsKept ==
  ASSUME ObjectsOK, JobInv, PodsInv, Next
  PROVE  ObjectsOK' /\ JobInv' /\ PodsInv'
<1> DEFINE Kept == /\ pods' \in Seq(StoredPod) /\ PodsInv'
                   /\ job' \in StoredJob /\ JobStatusInv(job'.status, now') /\ now' \in 1..MaxTime
<1>1. Kept => ObjectsOK' /\ JobInv' /\ PodsInv'
  <2>1. JobInv' = JobStatusInv(job'.status, now')
    BY DEF JobInv, JobStatusInv
  <2> QED
    BY <2>1 DEF ObjectsOK
<1>2. pods \in Seq(StoredPod) /\ job \in StoredJob /\ now \in 1..MaxTime
  BY DEF ObjectsOK
<1>3. pods' = pods => PodsInv'
  BY DEF PodsInv, PodInv
<1> HIDE DEF Kept
<1>4. ASSUME NEW time \in Since, StartJob(time) PROVE Kept
  <2>1. pods' = pods /\ now' = now
    BY <1>4 DEF StartJob
  <2> QED
    BY <1>2, <1>3, <1>4, <2>1, StartJobStep DEF Kept
<1>5. ASSUME NEW time \in Since, SuspendJob(time) PROVE Kept
  <2>1. now' = now
    BY <1>5 DEF SuspendJob
  <2> QED
    BY <1>2, <1>5, <2>1, SuspendJobStep, SuspendJobPods DEF Kept
<1>6. CASE CreatePod
  <2>1. now' = now
    BY <1>6 DEF CreatePod
  <2> QED
    BY <1>1, <1>2, <1>6, <2>1, CreatePodStep, CreatePodJob DEF Kept
<1>7. ASSUME NEW p \in DOMAIN pods, PodStep(p) PROVE Kept
  BY <1>2, <1>7, PodStepKeeps DEF Kept
<1>8. ASSUME NEW time \in Since, CompleteJob(time) PROVE Kept
  <2>1. pods' = pods /\ now' = now
    BY <1>8 DEF CompleteJob
  <2> QED
    BY <1>2, <1>3, <1>8, <2>1, CompleteJobStep DEF Kept
<1>9. ASSUME NEW time \in Since, TargetFailure(time) PROVE Kept
  <2>1. pods' = pods /\ now' = now
    BY <1>9 DEF TargetFailure
  <2> QED
    BY <1>2, <1>3, <1>9, <2>1, TargetFailureStep DEF Kept
<1>10. ASSUME NEW time \in Since, FailJob(time) PROVE Kept
  <2>1. pods' = pods /\ now' = now
    BY <1>10 DEF FailJob
  <2> QED
    BY <1>2, <1>3, <1>10, <2>1, FailJobStep DEF Kept
<1>11. CASE Tick
  <2>1. pods' = pods /\ job' = job
    BY <1>11 DEF Tick
  <2> QED
    BY <1>1, <1>2, <1>3, <1>11, <2>1, TickStep DEF Kept
<1> QED
  BY <1>1, <1>4, <1>5, <1>6, <1>7, <1>8, <1>9, <1>10, <1>11, Zenon DEF Next, JobStep

LEMMA InitIInv ==
  ASSUME Init
  PROVE  ObjectsOK /\ JobInv /\ PodsInv
<1>1. PICK j \in Jobs :
        /\ job = [created |-> 1, template |-> j.template, spec |-> j.spec,
                  status |-> [active |-> 0, succeeded |-> 0, failed |-> 0,
                              ready |-> <<>>, terminating |-> <<>>,
                              startTime |-> <<>>, completionTime |-> <<>>,
                              conditions |-> <<>>]]
        /\ pods = <<>> /\ now = 1
  BY DEF Init
<1> DEFINE no == <<>>
           s == [active |-> 0, succeeded |-> 0, failed |-> 0, ready |-> no,
                 terminating |-> no, startTime |-> no, completionTime |-> no,
                 conditions |-> no]
<1>2. j.template \in StoredPodSpec /\ j.spec \in StoredJobSpec
  BY ObjectsAssumption
<1>3. /\ no \in Pointer(Nat) /\ no \in Timestamp /\ no \in Seq(StoredCondition)
      /\ DOMAIN no = {} /\ no = <<>>
  BY PointerOf DEF Timestamp
<1>4. job = [created |-> 1, template |-> j.template, spec |-> j.spec, status |-> s]
  BY <1>1
<1> HIDE DEF no
<1>5. s \in StoredJobStatus
  BY <1>3 DEF StoredJobStatus
<1>6. JobStatusInv(s, now)
  BY <1>3 DEF JobStatusInv
<1> HIDE DEF s
<1>7. job \in StoredJob /\ job.status = s
  BY <1>2, <1>4, <1>5 DEF StoredJob, Time
<1>8. pods \in Seq(StoredPod) /\ DOMAIN pods = {} /\ now \in 1..MaxTime
  BY <1>1, BoundsAssumption
<1> QED
  BY <1>6, <1>7, <1>8 DEF ObjectsOK, JobInv, PodsInv

\* Whatever becomes of a job and its pods, the objects keep the API's types, and
\* buildJobResponse and cronJobResponse (src/sk8l.go) with the mappers make messages of
\* the types of src/protos of them: with any optional field nil, for any pod template,
\* in any order of starts, refusals, ends, restarts, suspension and failure.
THEOREM Invariance == Spec => []IInv
<1> DEFINE H == ObjectsOK /\ JobInv /\ PodsInv
<1>1. Init => H
  BY InitIInv
<1>2. H /\ [Next]_vars => H'
  <2> SUFFICES ASSUME H, [Next]_vars PROVE H'
    OBVIOUS
  <2>1. CASE Next
    BY <2>1, ObjectsKept
  <2>2. CASE UNCHANGED vars
    BY <2>2 DEF vars, ObjectsOK, JobInv, PodsInv, JobStatusInv, PodInv
  <2> QED
    BY <2>1, <2>2
<1>3. H => IInv
  BY CronjobMessageType, TypeOKIs DEF IInv
<1> QED
  BY <1>1, <1>2, <1>3, PTL DEF Spec

(***************************************************************************)
(* The duration stands still once the job has ended.                       *)
(***************************************************************************)

Duration(status, time) ==
    IF status.startTime = <<>> THEN 0 ELSE End(status, time) - status.startTime[1]

LEMMA DurationNow ==
  ObjectsOK => DurationInS(job, pods) = Duration(job.status, now)
  BY DurationIs DEF ObjectsOK, Duration

LEMMA DurationNat ==
  ObjectsOK /\ JobInv => DurationInS(job, pods) \in Nat
  BY DurationType

\* The failure condition is one of the conditions, and the first.
LEMMA SameFailureCondition ==
  ASSUME NEW s, NEW s2, s2.conditions = s.conditions
  PROVE  FailureCondition(s2) = FailureCondition(s)
  BY DEF FailureCondition

LEMMA OtherConditionAdded ==
  ASSUME NEW s \in StoredJobStatus, NEW s2 \in StoredJobStatus, NEW c, c.type # "Failed",
         s2.conditions = Append(s.conditions, c)
  PROVE  FailureCondition(s2) = FailureCondition(s)
<1> DEFINE old == s.conditions
           t == s2.conditions
           P == {i \in DOMAIN old : old[i].type = "Failed"}
           Q == {i \in DOMAIN t : t[i].type = "Failed"}
<1>1. old \in Seq(StoredCondition) /\ t \in Seq(StoredCondition)
  BY DEF StoredJobStatus
<1>2. t = Append(old, c)
  OBVIOUS
<1>3. /\ FailureCondition(s) = IF At(old, P) = <<>> THEN <<>> ELSE <<MapJobCondition(At(old, P)[1])>>
      /\ FailureCondition(s2) = IF At(t, Q) = <<>> THEN <<>> ELSE <<MapJobCondition(At(t, Q)[1])>>
  BY DEF FailureCondition, Where
<1>4. P \in SUBSET DOMAIN old
  OBVIOUS
<1>5. \A i \in P : i \in DOMAIN old
  OBVIOUS
<1> HIDE DEF old, t
<1>6. /\ \A i \in DOMAIN old : t[i] = old[i]
      /\ \A i \in DOMAIN t : i \in DOMAIN old \/ t[i] = c
      /\ \A i \in DOMAIN old : i \in DOMAIN t
  BY <1>1, <1>2
<1>7. P = Q
  BY <1>6
<1> HIDE DEF P, Q
<1>8. At(t, P) = At(old, P)
  <2>1. \A k \in 1..Cardinality(P) : t[Place(P, k)] = old[Place(P, k)]
    <3>1. Len(old) \in Nat /\ DOMAIN old = 1..Len(old)
      BY <1>1
    <3>2. \A k \in 1..Cardinality(P) : Place(P, k) \in P
      BY <1>4, <3>1, PlaceIsThere
    <3> QED
      BY <1>5, <1>6, <3>2
  <2> QED
    BY <2>1, Zenon DEF At
<1> QED
  BY <1>3, <1>7, <1>8

LEMMA NotFinished ==
  ASSUME ObjectsOK, JobInv, ~Finished
  PROVE  /\ FailureCondition(job.status) = <<>> /\ job.status.completionTime = <<>>
         /\ ~HasFailed(job.status)
<1>1. \A i \in DOMAIN job.status.conditions :
        job.status.conditions[i].type \in {"Complete", "Failed"} =>
          job.status.conditions[i].status = "True"
  BY DEF JobInv, JobStatusInv
<1>2. \A i \in DOMAIN job.status.conditions :
        job.status.conditions[i].type \notin {"Complete", "Failed"}
  BY <1>1 DEF Finished, HasCondition
<1>3. ~HasFailed(job.status)
  BY <1>2 DEF HasFailed
<1>4. FailureCondition(job.status) = <<>>
  BY <1>3, JobTypes, FailureConditionProperties
<1>5. job.status.completionTime = <<>>
  BY <1>2 DEF JobInv, JobStatusInv
<1> QED
  BY <1>3, <1>4, <1>5

LEMMA FinishedIs ==
  ASSUME ObjectsOK, JobInv, Finished
  PROVE  FailureCondition(job.status) # <<>> \/ job.status.completionTime # <<>>
<1>1. CASE HasCondition("Complete", "True")
  <2>1. \E i \in DOMAIN job.status.conditions : job.status.conditions[i].type = "Complete"
    BY <1>1 DEF HasCondition
  <2> QED
    BY <2>1 DEF JobInv, JobStatusInv
<1>2. CASE HasCondition("Failed", "True")
  <2>1. HasFailed(job.status)
    BY <1>2 DEF HasCondition, HasFailed
  <2> QED
    BY <2>1, JobTypes, FailureConditionProperties
<1> QED
  BY <1>1, <1>2 DEF Finished

\* Where a step leaves the duration of a job that has not ended it, or shows its end.
Moves(before, after) ==
    IF Finished THEN after = before
    ELSE IF Finished' THEN after <= before
    ELSE after >= before

LEMMA Ends ==
  ASSUME NEW type \in {"Complete", "Failed"}, NEW time,
         job.status.conditions \in Seq(StoredCondition),
         job'.status.conditions = Append(job.status.conditions, Condition(type, "True", time))
  PROVE  Finished'
<1> DEFINE new == job'.status.conditions
<1>1. /\ Condition(type, "True", time).type = type
      /\ Condition(type, "True", time).status = "True"
  BY DEF Condition
<1>2. \E i \in DOMAIN new : new[i] = Condition(type, "True", time)
  <2>1. /\ Len(job.status.conditions) + 1 \in DOMAIN new
        /\ new[Len(job.status.conditions) + 1] = Condition(type, "True", time)
    OBVIOUS
  <2> QED
    BY <2>1
<1> QED
  BY <1>1, <1>2 DEF Finished, HasCondition

\* A step leaves the duration of a job that has ended, shows its end and does not
\* lengthen it, or does not take it back.
LEMMA DurationStep ==
  ASSUME ObjectsOK, JobInv, PodsInv, Next, job'.status.startTime = job.status.startTime,
         Duration(job.status, now) \in Nat
  PROVE  Moves(Duration(job.status, now), Duration(job'.status, now'))
<1> DEFINE s == job.status
           s2 == job'.status
           Same == Duration(s2, now') = Duration(s, now)
           Goal == Moves(Duration(s, now), Duration(s2, now'))
<1>1. Same => Goal
  BY DEF Moves
<1>2. /\ s \in StoredJobStatus /\ now \in Nat
      /\ s.startTime = <<>> \/ s.startTime[1] \in Nat
  BY JobTypes, PointerCases DEF Timestamp, Time
<1>3. s2 \in StoredJobStatus
  <2>1. job' \in StoredJob
    BY ObjectsKept DEF ObjectsOK
  <2> QED
    BY <2>1 DEF StoredJob
<1>4. s.startTime = s2.startTime
  OBVIOUS
<1>5. SameTimes(s, s2) /\ now' = now => Goal
  <2> SUFFICES ASSUME SameTimes(s, s2), now' = now PROVE Same
    BY <1>1
  <2>1. FailureCondition(s2) = FailureCondition(s)
    BY SameFailureCondition DEF SameTimes
  <2> QED
    BY <2>1 DEF Duration, End, SameTimes
<1>6. ASSUME NEW time \in Since, StartJob(time) PROVE Goal
  BY <1>6, StartJobStep
<1>7. ASSUME NEW time \in Since, SuspendJob(time) PROVE Goal
  BY <1>7, SuspendJobStep
<1>8. CASE CreatePod
  <2>1. now' = now
    BY <1>8 DEF CreatePod
  <2> QED
    BY <1>5, <1>8, <2>1, CreatePodJob
<1>9. ASSUME NEW p \in DOMAIN pods, PodStep(p) PROVE Goal
  BY <1>5, <1>9, PodStepKeeps
<1>10. ASSUME NEW time \in Since, CompleteJob(time) PROVE Goal
  <2>1. ~Finished /\ now' = now
    BY <1>10 DEF CompleteJob
  <2>2. FailureCondition(s) = <<>> /\ s.completionTime = <<>>
    BY <2>1, NotFinished
  <2>3. /\ s2.completionTime = <<time>>
        /\ s2.conditions = Append(s.conditions, Condition("Complete", "True", time))
    BY <1>10, CompleteJobStep
  <2>4. Condition("Complete", "True", time).type # "Failed"
    BY DEF Condition
  <2>5. FailureCondition(s2) = <<>>
    BY <1>2, <1>3, <2>2, <2>3, <2>4, OtherConditionAdded
  <2>6. End(s, now) = now
    BY <2>2 DEF End
  <2>7. End(s2, now') = time
    BY <2>1, <2>3, <2>5 DEF End
  <2>8. Duration(s2, now') <= Duration(s, now)
    BY <1>2, <1>4, <2>6, <2>7, SinceIs DEF Duration, Time
  <2>9. Finished'
    <3>1. s.conditions \in Seq(StoredCondition)
      BY <1>2 DEF StoredJobStatus
    <3> QED
      BY <2>3, <3>1, Ends
  <2> QED
    BY <2>1, <2>8, <2>9 DEF Moves
<1>11. ASSUME NEW time \in Since, TargetFailure(time) PROVE Goal
  <2>1. now' = now
    BY <1>11 DEF TargetFailure
  <2>2. /\ s2.completionTime = s.completionTime
        /\ s2.conditions = Append(s.conditions, Condition("FailureTarget", "True", time))
    BY <1>11, TargetFailureStep
  <2>3. Condition("FailureTarget", "True", time).type # "Failed"
    BY DEF Condition
  <2>4. FailureCondition(s2) = FailureCondition(s)
    BY <1>2, <1>3, <2>2, <2>3, OtherConditionAdded
  <2>5. Same
    BY <1>4, <2>1, <2>2, <2>4 DEF Duration, End
  <2> QED
    BY <1>1, <2>5
<1>12. ASSUME NEW time \in Since, FailJob(time) PROVE Goal
  <2> DEFINE c == Condition("Failed", "True", time)
  <2>1. ~Finished /\ now' = now
    BY <1>12 DEF FailJob
  <2>2. FailureCondition(s) = <<>> /\ s.completionTime = <<>> /\ ~HasFailed(s)
    BY <2>1, NotFinished
  <2>3. s2.conditions = Append(s.conditions, c)
    BY <1>12, FailJobStep
  <2>4. c.type = "Failed" /\ c.lastTransitionTime = time
    BY DEF Condition
  <2>5. s.conditions \in Seq(StoredCondition) /\ s2.conditions \in Seq(StoredCondition)
    BY <1>2, <1>3 DEF StoredJobStatus
  <2> HIDE DEF c, s, s2
  <2>6. /\ \A i \in DOMAIN s2.conditions : i \in DOMAIN s.conditions \/ s2.conditions[i] = c
        /\ \A i \in DOMAIN s.conditions : s2.conditions[i] = s.conditions[i]
        /\ \E i \in DOMAIN s2.conditions : s2.conditions[i] = c
    BY <2>3, <2>5
  <2>7. HasFailed(s2) /\ FailureCondition(s2) # <<>>
    <3>1. HasFailed(s2)
      BY <2>4, <2>6 DEF HasFailed
    <3> QED
      BY <1>3, <3>1, FailureConditionProperties
  <2>8. PICK i \in DOMAIN s2.conditions :
          /\ s2.conditions[i].type = "Failed"
          /\ FailureCondition(s2)[1].lastTransitionTime
               = <<s2.conditions[i].lastTransitionTime>>
    BY <1>3, <2>7, FailureConditionProperties
  <2>9. s2.conditions[i] = c
    BY <2>2, <2>6, <2>8 DEF HasFailed
  <2>10. End(s2, now') = time
    BY <2>4, <2>7, <2>8, <2>9 DEF End
  <2>11. End(s, now) = now
    BY <2>2 DEF End
  <2>12. Duration(s2, now') <= Duration(s, now)
    BY <1>2, <1>4, <2>10, <2>11, SinceIs DEF Duration, Time
  <2>13. Finished'
    BY <2>3, <2>5, Ends DEF c, s, s2
  <2> QED
    BY <2>1, <2>12, <2>13 DEF Moves, s, s2
<1>13. CASE Tick
  <2>1. s2 = s /\ now' \in Nat /\ now <= now'
    BY <1>2, <1>13 DEF Tick
  <2>2. CASE Finished
    <3>1. FailureCondition(s) # <<>> \/ s.completionTime # <<>>
      BY <2>2, FinishedIs
    <3>2. Same
      BY <2>1, <3>1 DEF Duration, End
    <3> QED
      BY <1>1, <3>2
  <2>3. CASE ~Finished
    <3>1. FailureCondition(s) = <<>> /\ s.completionTime = <<>>
      BY <2>3, NotFinished
    <3>2. ~Finished'
      BY <2>1, <2>3 DEF Finished, HasCondition
    <3>3. Duration(s2, now') >= Duration(s, now)
      BY <1>2, <2>1, <3>1 DEF Duration, End
    <3> QED
      BY <2>3, <3>2, <3>3 DEF Moves
  <2> QED
    BY <2>2, <2>3
<1> QED
  BY <1>6, <1>7, <1>8, <1>9, <1>10, <1>11, <1>12, <1>13, Zenon DEF Next, JobStep

\* toDuration (src/sk8l.go) asks for the failure condition first: a job that failed has
\* no CompletionTime, and would else be measured up to now for good.  Before its end
\* shows, the duration of a job only grows; when it shows, it is what the job took.
THEOREM StandsStill == Spec => DurationStandsStill
<1> DEFINE H == ObjectsOK /\ JobInv /\ PodsInv
           A == LET before == DurationInS(job, pods)
                    after == DurationInS(job, pods)'
                IN  job'.status.startTime = job.status.startTime =>
                      IF Finished THEN after = before
                      ELSE IF Finished' THEN after <= before
                      ELSE after >= before
<1>1. IInv => H
  BY TypeOKIs DEF IInv
<1>2. (ObjectsOK => DurationInS(job, pods) = Duration(job.status, now))'
  BY DurationNow, PTL
<1>3. H /\ [Next]_vars => [A]_vars
  <2> SUFFICES ASSUME H, Next PROVE A
    BY DEF vars
  <2>1. DurationInS(job, pods) = Duration(job.status, now) /\ DurationInS(job, pods) \in Nat
    BY DurationNow, DurationNat
  <2>2. ObjectsOK'
    BY ObjectsKept
  <2>3. DurationInS(job, pods)' = Duration(job'.status, now')
    BY <1>2, <2>2 DEF Duration, End
  <2>4. job'.status.startTime = job.status.startTime =>
          Moves(Duration(job.status, now), Duration(job'.status, now'))
    BY <2>1, DurationStep
  <2> QED
    BY <2>1, <2>3, <2>4, Zenon DEF Moves
<1>4. Spec => []IInv
  BY Invariance
<1>5. Spec => [][A]_vars
  BY <1>1, <1>3, <1>4, PTL DEF Spec
<1> QED
  BY <1>5 DEF DurationStandsStill

(***************************************************************************)
(* A pod's message does not contradict itself.                             *)
(***************************************************************************)

FailedOf(pod, kind) == Where(pod.status.statuses[kind], FailedStatus)

\* The failed statuses of the message, its failed containers and their reasons are at
\* the same places.
LEMMA FailedOfProperties ==
  ASSUME NEW stored \in StoredPod, NEW kind \in Kinds
  PROVE  LET F == FailedOf(PodResponseOf(stored), kind)
             failed == CollectFailedContainers(stored, kind)
         IN  /\ F \in Seq(ContainerStatusResponse)
             /\ Len(F) = Len(ReasonsOf(stored, kind))
             /\ F = Each(LAMBDA c : c.status, failed)
             /\ \A k \in 1..Len(F) : F[k].name = ReasonsOf(stored, kind)[k].container
<1> DEFINE F == FailedOf(PodResponseOf(stored), kind)
           failed == CollectFailedContainers(stored, kind)
           P == FailedPlaces(stored, kind)
           s == stored.statuses[kind]
           m == Each(MapContainerStatus, s)
           g == Each(LAMBDA c : c.status, failed)
           reasons == ReasonsOf(stored, kind)
<1>1. /\ s \in Seq(StoredContainerStatus)
      /\ \A i \in DOMAIN s : s[i] \in StoredContainerStatus
  BY AllProperties
<1>2. /\ m \in Seq(ContainerStatusResponse) /\ DOMAIN m = DOMAIN s
      /\ \A i \in DOMAIN s : m[i] = MapContainerStatus(s[i])
  BY <1>1, StatusesType
<1>3. F = At(m, {i \in DOMAIN m : FailedStatus(m[i])})
  <2>1. PodResponseOf(stored).status.statuses[kind] = m
    BY PodStatusType DEF PodResponseOf
  <2> QED
    BY <2>1 DEF FailedOf, Where
<1>4. /\ failed \in Seq(ContainerResponse)
      /\ failed = At(All(stored, kind), P)
      /\ \A k \in DOMAIN failed :
            /\ Place(P, k) \in P
            /\ failed[k] = ContainerResponseOf(stored, s[Place(P, k)])
            /\ failed[k].reason = ReasonOf(stored, s[Place(P, k)])
            /\ failed[k].reason # <<>>
  BY CollectFailedProperties
<1>5. P = {i \in DOMAIN s : ReasonOf(stored, s[i]) # <<>>}
  BY DEF FailedPlaces
<1>6. /\ g = [k \in DOMAIN failed |-> g[k]] /\ DOMAIN g = DOMAIN failed
      /\ \A k \in DOMAIN failed : g[k] = failed[k].status
  BY DEF Each
<1>7. /\ reasons \in Seq(TerminationReason) /\ Len(reasons) = Len(failed)
      /\ \A k \in DOMAIN failed : reasons[k] = failed[k].reason[1]
  BY ReasonsOfProperties
<1> HIDE DEF F, failed, P, s, m, g, reasons
<1>8. {i \in DOMAIN m : FailedStatus(m[i])} = P
  <2>1. \A i \in DOMAIN s : FailedStatus(m[i]) <=> ReasonOf(stored, s[i]) # <<>>
    <3>1. \A i \in DOMAIN s : FailedStatus(m[i]) = (ReasonOf(stored, s[i]) # <<>>)
      BY <1>1, <1>2, ContainerResponseType
    <3> QED
      BY <3>1
  <2> QED
    BY <1>2, <1>5, <2>1, Zenon
<1>9. F = At(m, P)
  BY <1>3, <1>8
<1>10. P \in SUBSET DOMAIN m
  BY <1>2, <1>5
<1>11. F \in Seq(ContainerStatusResponse)
  BY <1>2, <1>9, <1>10, AtProperties
<1>12. DOMAIN F = DOMAIN failed /\ \A k \in DOMAIN F : F[k] = m[Place(P, k)]
  BY <1>4, <1>9 DEF At
<1>13. ASSUME NEW k \in DOMAIN failed
       PROVE  /\ F[k] = failed[k].status
              /\ F[k].name = failed[k].reason[1].container
  <2>1. Place(P, k) \in DOMAIN s /\ s[Place(P, k)] \in StoredContainerStatus
    BY <1>1, <1>4, <1>5
  <2>2. F[k] = MapContainerStatus(s[Place(P, k)])
    BY <1>2, <1>12, <2>1
  <2>3. failed[k].status = MapContainerStatus(s[Place(P, k)])
    BY <1>4, <2>1, ContainerResponseType
  <2>4. failed[k].reason[1].container = s[Place(P, k)].name
    BY <1>4, <2>1, ContainerResponseType
  <2>5. MapContainerStatus(s[Place(P, k)]).name = s[Place(P, k)].name
    BY DEF MapContainerStatus
  <2> QED
    BY <2>2, <2>3, <2>4, <2>5
<1>14. F = g
  <2>1. F = [k \in DOMAIN failed |-> F[k]]
    BY <1>11, <1>12
  <2>2. \A k \in DOMAIN failed : F[k] = g[k]
    BY <1>6, <1>13
  <2> QED
    BY <1>6, <2>1, <2>2
<1>15. Len(F) = Len(reasons) /\ DOMAIN F = 1..Len(F)
  BY <1>4, <1>7, <1>11, <1>12
<1>16. \A k \in 1..Len(F) : F[k].name = reasons[k].container
  BY <1>7, <1>12, <1>13, <1>15
<1> QED
  BY <1>11, <1>14, <1>15, <1>16 DEF F, g, failed, reasons

\* Reasons and statuses of the same containers stay so when they are joined.
SameContainers(reasons, statuses) ==
    /\ Len(reasons) = Len(statuses)
    /\ \A k \in 1..Len(statuses) : statuses[k].name = reasons[k].container

LEMMA JoinedContainers ==
  ASSUME NEW S, NEW T, NEW a \in Seq(S), NEW b \in Seq(S), NEW c \in Seq(T), NEW d \in Seq(T),
         SameContainers(a, c), SameContainers(b, d)
  PROVE  SameContainers(a \o b, c \o d) /\ a \o b \in Seq(S) /\ c \o d \in Seq(T)
<1> DEFINE r == a \o b
           q == c \o d
<1>1. /\ r \in Seq(S) /\ q \in Seq(T)
      /\ Len(r) = Len(a) + Len(b) /\ Len(q) = Len(c) + Len(d)
      /\ Len(a) \in Nat /\ Len(b) \in Nat /\ Len(c) \in Nat /\ Len(d) \in Nat
      /\ \A k \in 1..Len(a) : r[k] = a[k]
      /\ \A k \in 1..Len(c) : q[k] = c[k]
      /\ \A k \in (Len(a) + 1)..(Len(a) + Len(b)) : r[k] = b[k - Len(a)]
      /\ \A k \in (Len(c) + 1)..(Len(c) + Len(d)) : q[k] = d[k - Len(c)]
  OBVIOUS
<1>2. Len(a) = Len(c) /\ Len(b) = Len(d)
  BY DEF SameContainers
<1> HIDE DEF r, q
<1>3. ASSUME NEW k \in 1..Len(q) PROVE q[k].name = r[k].container
  <2>1. CASE k \in 1..Len(c)
    BY <1>1, <1>2, <2>1 DEF SameContainers
  <2>2. CASE k \in (Len(c) + 1)..(Len(c) + Len(d))
    <3>1. q[k] = d[k - Len(c)] /\ r[k] = b[k - Len(c)] /\ k - Len(c) \in 1..Len(d)
      BY <1>1, <1>2, <2>2
    <3> QED
      BY <3>1 DEF SameContainers
  <2> QED
    BY <1>1, <2>1, <2>2
<1>4. Len(r) = Len(q)
  BY <1>1, <1>2
<1>5. SameContainers(r, q)
  BY <1>3, <1>4 DEF SameContainers
<1> QED
  BY <1>1, <1>5 DEF r, q

\* The failed statuses of all kinds, in the order of the calls.
FailedStatuses(pod) ==
    FailedOf(pod, "ephemeral") \o FailedOf(pod, "init") \o FailedOf(pod, "main")

LEMMA NamesOfReasons ==
  ASSUME NEW stored \in StoredPod
  PROVE  LET F == FailedStatuses(PodResponseOf(stored))
         IN  /\ Each(LAMBDA r : r.container, TerminationReasons(stored)) = Each(LAMBDA cs : cs.name, F)
             /\ TerminationReasons(stored) # <<>> <=> Each(LAMBDA cs : cs.name, F) # <<>>
<1> DEFINE F == FailedStatuses(PodResponseOf(stored))
           reasons == TerminationReasons(stored)
           f == Each(LAMBDA r : r.container, reasons)
           g == Each(LAMBDA cs : cs.name, F)
<1>1. \A kind \in Kinds :
        /\ ReasonsOf(stored, kind) \in Seq(TerminationReason)
        /\ FailedOf(PodResponseOf(stored), kind) \in Seq(ContainerStatusResponse)
        /\ SameContainers(ReasonsOf(stored, kind), FailedOf(PodResponseOf(stored), kind))
  BY ReasonsOfProperties, FailedOfProperties DEF SameContainers
<1>2. "ephemeral" \in Kinds /\ "init" \in Kinds /\ "main" \in Kinds
  BY DEF Kinds
<1>3. /\ SameContainers(reasons, F)
      /\ reasons \in Seq(TerminationReason) /\ F \in Seq(ContainerStatusResponse)
  <2> DEFINE r(kind) == ReasonsOf(stored, kind)
             q(kind) == FailedOf(PodResponseOf(stored), kind)
  <2>1. /\ SameContainers(r("ephemeral") \o r("init"), q("ephemeral") \o q("init"))
        /\ r("ephemeral") \o r("init") \in Seq(TerminationReason)
        /\ q("ephemeral") \o q("init") \in Seq(ContainerStatusResponse)
    BY <1>1, <1>2, JoinedContainers
  <2>2. /\ r("main") \in Seq(TerminationReason) /\ q("main") \in Seq(ContainerStatusResponse)
        /\ SameContainers(r("main"), q("main"))
    BY <1>1, <1>2
  <2>3. /\ reasons = (r("ephemeral") \o r("init")) \o r("main")
        /\ F = (q("ephemeral") \o q("init")) \o q("main")
    BY TerminationReasonsType DEF FailedStatuses
  <2> DEFINE a == r("ephemeral") \o r("init")
             c == q("ephemeral") \o q("init")
             a2 == r("main")
             c2 == q("main")
  <2>4. /\ SameContainers(a, c) /\ a \in Seq(TerminationReason)
        /\ c \in Seq(ContainerStatusResponse)
    BY <2>1
  <2>5. /\ SameContainers(a2, c2) /\ a2 \in Seq(TerminationReason)
        /\ c2 \in Seq(ContainerStatusResponse)
    BY <2>2
  <2>6. reasons = a \o a2 /\ F = c \o c2
    BY <2>3
  <2> HIDE DEF r, q, reasons, F, a, c, a2, c2
  <2>7. /\ SameContainers(a \o a2, c \o c2)
        /\ a \o a2 \in Seq(TerminationReason)
        /\ c \o c2 \in Seq(ContainerStatusResponse)
    BY <2>4, <2>5, JoinedContainers
  <2> QED
    BY <2>6, <2>7
<1>4. /\ f = [k \in DOMAIN reasons |-> reasons[k].container]
      /\ g = [k \in DOMAIN F |-> F[k].name]
  BY DEF Each
<1> HIDE DEF reasons, F, f, g
<1>5. /\ DOMAIN reasons = 1..Len(reasons) /\ DOMAIN F = 1..Len(F)
      /\ Len(reasons) = Len(F) /\ Len(F) \in Nat
      /\ \A k \in 1..Len(F) : F[k].name = reasons[k].container
  BY <1>3 DEF SameContainers
<1>6. f = g
  BY <1>4, <1>5
<1>7. reasons # <<>> <=> Len(F) # 0
  BY <1>3, <1>5
<1>8. g # <<>> <=> Len(F) # 0
  <2>1. g \in Seq({F[k].name : k \in 1..Len(F)}) /\ Len(g) = Len(F)
    BY <1>4, <1>5
  <2> QED
    BY <2>1
<1> QED
  BY <1>6, <1>7, <1>8 DEF f, g, reasons, F

LEMMA FinishedAtCovers ==
  ASSUME NEW stored \in StoredPod, PodInv(stored)
  PROVE  FinishedAtIsTheLast(PodResponseOf(stored))
<1> DEFINE pod == PodResponseOf(stored)
           failed == CollectFailedContainers(stored, "main")
           P == FailedPlaces(stored, "main")
           s == stored.statuses["main"]
<1>1. "main" \in Kinds
  BY DEF Kinds
<1>2. pod.failedContainers.containers["main"] = failed /\ pod.finishedAt = FinishedAt(stored)
  BY <1>1 DEF PodResponseOf, FailedContainersResponse
<1>3. /\ FinishedAt(stored) = <<>> <=> failed = <<>>
      /\ \A i \in DOMAIN failed :
            s[Place(P, i)].state.terminated # <<>> =>
              s[Place(P, i)].state.terminated[1].finishedAt <= FinishedAt(stored)[1]
  BY FinishedAtProperties
<1>4. \A i \in DOMAIN failed : /\ Place(P, i) \in DOMAIN s
                               /\ failed[i] = ContainerResponseOf(stored, s[Place(P, i)])
  BY <1>1, CollectFailedProperties
<1>5. \A i \in DOMAIN s : s[i] \in StoredContainerStatus
  BY <1>1, AllProperties
<1> HIDE DEF pod, failed, P, s
<1>6. ASSUME NEW i \in DOMAIN failed, failed[i].status.state.terminated # <<>>
      PROVE  failed[i].status.state.terminated[1].finishedAt[1] <= FinishedAt(stored)[1]
  <2> DEFINE cs == s[Place(P, i)]
             t == cs.state.terminated
             e == MapContainerStateTerminated(t)
  <2>1. cs \in StoredContainerStatus
    BY <1>4, <1>5
  <2>2. failed[i].status = MapContainerStatus(cs)
    BY <1>4, <2>1, ContainerResponseType
  <2>3. failed[i].status.state.terminated = e
    <3> HIDE DEF cs
    <3>1. MapContainerStatus(cs).state.terminated = MapContainerStateTerminated(cs.state.terminated)
      BY DEF MapContainerStatus, MapContainerState
    <3> QED
      BY <2>2, <3>1
  <2>4. t \in Pointer([reason : STRING, startedAt : Time, finishedAt : Time])
    BY <2>1, StateFields
  <2>5. t # <<>> => t[1].finishedAt <= FinishedAt(stored)[1]
    BY <1>3
  <2> HIDE DEF t
  <2>6. /\ DOMAIN e = DOMAIN t /\ e \in Pointer(ContainerStateTerminatedResponse)
        /\ \A k \in DOMAIN t : e[k] =
             [reason |-> t[k].reason, startedAt |-> <<t[k].startedAt>>,
              finishedAt |-> <<t[k].finishedAt>>]
    BY <2>4, TerminatedType
  <2> HIDE DEF e
  <2>7. DOMAIN t = {1} /\ t # <<>>
    <3>1. e # <<>>
      BY <1>6, <2>3
    <3>2. DOMAIN e = {1}
      BY <2>6, <3>1, PointerCases
    <3> QED
      BY <2>4, <2>6, <3>2, PointerCases
  <2>8. e[1].finishedAt[1] = t[1].finishedAt
    BY <2>6, <2>7
  <2> QED
    BY <2>3, <2>5, <2>7, <2>8
<1>7. FinishedAtIsTheLast(pod)
  BY <1>2, <1>3, <1>6 DEF FinishedAtIsTheLast
<1> QED
  BY <1>7 DEF pod

LEMMA PodIsExplained ==
  ASSUME NEW stored \in StoredPod, PodInv(stored)
  PROVE  LET pod == PodResponseOf(stored)
             names == Each(LAMBDA cs : cs.name, FailedStatuses(pod))
         IN  /\ Each(LAMBDA r : r.container, pod.reasons) = names
             /\ pod.failed = (names # <<>>)
             /\ pod.failedContainers.reasons = <<pod.reasons>>
             /\ \A kind \in Kinds :
                   Each(LAMBDA c : c.status, pod.failedContainers.containers[kind])
                       = FailedOf(pod, kind)
             /\ FinishedAtIsTheLast(pod)
<1> DEFINE pod == PodResponseOf(stored)
           names == Each(LAMBDA cs : cs.name, FailedStatuses(pod))
<1>1. /\ pod.reasons = TerminationReasons(stored)
      /\ pod.failed = (TerminationReasons(stored) # <<>>)
      /\ pod.failedContainers.reasons = <<TerminationReasons(stored)>>
      /\ \A kind \in Kinds :
            pod.failedContainers.containers[kind] = CollectFailedContainers(stored, kind)
  BY DEF PodResponseOf, FailedContainersResponse
<1>2. /\ Each(LAMBDA r : r.container, TerminationReasons(stored)) = names
      /\ TerminationReasons(stored) # <<>> <=> names # <<>>
  BY NamesOfReasons
<1>3. \A kind \in Kinds :
        FailedOf(pod, kind) = Each(LAMBDA c : c.status, CollectFailedContainers(stored, kind))
  BY FailedOfProperties
<1>4. FinishedAtIsTheLast(pod)
  BY FinishedAtCovers
<1> HIDE DEF pod, names
<1>5. Each(LAMBDA r : r.container, pod.reasons) = names
  BY <1>1, <1>2
<1>6. pod.failed = (names # <<>>) /\ pod.failedContainers.reasons = <<pod.reasons>>
  BY <1>1, <1>2
<1>7. \A kind \in Kinds : Each(LAMBDA c : c.status, pod.failedContainers.containers[kind])
                             = FailedOf(pod, kind)
  BY <1>1, <1>3
<1> QED
  BY <1>4, <1>5, <1>6, <1>7 DEF pod, names

LEMMA FailureIsExplainedHere ==
  ObjectsOK /\ JobInv /\ PodsInv => FailureIsExplained
<1> SUFFICES ASSUME ObjectsOK, JobInv, PodsInv PROVE FailureIsExplained
  OBVIOUS
<1>1. Response.reasons = FlattenSeq(Each(LAMBDA pod : pod.reasons, Response.pods))
  BY DEF Response, BuildJobResponse
<1>2. ASSUME NEW pod \in Range(Response.pods)
      PROVE  \E p \in DOMAIN pods : pods[p] \in StoredPod /\ PodInv(pods[p]) /\ pod = PodResponseOf(pods[p])
  <2>1. Response.pods = BuildJobPodsResponses(pods)
    BY ResponseType
  <2>2. PICK p \in DOMAIN Response.pods : pod = Response.pods[p]
    BY DEF Range
  <2> QED
    BY <2>1, <2>2, PodResponsesType DEF ObjectsOK, PodsInv
<1>3. ASSUME NEW pod \in Range(Response.pods)
      PROVE  LET names == Each(LAMBDA cs : cs.name, FailedStatuses(pod))
             IN  /\ Each(LAMBDA r : r.container, pod.reasons) = names
                 /\ pod.failed = (names # <<>>)
                 /\ pod.failedContainers.reasons = <<pod.reasons>>
                 /\ \A kind \in Kinds :
                       Each(LAMBDA c : c.status, pod.failedContainers.containers[kind])
                           = FailedOf(pod, kind)
                 /\ FinishedAtIsTheLast(pod)
  <2>1. PICK p \in DOMAIN pods :
          pods[p] \in StoredPod /\ PodInv(pods[p]) /\ pod = PodResponseOf(pods[p])
    BY <1>2
  <2> QED
    BY <2>1, PodIsExplained
<1> QED
  BY <1>1, <1>3, Zenon DEF FailureIsExplained, FailedStatuses, FailedOf

\* Three calls append to one list of reasons (terminatedAndFailedContainersResponses),
\* and yet each failed container of a pod's message has one reason, in the list of the
\* pod and in that of the job, in one order, and the pod's finish time covers them.
THEOREM Explained == Spec => []FailureIsExplained
<1>1. IInv => ObjectsOK /\ JobInv /\ PodsInv
  BY TypeOKIs DEF IInv
<1> QED
  BY <1>1, FailureIsExplainedHere, Invariance, PTL

(***************************************************************************)
(* The message agrees with what JobStatus keeps of it.                     *)
(***************************************************************************)

\* The same containers have failed, and for the same reason: what waits has not ended.
LEMMA AbstractStatusIs ==
  ASSUME NEW cs \in StoredContainerStatus,
         cs.state.waiting = <<>> \/ cs.state.terminated = <<>>
  PROVE  /\ Status!FailedContainer(AbstractStatus(cs)) <=> Refused(cs) \/ Erred(cs)
         /\ Refused(cs) => AbstractStatus(cs).reason = "CreateContainerConfigError"
         /\ Erred(cs) => AbstractStatus(cs).reason = "Error"
<1> DEFINE w == cs.state.waiting
           t == cs.state.terminated
<1>1. /\ Refused(cs) <=> w # <<>> /\ w[1].reason = "CreateContainerConfigError"
      /\ Erred(cs) <=> t # <<>> /\ t[1].reason = "Error"
  <2>1. /\ DOMAIN w = IF w = <<>> THEN {} ELSE {1}
        /\ DOMAIN t = IF t = <<>> THEN {} ELSE {1}
    BY StateFields, PointerCases
  <2> QED
    BY <2>1, Zenon DEF Refused, Erred
<1>2. w = <<>> \/ t = <<>>
  OBVIOUS
<1> DEFINE u == w[1].reason
           v == t[1].reason
           a == AbstractStatus(cs)
<1> HIDE DEF w, t, u, v, a
<1>3. /\ Refused(cs) <=> w # <<>> /\ u = "CreateContainerConfigError"
      /\ Erred(cs) <=> t # <<>> /\ v = "Error"
  BY <1>1 DEF u, v
<1>4. w # <<>> => a.state = "waiting" /\ a.reason = u
  BY DEF a, u, w, AbstractStatus
<1>5. /\ w = <<>> /\ t # <<>> => a.state = "terminated" /\ a.reason = v
      /\ w = <<>> /\ t = <<>> => a.state = "running"
  <2>1. w = <<>> /\ t # <<>> => a = [state |-> "terminated", reason |-> v]
    BY DEF a, v, w, t, AbstractStatus
  <2>2. w = <<>> /\ t # <<>> => a.state = "terminated" /\ a.reason = v
    BY <2>1
  <2> DEFINE empty == ""
  <2>3. w = <<>> /\ t = <<>> => a = [state |-> "running", reason |-> empty]
    BY DEF a, w, t, AbstractStatus
  <2> HIDE DEF empty
  <2>4. w = <<>> /\ t = <<>> => a.state = "running"
    BY <2>3
  <2> QED
    BY <2>2, <2>4
<1>6. /\ Status!FailedContainer(a) <=> Refused(cs) \/ Erred(cs)
      /\ Refused(cs) => a.reason = "CreateContainerConfigError"
      /\ Erred(cs) => a.reason = "Error"
  BY <1>2, <1>3, <1>4, <1>5 DEF Status!FailedContainer
<1> QED
  BY <1>6 DEF a

\* The reason that a container is given has the text that JobStatus has for it.
LEMMA ReasonText ==
  ASSUME NEW pod \in StoredPod, NEW cs \in StoredContainerStatus,
         cs.state.waiting = <<>> \/ cs.state.terminated = <<>>
  PROVE  /\ Status!FailedContainer(AbstractStatus(cs)) <=> ReasonOf(pod, cs) # <<>>
         /\ ReasonOf(pod, cs) # <<>> =>
              ReasonOf(pod, cs)[1].details.reason = AbstractStatus(cs).reason
<1> DEFINE x == [details |-> RefusedDetails(pod), container |-> cs.name]
           y == [details |-> ErredDetails(cs), container |-> cs.name]
<1>1. /\ (ReasonOf(pod, cs) # <<>>) = (Refused(cs) \/ Erred(cs))
      /\ Refused(cs) => ReasonOf(pod, cs) = <<x>>
      /\ ~Refused(cs) /\ Erred(cs) => ReasonOf(pod, cs) = <<y>>
      /\ Erred(cs) => cs.state.terminated[1].reason = "Error"
  BY ContainerResponseType, ReasonCases
<1>2. /\ x.details.reason = "CreateContainerConfigError"
      /\ y.details.reason = cs.state.terminated[1].reason
  BY DEF RefusedDetails, ErredDetails
<1> HIDE DEF x, y
<1>3. /\ Refused(cs) => ReasonOf(pod, cs)[1] = x
      /\ ~Refused(cs) /\ Erred(cs) => ReasonOf(pod, cs)[1] = y
  BY <1>1
<1>4. /\ Status!FailedContainer(AbstractStatus(cs)) <=> Refused(cs) \/ Erred(cs)
      /\ Refused(cs) => AbstractStatus(cs).reason = "CreateContainerConfigError"
      /\ Erred(cs) => AbstractStatus(cs).reason = "Error"
  BY AbstractStatusIs
<1> QED
  BY <1>1, <1>2, <1>3, <1>4

\* The texts of a list of reasons.
TextsOf(reasons) == {reasons[i].details.reason : i \in DOMAIN reasons}

AbstractReasonsOf(pod, kind) ==
    LET statuses == AbstractPod(pod).statuses[kind]
    IN  {statuses[i].reason : i \in {i \in DOMAIN statuses : Status!FailedContainer(statuses[i])}}

LEMMA TextsOfKind ==
  ASSUME NEW pod \in StoredPod, PodInv(pod), NEW kind \in Kinds
  PROVE  TextsOf(ReasonsOf(pod, kind)) = AbstractReasonsOf(pod, kind)
<1> DEFINE s == pod.statuses[kind]
           a == AbstractPod(pod).statuses[kind]
           r == ReasonsOf(pod, kind)
           failed == CollectFailedContainers(pod, kind)
           P == FailedPlaces(pod, kind)
<1>1. /\ DOMAIN a = DOMAIN s /\ \A i \in DOMAIN s : a[i] = AbstractStatus(s[i])
  <2>1. a = Each(AbstractStatus, s)
    BY DEF AbstractPod
  <2> HIDE DEF a, s
  <2> QED
    BY <2>1 DEF Each
<1>2. \A i \in DOMAIN s : /\ s[i] \in StoredContainerStatus
                          /\ s[i].state.waiting = <<>> \/ s[i].state.terminated = <<>>
  BY AllProperties DEF PodInv
<1>3. P = {i \in DOMAIN s : ReasonOf(pod, s[i]) # <<>>}
  BY DEF FailedPlaces
<1>4. /\ failed = At(All(pod, kind), P)
      /\ P \in SUBSET DOMAIN s
      /\ \A k \in DOMAIN failed : /\ Place(P, k) \in P
                                  /\ failed[k].reason = ReasonOf(pod, s[Place(P, k)])
  BY CollectFailedProperties
<1>5. DOMAIN r = DOMAIN failed /\ \A k \in DOMAIN failed : r[k] = failed[k].reason[1]
  BY ReasonsOfProperties
<1>6. \A i \in P : \E k \in DOMAIN failed : Place(P, k) = i
  <2>1. /\ All(pod, kind) \in Seq(ContainerResponse) /\ DOMAIN All(pod, kind) = DOMAIN s
    BY AllProperties
  <2> DEFINE n == Len(All(pod, kind))
  <2>2. n \in Nat /\ P \in SUBSET (1..n)
    BY <2>1, <1>4
  <2> HIDE DEF P, failed
  <2>3. DOMAIN failed = 1..Cardinality(P)
    BY <1>4 DEF At
  <2> QED
    BY <2>2, <2>3, PlaceIsReached
<1>7. TextsOf(r) = {r[k].details.reason : k \in DOMAIN r}
  BY DEF TextsOf
<1>8. AbstractReasonsOf(pod, kind)
        = {a[i].reason : i \in {i \in DOMAIN a : Status!FailedContainer(a[i])}}
  BY DEF AbstractReasonsOf
<1> HIDE DEF s, a, r, failed, P
<1>9. \A i \in DOMAIN s :
        /\ Status!FailedContainer(a[i]) <=> ReasonOf(pod, s[i]) # <<>>
        /\ ReasonOf(pod, s[i]) # <<>> => ReasonOf(pod, s[i])[1].details.reason = a[i].reason
  BY <1>1, <1>2, ReasonText
<1>10. {i \in DOMAIN a : Status!FailedContainer(a[i])} = P
  BY <1>1, <1>3, <1>9, Zenon
<1>11. \A k \in DOMAIN r : Place(P, k) \in P /\ r[k].details.reason = a[Place(P, k)].reason
  BY <1>3, <1>4, <1>5, <1>9
<1>12. \A i \in P : \E k \in DOMAIN r : r[k].details.reason = a[i].reason
  BY <1>5, <1>6, <1>11
<1>13. {r[k].details.reason : k \in DOMAIN r} = {a[i].reason : i \in P}
  BY <1>11, <1>12
<1> QED
  BY <1>7, <1>8, <1>10, <1>13 DEF r

LEMMA TextsJoined ==
  ASSUME NEW a \in Seq(TerminationReason), NEW b \in Seq(TerminationReason)
  PROVE  /\ TextsOf(a \o b) = TextsOf(a) \cup TextsOf(b)
         /\ a \o b \in Seq(TerminationReason)
<1> DEFINE c == a \o b
<1>1. c \in Seq(TerminationReason)
  OBVIOUS
<1>2. \A i \in DOMAIN c : \/ i \in DOMAIN a /\ c[i] = a[i]
                          \/ i - Len(a) \in DOMAIN b /\ c[i] = b[i - Len(a)]
  OBVIOUS
<1>3. /\ \A i \in DOMAIN a : i \in DOMAIN c /\ c[i] = a[i]
      /\ \A i \in DOMAIN b : Len(a) + i \in DOMAIN c /\ c[Len(a) + i] = b[i]
  OBVIOUS
<1> HIDE DEF c
<1>4. TextsOf(c) = TextsOf(a) \cup TextsOf(b)
  <2>1. ASSUME NEW x \in TextsOf(c) PROVE x \in TextsOf(a) \cup TextsOf(b)
    BY <1>2 DEF TextsOf
  <2>2. ASSUME NEW x \in TextsOf(a) \cup TextsOf(b) PROVE x \in TextsOf(c)
    BY <1>3 DEF TextsOf
  <2> QED
    BY <2>1, <2>2
<1> QED
  BY <1>1, <1>4 DEF c

\* A pod's reasons, of all its kinds of containers.
LEMMA AbstractPodIs ==
  ASSUME NEW pod \in StoredPod, PodInv(pod)
  PROVE  /\ Status!TerminationReasons(AbstractPod(pod)) = TextsOf(TerminationReasons(pod))
         /\ PodResponseOf(pod).failed = Status!PodResponse(AbstractPod(pod)).failed
         /\ TextsOf(PodResponseOf(pod).reasons) = Status!PodResponse(AbstractPod(pod)).reasons
         /\ PodResponseOf(pod).phase = Status!PodResponse(AbstractPod(pod)).phase
<1> DEFINE q(kind) == AbstractReasonsOf(pod, kind)
           r(kind) == ReasonsOf(pod, kind)
           t == TerminationReasons(pod)
           abstract == Status!TerminationReasons(AbstractPod(pod))
<1>1. \A kind \in Kinds : q(kind) = TextsOf(r(kind)) /\ r(kind) \in Seq(TerminationReason)
  BY TextsOfKind, ReasonsOfProperties
<1>2. "ephemeral" \in Kinds /\ "init" \in Kinds /\ "main" \in Kinds
  BY DEF Kinds
<1>3. abstract = q("ephemeral") \cup q("init") \cup q("main")
  <2>1. abstract = UNION {q(kind) : kind \in {"ephemeral", "init", "main"}}
    BY DEF Status!TerminationReasons, AbstractReasonsOf, Status!ContainerKinds
  <2> HIDE DEF q, abstract
  <2> QED
    BY <2>1
<1>4. t = r("ephemeral") \o r("init") \o r("main")
  BY TerminationReasonsType
<1>5. /\ PodResponseOf(pod).failed = (t # <<>>) /\ PodResponseOf(pod).reasons = t
      /\ PodResponseOf(pod).phase = pod.phase
  BY DEF PodResponseOf
<1>6. /\ Status!PodResponse(AbstractPod(pod)).failed = (abstract # {})
      /\ Status!PodResponse(AbstractPod(pod)).reasons = abstract
      /\ Status!PodResponse(AbstractPod(pod)).phase = pod.phase
  BY DEF Status!PodResponse, AbstractPod
<1> HIDE DEF q, r, t, abstract
<1>7. /\ TextsOf(r("ephemeral") \o r("init")) = q("ephemeral") \cup q("init")
      /\ r("ephemeral") \o r("init") \in Seq(TerminationReason)
  BY <1>1, <1>2, TextsJoined
<1>8. TextsOf(t) = abstract /\ t \in Seq(TerminationReason)
  <2> DEFINE a == r("ephemeral") \o r("init")
             b == r("main")
  <2>1. /\ TextsOf(a) = q("ephemeral") \cup q("init") /\ a \in Seq(TerminationReason)
        /\ TextsOf(b) = q("main") /\ b \in Seq(TerminationReason) /\ t = a \o b
    BY <1>1, <1>2, <1>4, <1>7
  <2> HIDE DEF a, b
  <2> QED
    BY <1>3, <2>1, TextsJoined
<1>9. t = <<>> <=> TextsOf(t) = {}
  <2>1. t = <<>> <=> DOMAIN t = {}
    BY <1>8
  <2>2. DOMAIN t = {} <=> TextsOf(t) = {}
    BY Zenon DEF TextsOf
  <2> QED
    BY <2>1, <2>2
<1> QED
  BY <1>5, <1>6, <1>8, <1>9 DEF t, abstract

AbstractResponses == Status!BuildJobPodsResponses(Each(AbstractPod, pods))

LEMMA AbstractResponsesAre ==
  ASSUME ObjectsOK, PodsInv
  PROVE  /\ DOMAIN AbstractResponses = DOMAIN pods
         /\ DOMAIN BuildJobPodsResponses(pods) = DOMAIN pods
         /\ \A p \in DOMAIN pods :
              LET response == BuildJobPodsResponses(pods)[p]
              IN  /\ response.failed = AbstractResponses[p].failed
                  /\ response.phase = AbstractResponses[p].phase
                  /\ TextsOf(response.reasons) = AbstractResponses[p].reasons
<1> DEFINE a == AbstractResponses
           e == Each(AbstractPod, pods)
           b == BuildJobPodsResponses(pods)
<1>1. DOMAIN e = DOMAIN pods /\ \A p \in DOMAIN pods : e[p] = AbstractPod(pods[p])
  BY DEF Each
<1> HIDE DEF e
<1>2. DOMAIN a = DOMAIN e /\ \A p \in DOMAIN e : a[p] = Status!PodResponse(e[p])
  BY DEF AbstractResponses, Status!BuildJobPodsResponses, e
<1>3. /\ DOMAIN b = DOMAIN pods
      /\ \A p \in DOMAIN pods : pods[p] \in StoredPod /\ b[p] = PodResponseOf(pods[p])
  BY PodResponsesType DEF ObjectsOK, PodsInv
<1> HIDE DEF a, b
<1>4. ASSUME NEW p \in DOMAIN pods
      PROVE  /\ b[p].failed = a[p].failed
             /\ b[p].phase = a[p].phase
             /\ TextsOf(b[p].reasons) = a[p].reasons
  <2>1. pods[p] \in StoredPod /\ PodInv(pods[p])
    BY <1>3 DEF PodsInv
  <2>2. b[p] = PodResponseOf(pods[p]) /\ a[p] = Status!PodResponse(AbstractPod(pods[p]))
    BY <1>1, <1>2, <1>3
  <2> QED
    BY <2>1, <2>2, AbstractPodIs
<1> QED
  BY <1>1, <1>2, <1>3, <1>4 DEF a, b

\* A job has failed by its condition, in one as in the other.
LEMMA AbstractConditionIs ==
  ASSUME ObjectsOK
  PROVE  Status!FailureCondition(AbstractJob) <=> FailureCondition(job.status) # <<>>
<1> DEFINE c == job.status.conditions
           t == AbstractJob.conditions
<1>1. DOMAIN t = DOMAIN c /\ \A i \in DOMAIN c : t[i] = c[i].type
  <2>1. t = Each(LAMBDA d : d.type, c)
    BY DEF AbstractJob
  <2> HIDE DEF t, c
  <2> QED
    BY <2>1 DEF Each
<1>2. Status!FailureCondition(AbstractJob) <=> \E i \in DOMAIN t : t[i] = "Failed"
  BY DEF Status!FailureCondition
<1>3. HasFailed(job.status) <=> \E i \in DOMAIN c : c[i].type = "Failed"
  BY DEF HasFailed
<1>4. FailureCondition(job.status) # <<>> <=> HasFailed(job.status)
  BY JobTypes, FailureConditionProperties
<1> HIDE DEF t, c
<1> QED
  BY <1>1, <1>2, <1>3, <1>4

\* The job's list of reasons, and the sets of its pods.
LEMMA AbstractReasonsAre ==
  ASSUME ObjectsOK, JobInv, PodsInv
  PROVE  TextsOf(Response.reasons)
           = UNION {AbstractResponses[p].reasons : p \in DOMAIN AbstractResponses}
<1> DEFINE b == BuildJobPodsResponses(pods)
           ss == Each(LAMBDA r : r.reasons, b)
           s == Response.reasons
           a == AbstractResponses
<1>1. b \in Seq(PodResponse) /\ DOMAIN b = DOMAIN pods
  BY PodResponsesType DEF ObjectsOK, PodsInv
<1>2. s = FlattenSeq(ss)
  BY DEF Response, BuildJobResponse
<1>3. DOMAIN ss = DOMAIN b /\ ss = [i \in DOMAIN b |-> ss[i]] /\ \A i \in DOMAIN b : ss[i] = b[i].reasons
  <2> HIDE DEF b
  <2> QED
    BY DEF Each
<1> HIDE DEF b, ss, s
<1>4. \A i \in DOMAIN b : ss[i] \in Seq(TerminationReason)
  <2>1. \A r \in PodResponse : r.reasons \in Seq(TerminationReason)
    BY DEF PodResponse
  <2>2. \A i \in DOMAIN b : b[i] \in PodResponse
    BY <1>1
  <2> QED
    BY <1>3, <2>1, <2>2
<1>5. ss \in Seq(Seq(TerminationReason)) /\ Len(ss) = Len(b)
  BY <1>1, <1>3, <1>4, SeqMap
<1>6. s \in Seq(TerminationReason) /\ HasValuesOf(s, ss, Len(ss))
  BY <1>2, <1>5, FlattenProperties
<1>7. DOMAIN ss = 1..Len(ss)
  BY <1>5
<1>8. /\ \A k \in DOMAIN s : \E i \in DOMAIN b : \E m \in DOMAIN b[i].reasons : s[k] = b[i].reasons[m]
      /\ \A i \in DOMAIN b : \A m \in DOMAIN b[i].reasons : \E k \in DOMAIN s : s[k] = b[i].reasons[m]
  <2>1. /\ \A k \in DOMAIN s : \E i \in DOMAIN ss : \E m \in DOMAIN ss[i] : s[k] = ss[i][m]
        /\ \A i \in DOMAIN ss : \A m \in DOMAIN ss[i] : \E k \in DOMAIN s : s[k] = ss[i][m]
    BY <1>6, <1>7 DEF HasValuesOf
  <2>2. ASSUME NEW k \in DOMAIN s
        PROVE  \E i \in DOMAIN b : \E m \in DOMAIN b[i].reasons : s[k] = b[i].reasons[m]
    <3>1. PICK i \in DOMAIN ss : \E m \in DOMAIN ss[i] : s[k] = ss[i][m]
      BY <2>1
    <3>2. i \in DOMAIN b /\ ss[i] = b[i].reasons
      BY <1>3, <3>1
    <3> QED
      BY <3>1, <3>2
  <2>3. ASSUME NEW i \in DOMAIN b, NEW m \in DOMAIN b[i].reasons
        PROVE  \E k \in DOMAIN s : s[k] = b[i].reasons[m]
    <3>1. i \in DOMAIN ss /\ ss[i] = b[i].reasons
      BY <1>3
    <3> QED
      BY <2>1, <3>1
  <2> QED
    BY <2>2, <2>3
<1>9. /\ DOMAIN a = DOMAIN b
      /\ \A p \in DOMAIN b : a[p].reasons = TextsOf(b[p].reasons)
  BY <1>1, AbstractResponsesAre DEF b
<1> HIDE DEF a
<1>10. ASSUME NEW x \in TextsOf(s) PROVE x \in UNION {a[p].reasons : p \in DOMAIN a}
  <2>1. PICK k \in DOMAIN s : x = s[k].details.reason
    BY <1>10 DEF TextsOf
  <2>2. PICK i \in DOMAIN b : \E m \in DOMAIN b[i].reasons : s[k] = b[i].reasons[m]
    BY <1>8
  <2>3. x \in TextsOf(b[i].reasons)
    BY <2>1, <2>2 DEF TextsOf
  <2> QED
    BY <1>9, <2>3
<1>11. ASSUME NEW x \in UNION {a[p].reasons : p \in DOMAIN a} PROVE x \in TextsOf(s)
  <2>1. PICK p \in DOMAIN b : x \in TextsOf(b[p].reasons)
    BY <1>9, <1>11
  <2>2. PICK m \in DOMAIN b[p].reasons : x = b[p].reasons[m].details.reason
    BY <2>1 DEF TextsOf
  <2>3. PICK k \in DOMAIN s : s[k] = b[p].reasons[m]
    BY <1>8
  <2> QED
    BY <2>2, <2>3 DEF TextsOf
<1> QED
  BY <1>10, <1>11 DEF s, a

\* The abstract response, field by field.
LEMMA AbstractResponseIs ==
  LET A == AbstractResponse
      failed == Status!JobFailed(AbstractJob, AbstractResponses)
  IN  /\ A.name = "job" /\ A.created = job.created /\ A.active = job.status.active
      /\ A.succeeded = (job.status.completionTime # <<>>)
      /\ A.failed = failed
      /\ A.condition = Status!FailureCondition(AbstractJob)
      /\ A.duration = Status!ToDuration(AbstractJob, failed)
      /\ A.reasons = UNION {AbstractResponses[p].reasons : p \in DOMAIN AbstractResponses}
      /\ A.running = {p \in DOMAIN AbstractResponses : AbstractResponses[p].phase = "Running"}
<1> DEFINE failed == Status!JobFailed(AbstractJob, AbstractResponses)
           reasons == UNION {AbstractResponses[p].reasons : p \in DOMAIN AbstractResponses}
           running == {p \in DOMAIN AbstractResponses : AbstractResponses[p].phase = "Running"}
           duration == Status!ToDuration(AbstractJob, failed)
           condition == Status!FailureCondition(AbstractJob)
           succeeded == Status!JobSucceeded(AbstractJob)
           A == AbstractResponse
<1>1. A = [name |-> "job", created |-> AbstractJob.created, active |-> AbstractJob.active,
           succeeded |-> succeeded, failed |-> failed, condition |-> condition,
           duration |-> duration, reasons |-> reasons, running |-> running]
  BY DEF AbstractResponse, Status!BuildJobResponse, AbstractResponses
<1>2. /\ AbstractJob.created = job.created /\ AbstractJob.active = job.status.active
      /\ AbstractJob.completed = (job.status.completionTime # <<>>)
  BY DEF AbstractJob
<1>3. succeeded = AbstractJob.completed
  BY DEF Status!JobSucceeded
<1> HIDE DEF failed, reasons, running, duration, condition, succeeded, A
<1>4. /\ A.name = "job" /\ A.created = job.created /\ A.active = job.status.active
      /\ A.succeeded = (job.status.completionTime # <<>>)
      /\ A.failed = failed /\ A.condition = condition /\ A.duration = duration
      /\ A.reasons = reasons /\ A.running = running
  BY <1>1, <1>2, <1>3
<1> QED
  BY <1>4 DEF failed, reasons, running, duration, condition, A

\* A duration ends where JobStatus says, by the same tests.
LEMMA AbstractDurationIs ==
  ASSUME ObjectsOK
  PROVE  LET failed == Status!JobFailed(AbstractJob, AbstractResponses)
         IN  DurationInS(job, pods) = Seconds(Status!ToDuration(AbstractJob, failed))
<1> DEFINE failed == Status!JobFailed(AbstractJob, AbstractResponses)
           d == Status!ToDuration(AbstractJob, failed)
           start == job.status.startTime
           end == job.status.completionTime
           c == FailureCondition(job.status)
<1>1. Status!FailureCondition(AbstractJob) <=> c # <<>>
  BY AbstractConditionIs
<1>2. /\ AbstractJob.started = (start # <<>>)
      /\ AbstractJob.completed = (end # <<>>)
  BY DEF AbstractJob
<1>3. Status!FailureCondition(AbstractJob) => failed
  BY DEF Status!JobFailed
<1>4. DurationInS(job, pods) =
        IF start = <<>> THEN 0
        ELSE (IF c # <<>> THEN c[1].lastTransitionTime[1]
              ELSE IF end # <<>> THEN end[1] ELSE now) - start[1]
  BY DurationIs DEF ObjectsOK, End
<1>5. Response.failureCondition = c
  BY DEF Response, BuildJobResponse
<1> HIDE DEF failed, start, end, c
<1>6. /\ start = <<>> => d = "none"
      /\ start # <<>> /\ c # <<>> => d = "condition"
      /\ start # <<>> /\ c = <<>> /\ end # <<>> => d = "completion"
      /\ start # <<>> /\ c = <<>> /\ end = <<>> => d = "now"
  BY <1>1, <1>2, <1>3 DEF Status!ToDuration, Status!NoTime
<1> HIDE DEF d
<1>7. /\ d = "none" => Seconds(d) = 0
      /\ d = "now" => Seconds(d) = now - start[1]
      /\ d = "completion" => Seconds(d) = end[1] - start[1]
      /\ d = "condition" => Seconds(d) = c[1].lastTransitionTime[1] - start[1]
  BY <1>5 DEF Seconds, Status!NoTime, start, end
<1>8. DurationInS(job, pods) = Seconds(d)
  BY <1>4, <1>6, <1>7
<1> QED
  BY <1>8 DEF d, failed

\* The only arrangement of one response, and of none.
LEMMA Sorted ==
  ASSUME NEW r
  PROVE  <<r>> \in Status!SortFunc({r}) /\ <<>> \in Status!SortFunc({})
<1>1. Status!Cardinality({r}) = 1 /\ Status!Cardinality({}) = 0
  <2>1. Cardinality({r}) = 1 /\ Cardinality({}) = 0
    BY FS_Singleton, FS_EmptySet
  <2>2. Status!Cardinality({r}) = Cardinality({r})
    BY DEF Status!Cardinality, Cardinality, Status!IsFiniteSet, IsFiniteSet
  <2>3. Status!Cardinality({}) = Cardinality({})
    BY DEF Status!Cardinality, Cardinality, Status!IsFiniteSet, IsFiniteSet
  <2> QED
    BY <2>1, <2>2, <2>3
<1> DEFINE s == <<r>>
           e == <<>>
<1>2. s \in [1..1 -> {r}] /\ s[1] = r /\ DOMAIN s = {1}
  OBVIOUS
<1>3. e \in [1..0 -> {}] /\ DOMAIN e = {}
  OBVIOUS
<1> HIDE DEF s, e
<1>4. s \in Status!Arrangements({r})
  BY <1>1, <1>2 DEF Status!Arrangements
<1>5. e \in Status!Arrangements({})
  BY <1>1, <1>3 DEF Status!Arrangements
<1>6. s \in Status!SortFunc({r})
  BY <1>2, <1>4 DEF Status!SortFunc
<1>7. e \in Status!SortFunc({})
  BY <1>3, <1>5 DEF Status!SortFunc
<1> QED
  BY <1>6, <1>7 DEF s, e

\* The cronjob of one job: its durations are those of the job, the current one only
\* while the job is active.
LEMMA OneJob ==
  ASSUME NEW r, r.active \in Nat
  PROVE  \E summary \in Status!CronJobResponses({r}) :
            /\ summary.last.until = r.duration
            /\ summary.current.until = IF r.active > 0 THEN r.duration ELSE Status!NoTime
<1> DEFINE R == {x \in {r} : x.active > 0}
           all == <<r>>
           running == IF r.active > 0 THEN <<r>> ELSE <<>>
           summary == Status!CronJobResponse(all, running)
<1>1. R = IF r.active > 0 THEN {r} ELSE {}
  OBVIOUS
<1>2. all \in Status!SortFunc({r}) /\ running \in Status!SortFunc(R)
  BY <1>1, Sorted
<1>3. summary \in Status!CronJobResponses({r})
  <2> DEFINE sorted == Status!SortFunc({r})
             active == Status!SortFunc(R)
  <2>1. Status!CronJobResponses({r}) = {Status!CronJobResponse(u, v) : u \in sorted, v \in active}
    BY DEF Status!CronJobResponses
  <2>2. all \in sorted /\ running \in active
    BY <1>2
  <2> HIDE DEF sorted, active, all, running
  <2> QED
    BY <2>1, <2>2
<1>4. summary.last = Status!GetLastDuration(all) /\ summary.current = Status!GetCurrentDuration(running)
  BY DEF Status!CronJobResponse
<1>5. Status!GetLastDuration(all) = Status!Duration(r)
  <2>1. all # <<>> /\ Len(all) = 1 /\ all[1] = r
    OBVIOUS
  <2> HIDE DEF all
  <2> QED
    BY <2>1 DEF Status!GetLastDuration
<1>6. r.active > 0 => Status!GetCurrentDuration(running) = Status!Duration(r)
  <2> SUFFICES ASSUME r.active > 0
               PROVE  Status!GetCurrentDuration(running) = Status!Duration(r)
    OBVIOUS
  <2>1. running # <<>> /\ Len(running) = 1 /\ running[1] = r
    OBVIOUS
  <2> HIDE DEF running
  <2> QED
    BY <2>1 DEF Status!GetCurrentDuration
<1>7. ~(r.active > 0) => Status!GetCurrentDuration(running) = Status!NoDuration
  BY DEF Status!GetCurrentDuration
<1>8. /\ Status!Duration(r).until = r.duration
      /\ Status!NoDuration.until = Status!NoTime
  BY DEF Status!Duration, Status!NoDuration
<1> HIDE DEF summary, all, running
<1>9. /\ summary.last.until = r.duration
      /\ summary.current.until = IF r.active > 0 THEN r.duration ELSE Status!NoTime
  BY <1>4, <1>5, <1>6, <1>7, <1>8
<1> QED
  BY <1>3, <1>9

LEMMA Agrees ==
  ObjectsOK /\ JobInv /\ PodsInv => AgreesWithJobStatus
<1> SUFFICES ASSUME ObjectsOK, JobInv, PodsInv PROVE AgreesWithJobStatus
  OBVIOUS
<1> DEFINE message == CronjobMessage
           response == message.jobs[1]
           abstract == AbstractResponse
           failed == Status!JobFailed(AbstractJob, AbstractResponses)
           b == BuildJobPodsResponses(pods)
           a == AbstractResponses
           c == FailureCondition(job.status)
<1>1. /\ response = Response
      /\ message.failed = Response.failed
      /\ message.lastDuration = Response.durationInS
      /\ message.currentDuration = IF Response.status.active > 0 THEN Response.durationInS ELSE 0
  BY CronjobMessageIs
<1>2. /\ Response.succeeded = (job.status.completionTime # <<>>)
      /\ Response.failed = JobFailed(job.status, b)
      /\ Response.failureCondition = c
      /\ Response.status.active = job.status.active
      /\ Response.durationInS = DurationInS(job, pods)
      /\ Response.pods = b
  BY DEF Response, BuildJobResponse, MapCustomJobStatus
<1>3. /\ abstract.active = job.status.active
      /\ abstract.succeeded = (job.status.completionTime # <<>>)
      /\ abstract.failed = failed
      /\ abstract.condition = Status!FailureCondition(AbstractJob)
      /\ abstract.duration = Status!ToDuration(AbstractJob, failed)
      /\ abstract.reasons = UNION {a[p].reasons : p \in DOMAIN a}
      /\ abstract.running = {p \in DOMAIN a : a[p].phase = "Running"}
  BY AbstractResponseIs
<1>4. /\ DOMAIN a = DOMAIN b
      /\ \A p \in DOMAIN b : b[p].failed = a[p].failed /\ b[p].phase = a[p].phase
  BY AbstractResponsesAre
<1>5. abstract.condition = (c # <<>>)
  <2>1. Status!FailureCondition(AbstractJob) <=> c # <<>>
    BY AbstractConditionIs
  <2>2. Status!FailureCondition(AbstractJob) \in BOOLEAN
    BY DEF Status!FailureCondition
  <2> HIDE DEF abstract, c
  <2> QED
    BY <1>3, <2>1, <2>2
<1>6. JobFailed(job.status, b) = failed
  <2>1. Status!FailureCondition(AbstractJob) <=> c # <<>>
    BY AbstractConditionIs
  <2>2. JobFailed(job.status, b) = (c # <<>> \/ \E p \in DOMAIN b : b[p].failed)
    BY DEF JobFailed
  <2>3. failed = (Status!FailureCondition(AbstractJob) \/ \E p \in DOMAIN a : a[p].failed)
    BY DEF Status!JobFailed
  <2> HIDE DEF a, b, c, failed
  <2>4. (\E p \in DOMAIN b : b[p].failed) <=> (\E p \in DOMAIN a : a[p].failed)
    BY <1>4
  <2> QED
    BY <2>1, <2>2, <2>3, <2>4
<1>7. Response.durationInS = Seconds(abstract.duration)
  BY <1>2, <1>3, AbstractDurationIs
<1>8. {Response.reasons[i].details.reason : i \in DOMAIN Response.reasons} = abstract.reasons
  BY <1>3, AbstractReasonsAre DEF TextsOf
<1>9. {i \in DOMAIN Response.pods : Response.pods[i].phase = "Running"} = abstract.running
  <2> HIDE DEF a, b, abstract
  <2> QED
    BY <1>2, <1>3, <1>4
<1>10. \E summary \in Status!CronJobResponses({abstract}) :
          /\ message.lastDuration = Seconds(summary.last.until)
          /\ message.currentDuration = Seconds(summary.current.until)
  <2>1. abstract.active \in Nat
    BY <1>3, JobTypes
  <2> HIDE DEF abstract, message
  <2>2. PICK summary \in Status!CronJobResponses({abstract}) :
           /\ summary.last.until = abstract.duration
           /\ summary.current.until = IF abstract.active > 0 THEN abstract.duration ELSE Status!NoTime
    BY <2>1, OneJob
  <2>3. Seconds(Status!NoTime) = 0
    BY DEF Seconds, Status!NoTime
  <2>4. message.lastDuration = Seconds(summary.last.until)
    BY <1>1, <1>7, <2>2
  <2>5. message.currentDuration = Seconds(summary.current.until)
    BY <1>1, <1>2, <1>3, <1>7, <2>2, <2>3
  <2> QED
    BY <2>2, <2>4, <2>5
<1> HIDE DEF message, response, abstract, failed, b, a, c
<1>11. /\ response.succeeded = abstract.succeeded
       /\ response.failed = abstract.failed
       /\ message.failed = abstract.failed
       /\ (response.failureCondition # <<>>) = abstract.condition
       /\ response.durationInS = Seconds(abstract.duration)
       /\ {response.reasons[i].details.reason : i \in DOMAIN response.reasons} = abstract.reasons
       /\ {i \in DOMAIN response.pods : response.pods[i].phase = "Running"} = abstract.running
  BY <1>1, <1>2, <1>3, <1>5, <1>6, <1>7, <1>8, <1>9
<1> QED
  BY <1>10, <1>11 DEF AgreesWithJobStatus, message, response, abstract

\* buildJobResponse and cronJobResponse, field by field, say of any job and its cronjob
\* what JobStatus says of the few fields that decide, whatever its pods went through:
\* what is checked of the streams and the metrics with JobStatus is true of the messages.
THEOREM Agreement == Spec => []AgreesWithJobStatus
<1>1. IInv => ObjectsOK /\ JobInv /\ PodsInv
  BY TypeOKIs DEF IInv
<1> QED
  BY <1>1, Agrees, Invariance, PTL
=============================================================================
