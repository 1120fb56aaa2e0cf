-------------------------- MODULE PodCollectorProofs --------------------------
(***************************************************************************)
(* Proofs about collectPods and FindJobPodsForJob, for every set of pods,  *)
(* any number of writes to the cluster, watches, DB faults and restarts.   *)
(* The first part shows what the string order of resourceVersions is; the  *)
(* second that IInv is inductive; the third joins them.                    *)
(***************************************************************************)
EXTENDS PodCollector, TLAPS, WellFoundedInduction, FiniteSetTheorems

(***************************************************************************)
(* Induction over the natural numbers, as facts about sets of them.        *)
(***************************************************************************)

\* A set of numbers has a least element.
LEMMA LeastNumber ==
  ASSUME NEW T \in SUBSET Nat, T # {}
  PROVE  \E x \in T : \A y \in T : x <= y
<1> DEFINE R == OpToRel(<, Nat)
<1>1. IsWellFoundedOn(R, Nat)
  BY NatLessThanWellFounded
<1>2. \A x, y \in Nat : y < x => <<y, x>> \in R
  BY DEF OpToRel
<1> HIDE DEF R
<1>3. PICK x \in T : \A y \in T : ~ (<<y, x>> \in R)
  BY <1>1, WFMin
<1>4. \A y \in T : x \in Nat /\ y \in Nat /\ ~(y < x)
  BY <1>2, <1>3, Zenon
<1>5. \A a, b \in Nat : ~(b < a) => a <= b
  OBVIOUS
<1> QED
  BY <1>3, <1>4, <1>5, Zenon

\* A set that has each number whose predecessors it has, has them all.
LEMMA SetInduction ==
  ASSUME NEW T \in SUBSET Nat,
         \A n \in Nat : (\A m \in 0..(n - 1) : m \in T) => n \in T
  PROVE  T = Nat
<1> SUFFICES ASSUME T # Nat PROVE FALSE
  OBVIOUS
<1>1. PICK n \in Nat \ T : \A m \in Nat \ T : n <= m
  BY LeastNumber
<1>2. \A m \in 0..(n - 1) : m \in T
  BY <1>1
<1> QED
  BY <1>1, <1>2

(***************************************************************************)
(* Numeral is what its equation says: the equation has a solution, made of *)
(* the solutions on 0..n, which agree.                                     *)
(***************************************************************************)

LEMMA Quotient ==
  ASSUME NEW v \in Nat
  PROVE  /\ v \div 10 \in Nat /\ v % 10 \in 0..9
         /\ v = 10 * (v \div 10) + (v % 10)
         /\ v >= 10 => v \div 10 < v /\ v \div 10 > 0
  OBVIOUS

\* The right side of Numeral's equation.
NextNumeral(f, v) == IF v < 10 THEN <<v>> ELSE Append(f[v \div 10], v % 10)

\* The solutions on 0..n.
NumeralsUpTo(n) ==
    {f \in [0..n -> Seq(Nat)] : \A v \in 0..n : f[v] = NextNumeral(f, v)}

LEMMA NumeralsAgree ==
  ASSUME NEW m \in Nat, NEW n \in Nat, NEW f \in NumeralsUpTo(m), NEW g \in NumeralsUpTo(n)
  PROVE  \A v \in 0..m \cap 0..n : f[v] = g[v]
<1> DEFINE T == {v \in Nat : v <= m /\ v <= n => f[v] = g[v]}
<1>1. ASSUME NEW v \in Nat, \A w \in 0..(v - 1) : w \in T PROVE v \in T
  <2> SUFFICES ASSUME v <= m, v <= n PROVE f[v] = g[v]
    OBVIOUS
  <2>1. f[v] = NextNumeral(f, v) /\ g[v] = NextNumeral(g, v)
    BY DEF NumeralsUpTo
  <2>2. CASE v < 10
    BY <2>1, <2>2 DEF NextNumeral
  <2>3. CASE v >= 10
    <3>1. v \div 10 \in 0..(v - 1)
      BY <2>3, Quotient
    <3>2. f[v \div 10] = g[v \div 10]
      BY <1>1, <3>1
    <3> QED
      BY <2>1, <2>3, <3>2 DEF NextNumeral
  <2> QED
    BY <2>2, <2>3
<1>2. T = Nat
  <2> HIDE DEF T
  <2>1. T \in SUBSET Nat
    BY DEF T
  <2> QED
    BY <1>1, <2>1, SetInduction
<1> QED
  BY <1>2

LEMMA NumeralsExist == \A n \in Nat : NumeralsUpTo(n) # {}
<1> DEFINE T == {n \in Nat : NumeralsUpTo(n) # {}}
<1>1. ASSUME NEW n \in Nat, \A m \in 0..(n - 1) : m \in T PROVE n \in T
  <2>1. CASE n = 0
    <3> DEFINE f == [v \in 0..0 |-> <<v>>]
    <3>1. f \in NumeralsUpTo(0)
      BY DEF NumeralsUpTo, NextNumeral
    <3> QED
      BY <2>1, <3>1
  <2>2. CASE n > 0
    <3>1. PICK f : f \in NumeralsUpTo(n - 1)
      BY <1>1, <2>2
    <3> DEFINE g == [v \in 0..n |-> IF v < n THEN f[v] ELSE NextNumeral(f, n)]
    <3>2. f \in [0..(n - 1) -> Seq(Nat)] /\ \A v \in 0..(n - 1) : f[v] = NextNumeral(f, v)
      BY <3>1 DEF NumeralsUpTo
    <3>3. NextNumeral(f, n) \in Seq(Nat)
      <4>1. CASE n < 10
        BY <4>1 DEF NextNumeral
      <4>2. CASE n >= 10
        <5>1. n \div 10 \in 0..(n - 1) /\ n % 10 \in Nat
          BY <4>2, Quotient
        <5>2. f[n \div 10] \in Seq(Nat)
          BY <3>2, <5>1
        <5> QED
          BY <4>2, <5>1, <5>2 DEF NextNumeral
      <4> QED
        BY <4>1, <4>2
    <3>4. g \in [0..n -> Seq(Nat)]
      BY <3>2, <3>3
    <3>5. ASSUME NEW v \in 0..n PROVE g[v] = NextNumeral(g, v)
      <4>1. g[v] = NextNumeral(f, v)
        BY <3>2
      <4>2. CASE v < 10
        BY <4>1, <4>2 DEF NextNumeral
      <4>3. CASE v >= 10
        <5>1. v \div 10 \in 0..(v - 1)
          BY <4>3, Quotient
        <5>2. g[v \div 10] = f[v \div 10]
          BY <5>1
        <5> QED
          BY <4>1, <4>3, <5>2 DEF NextNumeral
      <4> QED
        BY <4>2, <4>3
    <3> QED
      BY <3>4, <3>5 DEF NumeralsUpTo
  <2> QED
    BY <2>1, <2>2
<1>2. T = Nat
  <2> HIDE DEF T
  <2>1. T \in SUBSET Nat
    BY DEF T
  <2> QED
    BY <1>1, <2>1, SetInduction
<1> QED
  BY <1>2

LEMMA NumeralEquation == \A v \in Nat : Numeral[v] = NextNumeral(Numeral, v)
<1> DEFINE h(n) == CHOOSE f : f \in NumeralsUpTo(n)
           F == [v \in Nat |-> h(v)[v]]
<1>1. \A n \in Nat : h(n) \in NumeralsUpTo(n)
  BY NumeralsExist
<1>2. ASSUME NEW v \in Nat PROVE F[v] = NextNumeral(F, v)
  <2>1. F[v] = h(v)[v] /\ h(v)[v] = NextNumeral(h(v), v)
    <3>1. F[v] = h(v)[v]
      OBVIOUS
    <3> HIDE DEF h
    <3>2. h(v) \in NumeralsUpTo(v) /\ v \in 0..v
      BY <1>1
    <3> QED
      BY <3>1, <3>2 DEF NumeralsUpTo
  <2>2. CASE v < 10
    BY <2>1, <2>2 DEF NextNumeral
  <2>3. CASE v >= 10
    <3> DEFINE q == v \div 10
    <3>1. q \in Nat /\ q \in 0..q \cap 0..v
      BY <2>3, Quotient
    <3>2. h(q) \in NumeralsUpTo(q) /\ h(v) \in NumeralsUpTo(v)
      BY <1>1, <3>1
    <3>3. h(v)[q] = F[q]
      <4> HIDE DEF h
      <4>1. h(v)[q] = h(q)[q]
        BY <3>1, <3>2, NumeralsAgree
      <4> QED
        BY <3>1, <4>1
    <3> QED
      BY <2>1, <2>3, <3>3 DEF NextNumeral
  <2> QED
    BY <2>2, <2>3
<1>3. F = [v \in Nat |-> NextNumeral(F, v)]
  <2> HIDE DEF F
  <2>1. F = [v \in Nat |-> F[v]]
    BY DEF F
  <2> QED
    BY <1>2, <2>1
<1>4. Numeral = CHOOSE f : f = [v \in Nat |-> NextNumeral(f, v)]
  BY DEF Numeral, NextNumeral
<1> HIDE DEF F
<1>5. Numeral = [v \in Nat |-> NextNumeral(Numeral, v)]
  BY <1>3, <1>4
<1> QED
  BY <1>5

LEMMA NumeralType == \A v \in Nat : Numeral[v] \in Seq(Nat)
<1> DEFINE T == {v \in Nat : Numeral[v] \in Seq(Nat)}
<1>1. ASSUME NEW v \in Nat, \A m \in 0..(v - 1) : m \in T PROVE v \in T
  <2>1. Numeral[v] = NextNumeral(Numeral, v)
    BY NumeralEquation
  <2>2. CASE v < 10
    <3>1. <<v>> \in Seq(Nat)
      OBVIOUS
    <3>2. Numeral[v] = <<v>>
      BY <2>1, <2>2 DEF NextNumeral
    <3>3. Numeral[v] \in Seq(Nat)
      BY <3>1, <3>2, Zenon
    <3> QED
      BY <3>3
  <2>3. CASE v >= 10
    <3>1. v \div 10 \in 0..(v - 1) /\ v % 10 \in Nat
      BY <2>3, Quotient
    <3>2. Numeral[v \div 10] \in Seq(Nat)
      BY <1>1, <3>1
    <3>3. Append(Numeral[v \div 10], v % 10) \in Seq(Nat)
      BY <3>1, <3>2
    <3>4. Numeral[v] = Append(Numeral[v \div 10], v % 10)
      BY <2>1, <2>3 DEF NextNumeral
    <3>5. Numeral[v] \in Seq(Nat)
      BY <3>3, <3>4, Zenon
    <3> QED
      BY <3>5
  <2> QED
    BY <2>2, <2>3
<1>2. T = Nat
  <2> HIDE DEF T
  <2>1. T \in SUBSET Nat
    BY DEF T
  <2> QED
    BY <1>1, <2>1, SetInduction
<1> QED
  BY <1>2

(***************************************************************************)
(* The order of the resourceVersion strings.                               *)
(***************************************************************************)

\* a and b first differ at k, where a has the smaller digit.
DiffersAt(k, a, b) ==
    /\ k \in DOMAIN a \cap DOMAIN b
    /\ a[k] < b[k]
    /\ \A i \in 1..(k - 1) : a[i] = b[i]

LEMMA DigitsDecide ==
  ASSUME NEW a \in Seq(Nat), NEW b \in Seq(Nat), NEW k, DiffersAt(k, a, b)
  PROVE  StringLeq(a, b) /\ ~StringLeq(b, a)
<1>1. StringLeq(a, b)
  BY DEF DiffersAt, StringLeq
<1>2. /\ DOMAIN a = 1..Len(a) /\ DOMAIN b = 1..Len(b) /\ Len(a) \in Nat /\ Len(b) \in Nat
      /\ \A i \in DOMAIN a : a[i] \in Nat
      /\ \A i \in DOMAIN b : b[i] \in Nat
  OBVIOUS
<1>3. k \in DOMAIN b /\ k \in DOMAIN a /\ ~(b[k] <= a[k]) /\ b[k] # a[k]
  BY <1>2 DEF DiffersAt
<1>4. ASSUME NEW l \in DOMAIN b \cap DOMAIN a,
             b[l] < a[l], \A i \in 1..(l - 1) : b[i] = a[i]
      PROVE  FALSE
  <2>1. k \in Nat /\ l \in Nat /\ k >= 1 /\ l >= 1
    BY <1>2, <1>3
  <2>2. CASE l < k
    BY <1>2, <1>4, <2>1, <2>2 DEF DiffersAt
  <2>3. CASE k < l
    BY <1>3, <1>4, <2>1, <2>3
  <2>4. CASE k = l
    BY <1>2, <1>3, <1>4, <2>4
  <2> QED
    BY <2>1, <2>2, <2>3, <2>4
<1> QED
  BY <1>1, <1>3, <1>4 DEF StringLeq

LEMMA AppendDigits ==
  ASSUME NEW a \in Seq(Nat), NEW b \in Seq(Nat), Len(a) = Len(b), NEW x \in Nat, NEW y \in Nat
  PROVE  /\ \A k : DiffersAt(k, a, b) => DiffersAt(k, Append(a, x), Append(b, y))
         /\ a = b /\ x < y => DiffersAt(Len(a) + 1, Append(a, x), Append(b, y))
<1>1. PICK c : c = Append(a, x)
  OBVIOUS
<1>2. PICK d : d = Append(b, y)
  OBVIOUS
<1>3. /\ Len(a) \in Nat
      /\ DOMAIN a = 1..Len(a) /\ DOMAIN b = 1..Len(a)
      /\ DOMAIN c = 1..(Len(a) + 1) /\ DOMAIN d = 1..(Len(a) + 1)
      /\ \A i \in 1..Len(a) : c[i] = a[i] /\ d[i] = b[i]
      /\ c[Len(a) + 1] = x /\ d[Len(a) + 1] = y
  BY <1>1, <1>2
<1>4. ASSUME NEW k, DiffersAt(k, a, b) PROVE DiffersAt(k, c, d)
  BY <1>3, <1>4 DEF DiffersAt
<1>5. ASSUME a = b, x < y PROVE DiffersAt(Len(a) + 1, c, d)
  BY <1>3, <1>5 DEF DiffersAt
<1> QED
  BY <1>1, <1>2, <1>4, <1>5

LEMMA NumeralLength ==
  ASSUME NEW v \in Nat
  PROVE  /\ v < 10 => Numeral[v] = <<v>> /\ Len(Numeral[v]) = 1
         /\ v >= 10 => /\ Numeral[v] = Append(Numeral[v \div 10], v % 10)
                       /\ Len(Numeral[v]) = Len(Numeral[v \div 10]) + 1
                       /\ Len(Numeral[v]) > 1
<1>1. ASSUME NEW w \in Nat, w < 10 PROVE Numeral[w] = <<w>> /\ Len(Numeral[w]) = 1
  <2>1. Numeral[w] = NextNumeral(Numeral, w)
    BY NumeralEquation
  <2>2. Numeral[w] = <<w>>
    BY <1>1, <2>1 DEF NextNumeral
  <2>3. Len(<<w>>) = 1
    OBVIOUS
  <2> QED
    BY <2>2, <2>3
<1>2. \A w \in Nat : w >= 10 => /\ Numeral[w] = Append(Numeral[w \div 10], w % 10)
                                /\ Len(Numeral[w]) = Len(Numeral[w \div 10]) + 1
  <2> SUFFICES ASSUME NEW w \in Nat, w >= 10
               PROVE  /\ Numeral[w] = Append(Numeral[w \div 10], w % 10)
                      /\ Len(Numeral[w]) = Len(Numeral[w \div 10]) + 1
    OBVIOUS
  <2>1. w \div 10 \in Nat /\ w % 10 \in Nat
    BY Quotient
  <2>2. Numeral[w \div 10] \in Seq(Nat)
    BY <2>1, NumeralType
  <2>3. Numeral[w] = Append(Numeral[w \div 10], w % 10)
    <3>1. Numeral[w] = NextNumeral(Numeral, w)
      BY NumeralEquation
    <3> QED
      BY <3>1 DEF NextNumeral
  <2>4. Len(Append(Numeral[w \div 10], w % 10)) = Len(Numeral[w \div 10]) + 1
    BY <2>1, <2>2
  <2> QED
    BY <2>3, <2>4
<1>3. ASSUME v >= 10 PROVE Len(Numeral[v]) > 1
  <2>1. v \div 10 \in Nat /\ (v \div 10) \div 10 \in Nat
    BY Quotient
  <2>2. Len(Numeral[(v \div 10) \div 10]) \in Nat
    BY <2>1, NumeralType
  <2>3. Len(Numeral[v \div 10]) \in Nat /\ Len(Numeral[v \div 10]) >= 1
    BY <1>1, <1>2, <2>1, <2>2
  <2> QED
    BY <1>2, <1>3, <2>3
<1> QED
  BY <1>1, <1>2, <1>3

\* Numerals of the same length are in the order of their numbers.
LEMMA NumeralOrder ==
  ASSUME NEW v \in Nat, NEW w \in Nat, Len(Numeral[v]) = Len(Numeral[w]), v < w
  PROVE  \E k : DiffersAt(k, Numeral[v], Numeral[w])
<1> DEFINE T == {n \in Nat : \A m \in Nat : n < m /\ Len(Numeral[n]) = Len(Numeral[m]) =>
                    \E k : DiffersAt(k, Numeral[n], Numeral[m])}
<1>1. ASSUME NEW n \in Nat, \A q \in 0..(n - 1) : q \in T PROVE n \in T
  <2> SUFFICES ASSUME NEW m \in Nat, n < m, Len(Numeral[n]) = Len(Numeral[m])
               PROVE  \E k : DiffersAt(k, Numeral[n], Numeral[m])
    OBVIOUS
  <2>1. CASE n < 10
    <3>1. Len(Numeral[n]) = 1 /\ (m >= 10 => Len(Numeral[m]) > 1)
      BY <2>1, NumeralLength, Zenon
    <3>2. m < 10
      BY <3>1
    <3>3. Numeral[n] = <<n>> /\ Numeral[m] = <<m>>
      BY <2>1, <3>2, NumeralLength
    <3>4. DiffersAt(1, <<n>>, <<m>>)
      BY DEF DiffersAt
    <3> QED
      BY <3>3, <3>4
  <2>2. CASE n >= 10
    <3>1. PICK s, t, x, y : s = n \div 10 /\ t = m \div 10 /\ x = n % 10 /\ y = m % 10
      OBVIOUS
    <3>2. m >= 10
      BY <2>2
    <3>3. /\ s \in 0..(n - 1) /\ s \in Nat /\ x \in Nat /\ x \in 0..9 /\ n = 10 * s + x
          /\ t \in Nat /\ y \in Nat /\ y \in 0..9 /\ m = 10 * t + y
      BY <2>2, <3>1, Quotient
    <3>4. s < t \/ (s = t /\ x < y)
      BY <3>3
    <3>5. /\ Numeral[n] = Append(Numeral[s], x) /\ Numeral[m] = Append(Numeral[t], y)
          /\ Len(Numeral[n]) = Len(Numeral[s]) + 1 /\ Len(Numeral[m]) = Len(Numeral[t]) + 1
      BY <2>2, <3>1, <3>2, NumeralLength
    <3>6. Numeral[s] \in Seq(Nat) /\ Numeral[t] \in Seq(Nat)
      BY <3>3, NumeralType
    <3>7. Len(Numeral[s]) = Len(Numeral[t])
      <4>1. Len(Numeral[s]) \in Nat /\ Len(Numeral[t]) \in Nat
        BY <3>6
      <4> QED
        BY <3>5, <4>1
    <3>8. CASE s < t
      <4>1. \E k : DiffersAt(k, Numeral[s], Numeral[t])
        BY <1>1, <3>3, <3>7, <3>8
      <4> QED
        BY <3>3, <3>5, <3>6, <3>7, <4>1, AppendDigits
    <3>9. CASE s = t /\ x < y
      BY <3>3, <3>5, <3>6, <3>7, <3>9, AppendDigits
    <3> QED
      BY <3>4, <3>8, <3>9
  <2> QED
    BY <2>1, <2>2
<1>2. T = Nat
  <2> HIDE DEF T
  <2>1. T \in SUBSET Nat
    BY DEF T
  <2> QED
    BY <1>1, <2>1, SetInduction
<1> QED
  BY <1>2

(***************************************************************************)
(* What is stored of a pod, and what is sent about it.                     *)
(***************************************************************************)

LEMMA Types ==
  ASSUME TypeOK
  PROVE  /\ Len(chan) \in Nat /\ DOMAIN chan = 1..Len(chan)
         /\ \A i \in 1..Len(chan) : chan[i] \in Event
         /\ \A n \in Names : Newest(n) \in Nat /\ live[n] \in Nat /\ died[n] \in Nat
         /\ rv \in Nat /\ openRV \in Nat
  BY DEF TypeOK, ClusterTypeOK, Newest

LEMMA SentDef ==
  ASSUME TypeOK, NEW n, NEW v
  PROVE  v \in SentVersions(n) <=> \E i \in 1..Len(chan) : chan[i].name = n /\ chan[i].ver = v
  BY Types DEF SentVersions, Pending

LEMMA LastDef ==
  ASSUME TypeOK
  PROVE  LastEventInv <=>
           \A n \in Names : \A i \in 1..Len(chan) : chan[i].name = n =>
             \E j \in 1..Len(chan) : i <= j /\ chan[j].name = n /\ chan[j].ver = Newest(n)
  BY Types DEF LastEventInv, Pending

LEMMA AppendStored ==
  ASSUME NEW h \in Seq(Nat), NEW v \in Nat
  PROVE  {Append(h, v)[i] : i \in DOMAIN Append(h, v)} = {h[i] : i \in DOMAIN h} \cup {v}
<1>1. PICK a : a = Append(h, v)
  OBVIOUS
<1>2. /\ Len(h) \in Nat /\ DOMAIN h = 1..Len(h) /\ DOMAIN a = 1..(Len(h) + 1)
      /\ \A i \in 1..Len(h) : a[i] = h[i]
      /\ a[Len(h) + 1] = v
  BY <1>1
<1>3. {a[i] : i \in DOMAIN a} = {h[i] : i \in DOMAIN h} \cup {v}
  BY <1>2
<1> QED
  BY <1>1, <1>3

LEMMA ChanDomain ==
  ASSUME chan' \in Seq(Event)
  PROVE  DOMAIN chan' = 1..Len(chan') /\ Len(chan') \in Nat
  OBVIOUS

LEMMA LastNext ==
  ASSUME chan' \in Seq(Event),
         \A n \in Names : \A i \in 1..Len(chan') : chan'[i].name = n =>
           \E j \in 1..Len(chan') : i <= j /\ chan'[j].name = n /\ chan'[j].ver = Newest(n)'
  PROVE  LastEventInv'
  BY ChanDomain DEF LastEventInv, Pending

\* Taking an event shifts the ones that wait.
LEMMA TakeShifts ==
  ASSUME TypeOK, TakeEvent
  PROVE  /\ chan' \in Seq(Event)
         /\ Len(chan') = Len(chan) - 1
         /\ Len(chan) \in Nat \ {0}
         /\ \A i \in 1..Len(chan') : i + 1 \in 1..Len(chan) /\ chan'[i] = chan[i + 1]
         /\ \A i \in 1..Len(chan) : i = 1 \/ (i - 1 \in 1..Len(chan') /\ chan'[i - 1] = chan[i])
         /\ Head(chan) = chan[1]
         /\ Head(chan) \in Event
<1>1. chan \in Seq(Event) /\ chan # <<>> /\ chan' = Tail(chan)
  BY DEF TypeOK, ClusterTypeOK, TakeEvent
<1>2. /\ chan' \in Seq(Event) /\ Len(chan') = Len(chan) - 1 /\ Len(chan) \in Nat \ {0}
      /\ \A i \in 1..Len(chan') : chan'[i] = chan[i + 1]
      /\ Head(chan) = chan[1] /\ Head(chan) \in Event
  BY <1>1
<1>3. ASSUME NEW i \in 1..Len(chan), i # 1
      PROVE  i - 1 \in 1..Len(chan') /\ chan'[i - 1] = chan[i]
  <2>1. i - 1 \in 1..Len(chan') /\ (i - 1) + 1 = i
    BY <1>2, <1>3
  <2> QED
    BY <1>2, <2>1
<1> QED
  BY <1>2, <1>3

LEMMA TakeVersions ==
  ASSUME TypeOK, TakeEvent, NEW n
  PROVE  /\ SentVersions(n)' \subseteq SentVersions(n)
         /\ n # Head(chan).name => SentVersions(n)' = SentVersions(n)
         /\ n = Head(chan).name =>
              /\ Head(chan).ver \in SentVersions(n)
              /\ SentVersions(n) = SentVersions(n)' \cup {Head(chan).ver}
<1>1. \A v : v \in SentVersions(n)' <=>
               \E i \in 1..Len(chan') : chan'[i].name = n /\ chan'[i].ver = v
  BY ChanDomain, TakeShifts DEF SentVersions, Pending
<1>2. \A v : v \in SentVersions(n) <=>
               \E i \in 1..Len(chan) : chan[i].name = n /\ chan[i].ver = v
  BY SentDef
<1>3. SentVersions(n)' \subseteq SentVersions(n)
  BY <1>1, <1>2, TakeShifts
<1>4. Head(chan) = chan[1] /\ 1 \in 1..Len(chan)
  BY TakeShifts
<1>5. ASSUME NEW v \in SentVersions(n)
      PROVE  v \in SentVersions(n)' \/ (n = Head(chan).name /\ v = Head(chan).ver)
  <2>1. PICK i \in 1..Len(chan) : chan[i].name = n /\ chan[i].ver = v
    BY <1>2, <1>5
  <2>2. CASE i = 1
    BY <1>4, <2>1, <2>2
  <2>3. CASE i # 1
    BY <1>1, <2>1, <2>3, TakeShifts
  <2> QED
    BY <2>2, <2>3
<1>6. n = Head(chan).name => Head(chan).ver \in SentVersions(n)
  BY <1>2, <1>4
<1> QED
  BY <1>3, <1>5, <1>6

LEMMA TakeLast ==
  ASSUME TypeOK, TakeEvent, LastEventInv
  PROVE  LastEventInv'
<1>1. \A n \in Names : Newest(n)' = Newest(n)
  BY DEF TakeEvent, Newest
<1>2. SUFFICES ASSUME NEW n \in Names, NEW i \in 1..Len(chan'), chan'[i].name = n
               PROVE  \E j \in 1..Len(chan') :
                        i <= j /\ chan'[j].name = n /\ chan'[j].ver = Newest(n)'
  BY LastNext, TakeShifts
<1>3. i + 1 \in 1..Len(chan) /\ chan[i + 1].name = n
  BY <1>2, TakeShifts
<1>4. PICK j \in 1..Len(chan) : i + 1 <= j /\ chan[j].name = n /\ chan[j].ver = Newest(n)
  BY <1>2, <1>3, LastDef
<1>5. j # 1 /\ j - 1 \in 1..Len(chan') /\ chan'[j - 1] = chan[j] /\ i <= j - 1
  BY <1>4, TakeShifts
<1> QED
  BY <1>1, <1>4, <1>5

(***************************************************************************)
(* A write to a pod.                                                       *)
(***************************************************************************)

LEMMA PublishAppends ==
  ASSUME TypeOK, NEW e \in Event, Publish(e)
  PROVE  /\ chan' \in Seq(Event)
         /\ \A i \in 1..Len(chan) : i \in 1..Len(chan') /\ chan'[i] = chan[i]
         /\ watch = "open" => Len(chan') = Len(chan) + 1 /\ chan'[Len(chan) + 1] = e
         /\ \A i \in 1..Len(chan') : \/ i \in 1..Len(chan)
                                     \/ watch = "open" /\ i = Len(chan) + 1
  BY DEF TypeOK, ClusterTypeOK, Publish

LEMMA PublishVersions ==
  ASSUME TypeOK, NEW e \in Event, Publish(e), NEW n
  PROVE  SentVersions(n)' = IF n = e.name /\ watch = "open"
                            THEN SentVersions(n) \cup {e.ver} ELSE SentVersions(n)
<1>1. \A v : v \in SentVersions(n)' <=>
               \E i \in 1..Len(chan') : chan'[i].name = n /\ chan'[i].ver = v
  BY ChanDomain, PublishAppends DEF SentVersions, Pending
<1>2. \A v : v \in SentVersions(n) <=>
               \E i \in 1..Len(chan) : chan[i].name = n /\ chan[i].ver = v
  BY SentDef
<1>3. SentVersions(n) \subseteq SentVersions(n)'
  BY <1>1, <1>2, PublishAppends
<1>4. \A v \in SentVersions(n)' : v \in SentVersions(n) \/
                                  (watch = "open" /\ n = e.name /\ v = e.ver)
  BY <1>1, <1>2, PublishAppends
<1>5. watch = "open" /\ n = e.name => e.ver \in SentVersions(n)'
  BY <1>1, Types, PublishAppends
<1> QED
  BY <1>3, <1>4, <1>5

LEMMA WriteInv ==
  ASSUME IInv, NEW n \in Names, NEW e \in Event,
         e.name = n, e.type # "ERROR", e.ver = rv + 1, Publish(e),
         rv < MaxRV, rv' = rv + 1,
         live' \in [Names -> Nat], died' \in [Names -> Nat],
         \A m \in Names \ {n} :
           live'[m] = live[m] /\ died'[m] = died[m] /\ pending'[m] = pending[m],
         \/ live'[n] = rv + 1 /\ died'[n] = 0
         \/ live'[n] = 0 /\ died'[n] = rv + 1,
         pending' \in [Names -> SUBSET Nat],
         pending'[n] \subseteq 1..(rv + 1),
         rv + 1 \in pending'[n] => StoredVersions(n) \cup SentVersions(n) \subseteq pending'[n],
         UNCHANGED <<watch, openRV, loopVars, podVars, tainted, opens>>
  PROVE  IInv'
<1>1. TypeOK'
  BY PublishAppends DEF IInv, TypeOK, ClusterTypeOK, LoopTypeOK, loopVars, podVars
<1>2. /\ TypeOK /\ rv \in Nat /\ MaxRV \in Nat
      /\ \A m \in Names : Newest(m) \in 0..rv /\ Newest(m) \in Nat
  BY Types, MaxRVAssumption DEF IInv, WritesInv, Newest
<1>3. Newest(n)' = rv + 1 /\ \A m \in Names \ {n} : Newest(m)' = Newest(m)
  BY <1>2 DEF Newest
<1>4. \A m \in Names : /\ StoredVersions(m)' = StoredVersions(m)
                       /\ SentVersions(m) \subseteq SentVersions(m)'
                       /\ m # n => SentVersions(m)' = SentVersions(m)
                       /\ SentVersions(m)' \subseteq SentVersions(m) \cup {rv + 1}
                       /\ watch = "open" => rv + 1 \in SentVersions(n)'
  BY <1>2, PublishVersions DEF StoredVersions, podVars
<1>5. WatchInv' /\ WritesInv'
  BY <1>2 DEF IInv, WatchInv, WritesInv, loopVars
<1>6. EventInv'
  <2>1. \A i \in 1..Len(chan') : chan'[i].type = "ERROR" <=> chan'[i].name = NoName
    BY <1>2, PublishAppends, NamesAssumption, Types DEF IInv, EventInv
  <2> QED
    BY <1>2, <2>1, PublishAppends, ChanDomain DEF EventInv
<1>7. VersionInv'
  BY <1>2, <1>3, <1>4 DEF IInv, VersionInv
<1>8. PendingInv'
  <2>1. \A m \in Names \ {n} : /\ pending'[m] \subseteq 1..Newest(m)'
                               /\ Newest(m)' \in pending'[m] =>
                                   StoredVersions(m)' \cup SentVersions(m)' \subseteq pending'[m]
    BY <1>3, <1>4 DEF IInv, PendingInv
  <2>2. /\ pending'[n] \subseteq 1..Newest(n)'
        /\ Newest(n)' \in pending'[n] =>
             StoredVersions(n)' \cup SentVersions(n)' \subseteq pending'[n]
    BY <1>3, <1>4
  <2> QED
    BY <2>1, <2>2 DEF PendingInv
<1>9. ASSUME watch = "open" PROVE LastEventInv'
  <2>1. chan' \in Seq(Event)
    BY <1>2, PublishAppends
  <2>2. ASSUME NEW m \in Names, NEW i \in 1..Len(chan'), chan'[i].name = m
        PROVE  \E j \in 1..Len(chan') :
                 i <= j /\ chan'[j].name = m /\ chan'[j].ver = Newest(m)'
    <3>1. CASE m = n
      <4>1. /\ Len(chan) + 1 \in 1..Len(chan') /\ i <= Len(chan) + 1
            /\ chan'[Len(chan) + 1] = e
        BY <1>2, <1>9, Types, PublishAppends
      <4> QED
        BY <1>3, <3>1, <4>1
    <3>2. CASE m # n
      <4>1. i \in 1..Len(chan) /\ chan'[i] = chan[i]
        BY <1>2, <1>9, <2>2, <3>2, PublishAppends
      <4>2. PICK j \in 1..Len(chan) : i <= j /\ chan[j].name = m /\ chan[j].ver = Newest(m)
        BY <1>2, <1>9, <2>2, <4>1, LastDef DEF IInv
      <4> QED
        BY <1>2, <1>3, <3>2, <4>2, PublishAppends
    <3> QED
      BY <3>1, <3>2
  <2> QED
    BY <2>1, <2>2, LastNext
<1>10. ASSUME watch = "open" PROVE SettledInv'
  BY <1>3, <1>4, <1>10 DEF IInv, SettledInv
<1> QED
  BY <1>1, <1>5, <1>6, <1>7, <1>8, <1>9, <1>10 DEF IInv

LEMMA CreatePodInv ==
  ASSUME IInv, NEW n \in Names, CreatePod(n), UNCHANGED <<loopVars, podVars, tainted, opens>>
  PROVE  IInv'
<1> DEFINE e == [type |-> IF live[n] = 0 THEN "ADDED" ELSE "MODIFIED",
                 name |-> n, ver |-> rv + 1]
<1>1. /\ live \in [Names -> Nat] /\ died \in [Names -> Nat] /\ rv \in Nat
      /\ pending \in [Names -> SUBSET Nat]
  BY DEF IInv, TypeOK, ClusterTypeOK
<1>2. e \in Event /\ e.name = n /\ e.type # "ERROR" /\ e.ver = rv + 1
  BY <1>1 DEF Event, EventTypes
<1>3. Publish(e) /\ rv < MaxRV /\ rv' = rv + 1 /\ UNCHANGED <<died, watch, openRV>>
  BY DEF CreatePod, Put
<1>4. /\ live' \in [Names -> Nat] /\ live'[n] = rv + 1
      /\ \A m \in Names \ {n} : live'[m] = live[m]
  BY <1>1 DEF CreatePod, Put
<1>5. died' \in [Names -> Nat] /\ died'[n] = 0 /\ \A m \in Names : died'[m] = died[m]
  BY <1>1, <1>3 DEF CreatePod
<1>6. /\ pending' \in [Names -> SUBSET Nat] /\ pending'[n] = {rv + 1}
      /\ \A m \in Names \ {n} : pending'[m] = pending[m]
  BY <1>1 DEF CreatePod
<1>7. StoredVersions(n) \cup SentVersions(n) = {}
  BY DEF IInv, VersionInv, Newest, CreatePod
<1> HIDE DEF e
<1> QED
  BY <1>1, <1>2, <1>3, <1>4, <1>5, <1>6, <1>7, WriteInv

LEMMA ModifyPodInv ==
  ASSUME IInv, NEW n \in Names, ModifyPod(n), UNCHANGED <<loopVars, podVars, tainted, opens>>
  PROVE  IInv'
<1> DEFINE e == [type |-> IF live[n] = 0 THEN "ADDED" ELSE "MODIFIED",
                 name |-> n, ver |-> rv + 1]
<1>1. /\ live \in [Names -> Nat] /\ died \in [Names -> Nat] /\ rv \in Nat
      /\ pending \in [Names -> SUBSET Nat]
  BY DEF IInv, TypeOK, ClusterTypeOK
<1>2. e \in Event /\ e.name = n /\ e.type # "ERROR" /\ e.ver = rv + 1
  BY <1>1 DEF Event, EventTypes
<1>3. Publish(e) /\ rv < MaxRV /\ rv' = rv + 1 /\ UNCHANGED <<died, watch, openRV, pending>>
  BY DEF ModifyPod, Put
<1>4. /\ live' \in [Names -> Nat] /\ live'[n] = rv + 1
      /\ \A m \in Names \ {n} : live'[m] = live[m]
  BY <1>1 DEF ModifyPod, Put
<1>5. died' \in [Names -> Nat] /\ died'[n] = 0 /\ \A m \in Names : died'[m] = died[m]
  BY <1>1, <1>3 DEF ModifyPod, IInv, WritesInv
<1>6. pending'[n] \subseteq 1..(rv + 1) /\ rv + 1 \notin pending'[n]
  <2>1. Newest(n) \in Nat /\ Newest(n) <= rv /\ pending[n] \subseteq 1..Newest(n)
    BY Types DEF IInv, PendingInv, WritesInv, Newest
  <2> QED
    BY <1>1, <1>3, <2>1
<1> HIDE DEF e
<1> QED
  BY <1>1, <1>2, <1>3, <1>4, <1>5, <1>6, WriteInv

LEMMA DeletePodInv ==
  ASSUME IInv, NEW n \in Names, DeletePod(n), UNCHANGED <<loopVars, podVars, tainted, opens>>
  PROVE  IInv'
<1> DEFINE e == [type |-> "DELETED", name |-> n, ver |-> rv + 1]
<1>1. /\ live \in [Names -> Nat] /\ died \in [Names -> Nat] /\ rv \in Nat
      /\ pending \in [Names -> SUBSET Nat]
  BY DEF IInv, TypeOK, ClusterTypeOK
<1>2. e \in Event /\ e.name = n /\ e.type # "ERROR" /\ e.ver = rv + 1
  BY <1>1 DEF Event, EventTypes
<1>3. Publish(e) /\ rv < MaxRV /\ rv' = rv + 1 /\ UNCHANGED <<watch, openRV>>
  BY DEF DeletePod, Delete
<1>4. /\ live' \in [Names -> Nat] /\ live'[n] = 0 /\ died' \in [Names -> Nat]
      /\ died'[n] = rv + 1
      /\ \A m \in Names \ {n} : live'[m] = live[m] /\ died'[m] = died[m]
  BY <1>1 DEF DeletePod, Delete
<1>5. /\ pending' \in [Names -> SUBSET Nat]
      /\ \A m \in Names \ {n} : pending'[m] = pending[m]
      /\ pending'[n] = IF live[n] \in pending[n] THEN pending[n] \cup {rv + 1} ELSE pending[n]
  BY <1>1 DEF DeletePod
<1>6. /\ Newest(n) = live[n] /\ live[n] \in Nat /\ live[n] <= rv
      /\ pending[n] \subseteq 1..live[n]
      /\ live[n] \in pending[n] => StoredVersions(n) \cup SentVersions(n) \subseteq pending[n]
  BY <1>1 DEF IInv, PendingInv, WritesInv, Newest, DeletePod, Delete
<1>7. pending'[n] \subseteq 1..(rv + 1)
  BY <1>1, <1>5, <1>6
<1>8. rv + 1 \in pending'[n] => StoredVersions(n) \cup SentVersions(n) \subseteq pending'[n]
  BY <1>1, <1>5, <1>6
<1> HIDE DEF e
<1> QED
  BY <1>1, <1>2, <1>3, <1>4, <1>5, <1>7, <1>8, WriteInv

(***************************************************************************)
(* The steps of the watch.                                                 *)
(***************************************************************************)

LEMMA EndWatchInv ==
  ASSUME IInv, EndWatch, UNCHANGED <<pending, loopVars, podVars, tainted, opens>>
  PROVE  IInv'
<1>1. /\ TypeOK /\ chan \in Seq(Event) /\ watch = "open" /\ watch' = "ended"
      /\ UNCHANGED <<live, died, rv, openRV>>
  BY DEF IInv, TypeOK, ClusterTypeOK, EndWatch
<1>2. PICK k \in 0..Len(chan) :
        chan' \in {SubSeq(chan, 1, k), Append(SubSeq(chan, 1, k), ErrorEvent)}
  BY DEF EndWatch
<1>3. ErrorEvent \in Event /\ ErrorEvent.type = "ERROR" /\ ErrorEvent.name = NoName
  BY DEF ErrorEvent, Event, EventTypes
<1>4. PICK s : s = SubSeq(chan, 1, k)
  OBVIOUS
<1>5. /\ s \in Seq(Event) /\ Len(s) = k /\ k \in Nat
      /\ \A i \in 1..k : i \in 1..Len(chan) /\ s[i] = chan[i]
  BY <1>1, <1>4
<1>6. /\ chan' \in Seq(Event) /\ DOMAIN chan' = 1..Len(chan')
      /\ \A i \in 1..Len(chan') : \/ i \in 1..Len(chan) /\ chan'[i] = chan[i]
                                  \/ chan'[i] = ErrorEvent
  <2>1. CASE chan' = s
    BY <1>5, <2>1
  <2>2. CASE chan' = Append(s, ErrorEvent)
    BY <1>3, <1>5, <2>2
  <2> QED
    BY <1>2, <1>4, <2>1, <2>2
<1>7. TypeOK'
  BY <1>1, <1>6 DEF TypeOK, ClusterTypeOK, LoopTypeOK, loopVars, podVars
<1>8. WatchInv' /\ EventInv' /\ WritesInv'
  BY <1>1, <1>3, <1>6, Types DEF IInv, WatchInv, EventInv, WritesInv, loopVars
<1>9. \A n \in Names : /\ Newest(n)' = Newest(n) /\ StoredVersions(n)' = StoredVersions(n)
                       /\ SentVersions(n)' \subseteq SentVersions(n)
  <2> SUFFICES ASSUME NEW n \in Names, NEW v \in SentVersions(n)'
               PROVE  v \in SentVersions(n)
    BY <1>1 DEF Newest, StoredVersions, podVars
  <2>1. PICK i \in 1..Len(chan') : chan'[i].name = n /\ chan'[i].ver = v
    BY <1>6 DEF SentVersions, Pending
  <2> QED
    BY <1>1, <1>3, <1>6, <2>1, SentDef, NamesAssumption
<1>10. VersionInv' /\ PendingInv'
  BY <1>1, <1>9 DEF IInv, VersionInv, PendingInv
<1> QED
  BY <1>1, <1>7, <1>8, <1>10 DEF IInv

LEMMA NoneSent ==
  ASSUME chan' = <<>>
  PROVE  /\ EventInv' /\ chan' \in Seq(Event)
         /\ \A n : SentVersions(n)' = {}
<1>1. DOMAIN chan' = {} /\ chan' \in Seq(Event)
  OBVIOUS
<1> QED
  BY <1>1 DEF EventInv, SentVersions, Pending

LEMMA StopWatchInv ==
  ASSUME IInv, StopWatch, LoopTypeOK', UNCHANGED <<podVars, pending, tainted, opens>>
  PROVE  IInv'
<1>1. /\ watch' = "none" /\ chan' = <<>> /\ UNCHANGED <<live, died, rv, openRV>>
  BY DEF StopWatch
<1>2. TypeOK'
  BY <1>1, NoneSent DEF IInv, TypeOK, ClusterTypeOK, podVars
<1>3. \A n \in Names : Newest(n)' = Newest(n) /\ StoredVersions(n)' = StoredVersions(n)
  BY <1>1 DEF Newest, StoredVersions, podVars
<1> QED
  BY <1>1, <1>2, <1>3, NoneSent
  DEF IInv, WatchInv, WritesInv, VersionInv, PendingInv

\* The steps of the loop that leave the watch alone.
LEMMA QuietLoopInv ==
  ASSUME IInv, UNCHANGED clusterVars, LoopTypeOK', pc' = pc \/ pc # "receiving",
         UNCHANGED <<podVars, pending, tainted, opens>>
  PROVE  IInv'
<1>1. \A n \in Names : /\ Newest(n)' = Newest(n) /\ StoredVersions(n)' = StoredVersions(n)
                       /\ Pending(n)' = Pending(n) /\ SentVersions(n)' = SentVersions(n)
  BY DEF clusterVars, podVars, Newest, StoredVersions, Pending, SentVersions
<1>2. TypeOK'
  BY DEF IInv, TypeOK, ClusterTypeOK, clusterVars, podVars
<1>3. WatchInv'
  BY DEF IInv, WatchInv, clusterVars
<1>4. EventInv' /\ WritesInv' /\ VersionInv' /\ PendingInv'
  BY <1>1 DEF IInv, EventInv, WritesInv, VersionInv, PendingInv, clusterVars
<1>5. watch' = "open" => LastEventInv' /\ SettledInv'
  BY <1>1 DEF IInv, LastEventInv, SettledInv, clusterVars
<1> QED
  BY <1>2, <1>3, <1>4, <1>5 DEF IInv

LEMMA LoopInv ==
  ASSUME IInv, LoopNext, UNCHANGED <<podVars, pending, tainted, opens>>
  PROVE  IInv'
<1>1. LoopTypeOK'
  BY DEF IInv, TypeOK, LoopTypeOK, LoopStates, LoopNext, Goto, OpenFails, Retry, StopInBackoff,
         WatchEnded, StopReceiving, Cancel, Crash
<1>2. CASE WatchEnded \/ StopReceiving \/ Crash
  BY <1>1, <1>2, StopWatchInv DEF WatchEnded, StopReceiving, Crash
<1>3. CASE OpenFails \/ Retry \/ StopInBackoff \/ Cancel
  <2>1. UNCHANGED clusterVars /\ (pc' = pc \/ pc # "receiving")
    BY <1>3 DEF OpenFails, Retry, StopInBackoff, Cancel, Goto
  <2> QED
    BY <1>1, <2>1, QuietLoopInv
<1> QED
  BY <1>2, <1>3 DEF LoopNext

\* Orderings lists each live pod once, so that its version is sent.
LEMMA SyntheticEvents ==
  ASSUME TypeOK, NEW order \in Orderings(LiveNames)
  PROVE  /\ SyntheticAdded(order) \in Seq(Event)
         /\ \A i \in DOMAIN SyntheticAdded(order) :
              LET e == SyntheticAdded(order)[i]
              IN  e.type = "ADDED" /\ e.name \in LiveNames /\ e.ver = live[e.name]
         /\ \A n \in LiveNames : \E i \in DOMAIN SyntheticAdded(order) :
              SyntheticAdded(order)[i].name = n
<1>1. IsFiniteSet(LiveNames)
  BY NamesAssumption, FS_Subset DEF LiveNames
<1>2. PICK k \in Nat : k = Cardinality(LiveNames)
  BY <1>1, FS_CardinalityType
<1>3. /\ order \in [1..k -> LiveNames]
      /\ \A x \in LiveNames : \E i \in DOMAIN order : order[i] = x
  BY <1>2 DEF Orderings
<1>4. \A i \in 1..k : order[i] \in Names /\ live[order[i]] \in Nat
  BY <1>3, Types DEF LiveNames
<1>5. PICK a : a = SyntheticAdded(order)
  OBVIOUS
<1>6. a = [i \in 1..k |-> [type |-> "ADDED", name |-> order[i], ver |-> live[order[i]]]]
  BY <1>3, <1>5 DEF SyntheticAdded
<1>7. a \in [1..k -> Event]
  BY <1>4, <1>6 DEF Event, EventTypes
<1>8. a \in Seq(Event)
  BY <1>2, <1>7
<1>9. DOMAIN a = 1..k /\ DOMAIN order = 1..k
  BY <1>3, <1>6
<1>10. \A i \in DOMAIN a : a[i].type = "ADDED" /\ a[i].name = order[i] /\ a[i].ver = live[order[i]]
  BY <1>6, <1>9
<1>11. \A i \in DOMAIN a : a[i].type = "ADDED" /\ a[i].name \in LiveNames /\ a[i].ver = live[a[i].name]
  BY <1>3, <1>9, <1>10
<1>12. \A n \in LiveNames : \E i \in DOMAIN a : a[i].name = n
  BY <1>3, <1>9, <1>10
<1> QED
  BY <1>5, <1>8, <1>11, <1>12

LEMMA OpenInv == ASSUME IInv, Open PROVE IInv'
<1>1. /\ TypeOK /\ watch' = "open" /\ openRV' = rv /\ pc' = "receiving" /\ tainted' = {}
      /\ UNCHANGED <<live, died, rv, canceled, restarts, hist, faults, pending>>
      /\ opens' \in 0..MaxOpens
  BY BoundsAssumption DEF IInv, TypeOK, Open, OpenWatch, StartWatch, Goto, podVars
<1>2. PICK order \in Orderings(LiveNames) : chan' = SyntheticAdded(order)
  BY DEF Open, OpenWatch, StartWatch
<1>3. /\ chan' \in Seq(Event) /\ DOMAIN chan' = 1..Len(chan')
      /\ \A i \in 1..Len(chan') : /\ chan'[i].type = "ADDED"
                                  /\ chan'[i].name \in LiveNames
                                  /\ chan'[i].ver = live[chan'[i].name]
      /\ \A n \in LiveNames : \E i \in 1..Len(chan') : chan'[i].name = n
  <2>1. chan' \in Seq(Event) /\ DOMAIN chan' = 1..Len(chan')
    BY <1>1, <1>2, ChanDomain, SyntheticEvents
  <2> QED
    BY <1>1, <1>2, <2>1, SyntheticEvents
<1>4. TypeOK'
  BY <1>1, <1>3 DEF TypeOK, ClusterTypeOK, LoopTypeOK, LoopStates
<1>5. /\ LiveNames \subseteq Names /\ NoName \notin Names
      /\ \A n \in LiveNames : live[n] # 0 /\ Newest(n) = live[n]
      /\ \A n \in Names : /\ Newest(n) \in Nat /\ Newest(n)' = Newest(n)
                          /\ StoredVersions(n)' = StoredVersions(n)
  BY <1>1, Types, NamesAssumption DEF LiveNames, Newest, StoredVersions
<1>6. \A n \in Names : SentVersions(n)' = IF n \in LiveNames THEN {Newest(n)} ELSE {}
  <2> SUFFICES ASSUME NEW n \in Names
               PROVE  SentVersions(n)' = IF n \in LiveNames THEN {Newest(n)} ELSE {}
    OBVIOUS
  <2>1. \A v : v \in SentVersions(n)' <=>
                 \E i \in 1..Len(chan') : chan'[i].name = n /\ chan'[i].ver = v
    BY <1>3 DEF SentVersions, Pending
  <2>2. CASE n \in LiveNames
    BY <1>3, <1>5, <2>1, <2>2
  <2>3. CASE n \notin LiveNames
    BY <1>3, <2>1, <2>3
  <2> QED
    BY <2>2, <2>3
<1>7. WatchInv' /\ EventInv' /\ WritesInv'
  BY <1>1, <1>3, <1>5 DEF IInv, WatchInv, EventInv, WritesInv
<1>8. VersionInv'
  <2>1. \A n \in LiveNames : Newest(n) \in 1..Newest(n)
    BY <1>5
  <2> QED
    BY <1>5, <1>6, <2>1 DEF IInv, VersionInv
<1>9. PendingInv'
  BY <1>1, <1>5, <1>6 DEF IInv, PendingInv
<1>10. LastEventInv'
  BY <1>3, <1>5, LastNext
<1>11. SettledInv'
  <2> SUFFICES ASSUME NEW n \in Names, live[n] # 0 \/ died[n] > rv
               PROVE  Newest(n) \in SentVersions(n)'
    BY <1>1, <1>5 DEF SettledInv
  <2>1. ~(died[n] > rv)
    BY Types, <1>1 DEF IInv, WritesInv
  <2> QED
    BY <1>6, <2>1 DEF LiveNames
<1> QED
  BY <1>4, <1>7, <1>8, <1>9, <1>10, <1>11 DEF IInv

(***************************************************************************)
(* The steps that take an event.                                           *)
(***************************************************************************)

LEMMA ReceiveUnchanged ==
  ASSUME Receive
  PROVE  TakeEvent /\ UNCHANGED <<live, died, rv, watch, openRV, pc, canceled, restarts>>
  BY DEF Receive, TakeEvent, loopVars

\* What SkipEvent, ApplyEvent, LoseUpdate and ReadFault have in common: of the
\* other pods nothing is added to what is stored, and what no fault touches
\* stays; the event's version is stored unless a fault lost it.
Handled(ev) ==
    /\ hist' \in [Names -> Seq(Nat)]
    /\ tainted' \subseteq Names
    /\ faults' \in 0..MaxFaults
    /\ \A n \in Names :
         /\ StoredVersions(n)' \subseteq StoredVersions(n) \cup
                                         (IF n = ev.name THEN {ev.ver} ELSE {})
         /\ n \notin tainted' =>
              IF n = ev.name THEN ev.ver \in StoredVersions(n)'
                             ELSE n \notin tainted /\ StoredVersions(n)' = StoredVersions(n)

LEMMA HandledInv ==
  ASSUME IInv, Receive, Handled(Head(chan)), UNCHANGED <<pending, opens>>
  PROVE  IInv'
<1>1. /\ TypeOK /\ TakeEvent
      /\ UNCHANGED <<live, died, rv, watch, openRV, pc, canceled, restarts>>
  BY ReceiveUnchanged DEF IInv
<1>2. TypeOK'
  BY <1>1, TakeShifts DEF TypeOK, ClusterTypeOK, LoopTypeOK, Handled
<1>3. \A n \in Names :
        /\ Newest(n)' = Newest(n) /\ pending'[n] = pending[n]
        /\ SentVersions(n)' \subseteq SentVersions(n)
        /\ n # Head(chan).name => SentVersions(n)' = SentVersions(n)
        /\ n = Head(chan).name => Head(chan).ver \in SentVersions(n)
        /\ StoredVersions(n)' \subseteq StoredVersions(n) \cup SentVersions(n)
  BY <1>1, TakeVersions DEF Newest, Handled
<1>4. WatchInv' /\ WritesInv'
  BY <1>1 DEF IInv, WatchInv, WritesInv
<1>5. EventInv'
  <2>1. \A i \in 1..Len(chan') : chan'[i].type = "ERROR" <=> chan'[i].name = NoName
    BY <1>1, TakeShifts, Types DEF IInv, EventInv
  <2> QED
    BY <1>1, <2>1, TakeShifts, ChanDomain DEF EventInv
<1>6. VersionInv' /\ PendingInv'
  BY <1>3 DEF IInv, VersionInv, PendingInv
<1>7. ASSUME watch' = "open" PROVE LastEventInv'
  BY <1>1, <1>7, TakeLast DEF IInv
<1>8. ASSUME watch' = "open" PROVE SettledInv'
  <2>1. SUFFICES ASSUME NEW n \in Names \ tainted', live[n] # 0 \/ died[n] > openRV
                 PROVE  Newest(n) \in StoredVersions(n)' \cup SentVersions(n)'
    BY <1>1, <1>3 DEF SettledInv
  <2>2. CASE n # Head(chan).name
    BY <1>1, <1>3, <1>8, <2>1, <2>2 DEF IInv, SettledInv, Handled
  <2>3. CASE n = Head(chan).name
    <3>1. Head(chan).ver \in StoredVersions(n)'
      BY <2>1, <2>3 DEF Handled
    <3>2. Newest(n) \in SentVersions(n)
      <4>1. 1 \in 1..Len(chan) /\ chan[1].name = n
        BY <1>1, <2>3, TakeShifts
      <4>2. LastEventInv
        BY <1>1, <1>8 DEF IInv
      <4>3. \E j \in 1..Len(chan) : chan[j].name = n /\ chan[j].ver = Newest(n)
        BY <1>1, <4>1, <4>2, LastDef
      <4> QED
        BY <1>1, <4>3, SentDef
    <3> QED
      BY <1>1, <2>3, <3>1, <3>2, TakeVersions
  <2> QED
    BY <2>2, <2>3
<1> QED
  BY <1>2, <1>4, <1>5, <1>6, <1>7, <1>8 DEF IInv

LEMMA HeadEvent ==
  ASSUME IInv, Receive
  PROVE  /\ Head(chan) \in Event
         /\ Head(chan).type = "ERROR" <=> Head(chan).name \notin Names
         /\ Head(chan).ver \in Nat
<1>1. TypeOK /\ TakeEvent /\ EventInv
  BY ReceiveUnchanged DEF IInv
<1>2. Head(chan) = chan[1] /\ 1 \in DOMAIN chan /\ Head(chan) \in Event
  BY <1>1, TakeShifts, Types
<1>3. Head(chan).type = "ERROR" <=> Head(chan).name = NoName
  BY <1>1, <1>2 DEF EventInv
<1> QED
  BY <1>2, <1>3, NamesAssumption DEF Event

LEMMA KeptVersions ==
  ASSUME TypeOK, UNCHANGED hist, NEW t \in SUBSET Names, tainted \subseteq t, tainted' = t,
         faults' \in 0..MaxFaults, NEW ev, ev.name \in t \/ ev.name \notin Names
  PROVE  Handled(ev)
  BY DEF TypeOK, StoredVersions, Handled

LEMMA SkipEventInv == ASSUME IInv, SkipEvent PROVE IInv'
<1>1. Receive /\ Head(chan).name \notin Names
  BY HeadEvent DEF SkipEvent
<1>2. TypeOK /\ UNCHANGED <<hist, faults, pending, tainted, opens>>
  BY DEF IInv, SkipEvent, podVars
<1>3. tainted \in SUBSET Names /\ faults' \in 0..MaxFaults
  BY <1>2 DEF TypeOK
<1>4. Handled(Head(chan))
  BY <1>1, <1>2, <1>3, KeptVersions
<1> QED
  BY <1>1, <1>2, <1>4, HandledInv

LEMMA LoseUpdateInv == ASSUME IInv, LoseUpdate PROVE IInv'
<1>1. /\ TypeOK /\ Receive /\ Head(chan).name \in Names
      /\ tainted' = tainted \cup {Head(chan).name}
      /\ UNCHANGED <<hist, pending, opens>>
  BY HeadEvent DEF IInv, LoseUpdate
<1>2. tainted' \in SUBSET Names /\ tainted \subseteq tainted' /\ faults' \in 0..MaxFaults
  BY <1>1, BoundsAssumption DEF TypeOK, LoseUpdate, DBFault
<1>3. Handled(Head(chan))
  BY <1>1, <1>2, KeptVersions
<1> QED
  BY <1>1, <1>3, HandledInv

LEMMA ApplyEventInv == ASSUME IInv, ApplyEvent PROVE IInv'
<1>1. PICK ev : ev = Head(chan)
  OBVIOUS
<1>2. /\ TypeOK /\ Receive /\ ev.name \in Names /\ ev.ver \in Nat
      /\ hist' = [hist EXCEPT ![ev.name] = Append(@, ev.ver)]
      /\ tainted' = tainted \ {ev.name}
      /\ UNCHANGED <<pending, faults, opens>>
  BY <1>1, HeadEvent DEF IInv, ApplyEvent, HandlePodEvent, UpdateStoredPodList
<1>3. hist \in [Names -> Seq(Nat)] /\ hist[ev.name] \in Seq(Nat)
  BY <1>2 DEF TypeOK
<1>4. Append(hist[ev.name], ev.ver) \in Seq(Nat)
  BY <1>2, <1>3
<1>5. /\ hist' \in [Names -> Seq(Nat)] /\ hist'[ev.name] = Append(hist[ev.name], ev.ver)
      /\ \A n \in Names \ {ev.name} : hist'[n] = hist[n]
  BY <1>2, <1>3, <1>4
<1>6. StoredVersions(ev.name)' = StoredVersions(ev.name) \cup {ev.ver}
  <2>1. PICK h \in Seq(Nat) : h = hist[ev.name]
    BY <1>3
  <2>2. {Append(h, ev.ver)[i] : i \in DOMAIN Append(h, ev.ver)} = {h[i] : i \in DOMAIN h} \cup {ev.ver}
    BY <1>2, AppendStored
  <2>3. PICK a : a = Append(h, ev.ver)
    OBVIOUS
  <2>4. {a[i] : i \in DOMAIN a} = {h[i] : i \in DOMAIN h} \cup {ev.ver}
    BY <2>2, <2>3, Zenon
  <2>5. hist'[ev.name] = a
    BY <1>5, <2>1, <2>3
  <2> QED
    BY <2>1, <2>4, <2>5 DEF StoredVersions
<1>7. \A n \in Names \ {ev.name} : StoredVersions(n)' = StoredVersions(n)
  BY <1>5 DEF StoredVersions
<1>8. tainted' \subseteq Names /\ faults' \in 0..MaxFaults
  BY <1>2 DEF TypeOK
<1>9. Handled(ev)
  BY <1>2, <1>5, <1>6, <1>7, <1>8 DEF Handled
<1> QED
  BY <1>1, <1>2, <1>9, HandledInv

LEMMA ReadFaultInv == ASSUME IInv, ReadFault PROVE IInv'
<1>1. PICK ev, job : ev = Head(chan) /\ job = {m \in Names : JobOf[m] = JobOf[ev.name]}
  OBVIOUS
<1>2. /\ TypeOK /\ Receive /\ ev.name \in Names /\ ev.ver \in Nat
      /\ hist' = [m \in Names |-> IF m = ev.name THEN <<ev.ver>>
                                  ELSE IF m \in job THEN <<>> ELSE hist[m]]
      /\ tainted' = (tainted \cup job) \ {ev.name}
      /\ UNCHANGED <<pending, opens>>
  BY <1>1, HeadEvent DEF IInv, ReadFault
<1>3. <<ev.ver>> \in Seq(Nat) /\ <<>> \in Seq(Nat) /\ DOMAIN <<>> = {}
      /\ {<<ev.ver>>[i] : i \in DOMAIN <<ev.ver>>} = {ev.ver}
  BY <1>2
<1>4. /\ hist' \in [Names -> Seq(Nat)]
      /\ \A n \in Names : hist'[n] = IF n = ev.name THEN <<ev.ver>>
                                     ELSE IF n \in job THEN <<>> ELSE hist[n]
  BY <1>2, <1>3 DEF TypeOK
<1>5. StoredVersions(ev.name)' = {ev.ver}
  BY <1>2, <1>3, <1>4 DEF StoredVersions
<1>6. \A n \in Names \ {ev.name} :
        IF n \in job THEN StoredVersions(n)' = {} ELSE StoredVersions(n)' = StoredVersions(n)
  BY <1>3, <1>4 DEF StoredVersions
<1>7. tainted' \subseteq Names /\ faults' \in 0..MaxFaults
  BY <1>1, <1>2, BoundsAssumption DEF TypeOK, ReadFault, DBFault
<1>8. Handled(ev)
  BY <1>2, <1>4, <1>5, <1>6, <1>7 DEF Handled
<1> QED
  BY <1>1, <1>2, <1>8, HandledInv

LEMMA RestartInv == ASSUME IInv, RestartContainer \/ ReplacePod PROVE IInv'
<1>1. /\ TypeOK /\ RestartProcess /\ pc = "down" /\ pc' = "opening" /\ watch = "none"
      /\ UNCHANGED <<clusterVars, faults, pending, tainted, opens>>
  BY DEF IInv, WatchInv, RestartContainer, ReplacePod, RestartProcess, podVars
<1>2. LoopTypeOK'
  <2>1. restarts \in 0..MaxRestarts /\ restarts < MaxRestarts /\ restarts' = restarts + 1
    BY <1>1 DEF TypeOK, LoopTypeOK, RestartProcess
  <2>2. restarts' \in 0..MaxRestarts
    BY <2>1, MaxRestartsAssumption
  <2>3. canceled' = FALSE
    BY <1>1 DEF RestartProcess
  <2> QED
    BY <1>1, <2>2, <2>3 DEF LoopTypeOK, LoopStates
<1>3. CASE RestartContainer
  BY <1>1, <1>2, <1>3, QuietLoopInv DEF RestartContainer
<1>4. CASE ReplacePod
  <2>1. /\ hist' \in [Names -> Seq(Nat)] /\ \A n \in Names : hist'[n] = <<>>
    BY <1>4 DEF ReplacePod
  <2>2. DOMAIN <<>> = {}
    OBVIOUS
  <2>3. \A n \in Names : /\ StoredVersions(n)' = {} /\ Newest(n)' = Newest(n)
                         /\ SentVersions(n)' = SentVersions(n)
    BY <1>1, <2>1, <2>2 DEF StoredVersions, Newest, SentVersions, Pending, clusterVars
  <2>4. TypeOK'
    BY <1>1, <1>2, <2>1 DEF TypeOK, ClusterTypeOK, clusterVars
  <2>5. WatchInv' /\ EventInv' /\ WritesInv' /\ watch' = "none"
    BY <1>1 DEF IInv, WatchInv, EventInv, WritesInv, clusterVars
  <2>6. VersionInv' /\ PendingInv'
    BY <1>1, <2>3 DEF IInv, VersionInv, PendingInv
  <2> QED
    BY <2>4, <2>5, <2>6 DEF IInv
<1> QED
  BY <1>3, <1>4

(***************************************************************************)
(* The inductive invariant.                                                *)
(***************************************************************************)

LEMMA InitInv == Init => IInv
<1> SUFFICES ASSUME Init PROVE IInv
  OBVIOUS
<1>1. /\ live = [n \in Names |-> 0] /\ died = [n \in Names |-> 0] /\ rv = 0
      /\ watch = "none" /\ openRV = 0 /\ chan = <<>> /\ pc = "opening" /\ canceled = FALSE
      /\ restarts = 0 /\ hist = [n \in Names |-> <<>>] /\ pending = [n \in Names |-> {}]
      /\ tainted = {} /\ faults = 0 /\ opens = 0
  BY DEF Init, ClusterInit, LoopInit
<1>2. <<>> \in Seq(Nat) /\ <<>> \in Seq(Event) /\ DOMAIN <<>> = {}
  OBVIOUS
<1>3. TypeOK
  <2>1. ClusterTypeOK
    BY <1>1, <1>2 DEF ClusterTypeOK
  <2>2. LoopTypeOK
    <3>1. 0 \in 0..MaxRestarts
      BY MaxRestartsAssumption
    <3> QED
      BY <1>1, <3>1 DEF LoopTypeOK, LoopStates
  <2>3. hist \in [Names -> Seq(Nat)]
    BY <1>1, <1>2
  <2>4. pending \in [Names -> SUBSET Nat] /\ tainted \subseteq Names
    BY <1>1
  <2>5. faults \in 0..MaxFaults /\ opens \in 0..MaxOpens
    BY <1>1, BoundsAssumption
  <2> QED
    BY <2>1, <2>2, <2>3, <2>4, <2>5 DEF TypeOK
<1>4. \A n \in Names : StoredVersions(n) = {} /\ SentVersions(n) = {} /\ pending[n] = {}
  BY <1>1, <1>2 DEF StoredVersions, SentVersions, Pending
<1>5. WatchInv /\ EventInv /\ WritesInv
  BY <1>1, <1>2, MaxRVAssumption DEF WatchInv, EventInv, WritesInv
<1>6. VersionInv /\ PendingInv
  BY <1>4 DEF VersionInv, PendingInv
<1> QED
  BY <1>1, <1>3, <1>5, <1>6 DEF IInv

LEMMA NextInv == IInv /\ [Next]_vars => IInv'
<1> SUFFICES ASSUME IInv, [Next]_vars PROVE IInv'
  OBVIOUS
<1>1. CASE UNCHANGED vars
  <2>1. LoopTypeOK' /\ pc' = pc
    BY <1>1 DEF vars, loopVars, IInv, TypeOK, LoopTypeOK
  <2> QED
    BY <1>1, <2>1, QuietLoopInv DEF vars
<1>2. CASE PodNext /\ UNCHANGED <<loopVars, podVars, tainted, opens>>
  BY <1>2, CreatePodInv, ModifyPodInv, DeletePodInv, EndWatchInv DEF PodNext
<1>3. CASE LoopNext /\ UNCHANGED <<podVars, pending, tainted, opens>>
  BY <1>3, LoopInv
<1>4. CASE Open
  BY <1>4, OpenInv
<1>5. CASE SkipEvent
  BY <1>5, SkipEventInv
<1>6. CASE ApplyEvent
  BY <1>6, ApplyEventInv
<1>7. CASE LoseUpdate
  BY <1>7, LoseUpdateInv
<1>8. CASE ReadFault
  BY <1>8, ReadFaultInv
<1>9. CASE RestartContainer \/ ReplacePod
  BY <1>9, RestartInv
<1> QED
  BY <1>1, <1>2, <1>3, <1>4, <1>5, <1>6, <1>7, <1>8, <1>9 DEF Next

\* The inductive invariant holds in every reachable state: IInv of the run
\* PodsSafety, for every number of pods and writes, and every resourceVersion.
THEOREM Invariance == Spec => []IInv
  BY InitInv, NextInv, PTL DEF Spec

(***************************************************************************)
(* What FindJobPodsForJob shows.                                           *)
(***************************************************************************)

\* Of a set of numbers whose numerals have the same length, the one that
\* FindJobPodsForJob takes is the greatest.
LEMMA LatestIsGreatest ==
  ASSUME IInv, NEW n \in Names, NEW g \in StartedVersions(n),
         \A v \in StartedVersions(n) :
           v <= g /\ Len(ResourceVersion(v)) = Len(ResourceVersion(g))
  PROVE  LatestVersion(n) = g
<1>1. StartedVersions(n) \subseteq Nat
  BY Types DEF IInv, VersionInv, StartedVersions
<1>2. \A v \in StartedVersions(n) : ResourceVersion(v) \in Seq(Nat) /\ RVBase + v \in Nat
  BY <1>1, NumeralType, BoundsAssumption DEF ResourceVersion
<1>3. ASSUME NEW v \in StartedVersions(n), v # g
      PROVE  /\ StringLeq(ResourceVersion(v), ResourceVersion(g))
             /\ ~StringLeq(ResourceVersion(g), ResourceVersion(v))
  <2>1. RVBase + v < RVBase + g
    BY <1>1, <1>3, BoundsAssumption
  <2>2. \E k : DiffersAt(k, ResourceVersion(v), ResourceVersion(g))
    BY <1>2, <2>1, NumeralOrder DEF ResourceVersion
  <2> QED
    BY <1>2, <2>2, DigitsDecide
<1>4. StringLeq(ResourceVersion(g), ResourceVersion(g))
  BY <1>2 DEF StringLeq
<1>5. \A v \in StartedVersions(n) : StringLeq(ResourceVersion(v), ResourceVersion(g))
  BY <1>3, <1>4
<1>6. \A u \in StartedVersions(n) :
        (\A v \in StartedVersions(n) : StringLeq(ResourceVersion(v), ResourceVersion(u))) => u = g
  BY <1>3
<1> QED
  BY <1>5, <1>6 DEF LatestVersion

LEMMA ShownOf ==
  ASSUME NEW n \in Names
  PROVE  Shown(n) = IF StartedVersions(n) = {} THEN {} ELSE {LatestVersion(n)}
<1>1. {q \in FindJobPodsForJob(JobOf[n]) : q.name = n} =
        IF StartedVersions(n) = {} THEN {} ELSE {[name |-> n, ver |-> LatestVersion(n)]}
  BY DEF FindJobPodsForJob
<1>2. CASE StartedVersions(n) = {}
  BY <1>1, <1>2 DEF Shown
<1>3. CASE StartedVersions(n) # {}
  <2>1. [name |-> n, ver |-> LatestVersion(n)].ver = LatestVersion(n)
    OBVIOUS
  <2>2. Shown(n) = {p.ver : p \in {[name |-> n, ver |-> LatestVersion(n)]}}
    BY <1>1, <1>3 DEF Shown
  <2> QED
    BY <1>3, <2>1, <2>2
<1> QED
  BY <1>2, <1>3

\* The resourceVersions that the cluster gives have the same number of digits.
OneLength ==
    \A v, w \in 1..MaxRV : Len(ResourceVersion(v)) = Len(ResourceVersion(w))

\* The versions of a pod that the properties compare have numerals of the same
\* length.
SameLength(n) ==
    \A v \in StartedVersions(n) : Len(ResourceVersion(v)) = Len(ResourceVersion(Newest(n)))

\* CaughtUpShowsCurrent and CaughtUpKeepsGone, of the pods whose versions have
\* the same number of digits: the others are what LatestPodIsNewest is about.
CaughtUpWithinDigits ==
    Quiet => \A n \in Names \ tainted :
        (live[n] # 0 \/ died[n] > openRV) /\ SameLength(n) =>
            Shown(n) = {Newest(n)} \ pending[n]

LEMMA InvShows == ASSUME IInv PROVE CaughtUpWithinDigits
<1>1. SUFFICES ASSUME Quiet, NEW n \in Names \ tainted,
                      live[n] # 0 \/ died[n] > openRV, SameLength(n)
               PROVE  Shown(n) = {Newest(n)} \ pending[n]
  BY DEF CaughtUpWithinDigits
<1>2. SentVersions(n) = {}
  <2>1. DOMAIN chan = {}
    BY <1>1 DEF Quiet
  <2> QED
    BY <2>1 DEF SentVersions, Pending
<1>3. Newest(n) \in StoredVersions(n)
  BY <1>1, <1>2 DEF IInv, SettledInv, Quiet
<1>4. StoredVersions(n) \subseteq 1..Newest(n) /\ Newest(n) \in Nat
  BY Types DEF IInv, VersionInv
<1>5. CASE Newest(n) \in pending[n]
  <2>1. StartedVersions(n) = {}
    BY <1>5 DEF IInv, PendingInv, StartedVersions
  <2> QED
    BY <1>5, <2>1, ShownOf
<1>6. CASE Newest(n) \notin pending[n]
  <2>1. Newest(n) \in StartedVersions(n) /\ \A v \in StartedVersions(n) : v <= Newest(n)
    BY <1>3, <1>4, <1>6 DEF StartedVersions
  <2>2. LatestVersion(n) = Newest(n)
    BY <1>1, <2>1, LatestIsGreatest DEF SameLength
  <2> QED
    BY <1>6, <2>1, <2>2, ShownOf
<1> QED
  BY <1>5, <1>6

LEMMA OneLengthIsSame ==
  ASSUME IInv, OneLength, NEW n \in Names, Newest(n) # 0
  PROVE  SameLength(n)
<1>1. Newest(n) \in 1..MaxRV
  BY Types, MaxRVAssumption DEF IInv, WritesInv, Newest
<1>2. StartedVersions(n) \subseteq 1..MaxRV
  BY <1>1, MaxRVAssumption DEF IInv, VersionInv, StartedVersions
<1> QED
  BY <1>1, <1>2 DEF OneLength, SameLength

LEMMA InvCaughtUp ==
  ASSUME IInv, OneLength PROVE CaughtUpShowsCurrent /\ CaughtUpKeepsGone
<1>1. ASSUME Quiet, NEW n \in Names \ tainted, live[n] # 0 \/ died[n] > openRV
      PROVE  Shown(n) = {Newest(n)} \ pending[n]
  <2>1. Newest(n) # 0
    BY <1>1, Types DEF IInv, Newest
  <2> QED
    BY <1>1, <2>1, InvShows, OneLengthIsSame DEF CaughtUpWithinDigits
<1>2. CaughtUpShowsCurrent
  BY <1>1 DEF CaughtUpShowsCurrent, Newest
<1>3. CaughtUpKeepsGone
  BY <1>1 DEF CaughtUpKeepsGone, Newest
<1> QED
  BY <1>2, <1>3

\* Of the pods whose versions have the same number of digits the newest state
\* is shown once the open watch is drained, whatever the cluster's counter:
\* the merge of FindJobPodsForJob undoes what updateStoredPodList piles up.
THEOREM ShowsNewestWithinDigits == Spec => []CaughtUpWithinDigits
<1>1. IInv => CaughtUpWithinDigits
  BY InvShows
<1> QED
  BY <1>1, Invariance, PTL

\* CaughtUpShowsCurrent of the run PodsSafety: a started pod of the cluster is
\* shown in its current version, while no write adds a digit to the counter.
THEOREM ShowsCurrent == ASSUME OneLength PROVE Spec => []CaughtUpShowsCurrent
<1>1. IInv => CaughtUpShowsCurrent
  BY InvCaughtUp
<1> QED
  BY <1>1, Invariance, PTL

\* CaughtUpKeepsGone of the run PodsSafety: a deleted pod stays in the list of
\* its job in its last state, while no write adds a digit to the counter.
THEOREM KeepsGone == ASSUME OneLength PROVE Spec => []CaughtUpKeepsGone
<1>1. IInv => CaughtUpKeepsGone
  BY InvCaughtUp
<1> QED
  BY <1>1, Invariance, PTL

LEMMA GreatestNumber ==
  ASSUME NEW S \in SUBSET Nat, S # {}, NEW b \in Nat, \A v \in S : v <= b
  PROVE  \E g \in S : \A v \in S : v <= g
<1> DEFINE T == {u \in Nat : \A v \in S : v <= u}
<1>1. T \in SUBSET Nat /\ b \in T
  OBVIOUS
<1>2. PICK u \in T : \A w \in T : u <= w
  <2> HIDE DEF T
  <2> QED BY <1>1, LeastNumber
<1>3. SUFFICES ASSUME u \notin S PROVE FALSE
  BY <1>2
<1>4. u - 1 \in T
  <2>1. \A v \in S : v <= u /\ v # u /\ v \in Nat
    BY <1>2, <1>3
  <2>2. PICK v \in S : TRUE
    OBVIOUS
  <2> QED
    BY <1>2, <2>1, <2>2
<1> QED
  BY <1>2, <1>4

\* LatestPodIsNewest, which the run PodsDigits refutes, holds while no write
\* adds a digit to the counter: the string order is its only enemy.
THEOREM NewestWithinDigits == ASSUME OneLength PROVE Spec => []LatestPodIsNewest
<1>1. IInv => LatestPodIsNewest
  <2>1. SUFFICES ASSUME IInv, NEW n \in Names, NEW v \in StartedVersions(n), NEW w \in Shown(n)
                 PROVE  v <= w
    BY DEF LatestPodIsNewest
  <2>2. StartedVersions(n) \subseteq 1..MaxRV /\ MaxRV \in Nat
    BY <2>1, Types, MaxRVAssumption DEF IInv, VersionInv, WritesInv, Newest, StartedVersions
  <2>3. PICK g \in StartedVersions(n) : \A u \in StartedVersions(n) : u <= g
    <3>1. StartedVersions(n) \in SUBSET Nat /\ \A u \in StartedVersions(n) : u <= MaxRV
      BY <2>2
    <3>2. StartedVersions(n) # {}
      BY <2>1
    <3> QED
      BY <2>2, <3>1, <3>2, GreatestNumber
  <2>4. LatestVersion(n) = g
    BY <2>1, <2>2, <2>3, LatestIsGreatest DEF OneLength
  <2> QED
    BY <2>1, <2>3, <2>4, ShownOf
<1> QED
  BY <1>1, Invariance, PTL
===============================================================================
