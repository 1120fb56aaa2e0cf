--------------------------- MODULE MetricsProofs ---------------------------
(***************************************************************************)
(* Proofs about the registration of gauges, and about what the gauges and  *)
(* totals show of a response, for any cronjobs and jobs, any order of them *)
(* and any way in which the names of cronjobs collide when sanitized.      *)
(* The last part is about Dashboard, the recorder beside a request.        *)
(***************************************************************************)
EXTENDS Dashboard, TLAPS, FiniteSetTheorems

\* Setting a gauge of the cronjob that is being recorded never panics.
LEMMA SetGauge ==
  ASSUME IInv, NEW metric, NEW label, NEW val, NEW next,
         MetricName[Head(todo)] \in names,
         SetGaugeInMap(metric, Head(todo), label, val, next)
  PROVE  /\ pc' = next
         /\ registry' = DOMAIN gauges'
         /\ \A desc \in registry' : desc[2] \in names
<1> DEFINE desc == Descriptor(metric, Head(todo), label)
<1>1. Key(metric, Head(todo), label) = desc
  BY DEF Key, Descriptor
<1>2. desc[2] \in names
  BY DEF Descriptor
<1>3. CASE desc \in DOMAIN gauges
  BY <1>1, <1>3 DEF SetGaugeInMap, IInv, RegistryInv, NamesInv
<1>4. CASE desc \notin DOMAIN gauges
  <2>1. /\ pc' = next
        /\ registry' = registry \cup {desc}
        /\ gauges' = [k \in DOMAIN gauges \cup {desc} |->
                          IF k = desc THEN val ELSE gauges[k]]
    BY <1>1, <1>4 DEF SetGaugeInMap, IInv, RegistryInv
  <2>2. DOMAIN gauges' = registry'
    BY <2>1 DEF IInv, RegistryInv
  <2> QED
    BY <1>2, <2>1, <2>2 DEF IInv, NamesInv
<1> QED
  BY <1>3, <1>4

LEMMA InitInv == Init => IInv
  BY DEF Init, IInv, RegistryInv, NamesInv

LEMMA NextInv == IInv /\ [Next]_vars => IInv'
<1> SUFFICES ASSUME IInv, [Next]_vars PROVE IInv'
  OBVIOUS
<1>1. CASE Dial \/ LoseStream
  BY <1>1 DEF Dial, LoseStream, locals, IInv, RegistryInv, NamesInv
<1>2. CASE ReceiveAny
  <2>1. PICK r : Receive(r)
    BY <1>2 DEF ReceiveAny
  <2> QED
    BY <2>1 DEF Receive, IInv, RegistryInv, NamesInv
<1>3. CASE BeginCronjob
  BY <1>3 DEF BeginCronjob, IInv, RegistryInv, NamesInv
<1>4. ASSUME NEW e \in jobsTodo, RecordJob(e) PROVE IInv'
  <2>0. MetricName[Head(todo)] \in names
    BY <1>4 DEF RecordJob, IInv, NamesInv
  <2>1. /\ pc' = "jobs"
        /\ registry' = DOMAIN gauges'
        /\ \A desc \in registry' : desc[2] \in names
    BY <1>4, <2>0, SetGauge DEF RecordJob
  <2> QED
    BY <1>4, <2>1 DEF RecordJob, IInv, RegistryInv, NamesInv
<1>5. CASE SetCompletions
  <2>0. MetricName[Head(todo)] \in names
    BY <1>5 DEF SetCompletions, IInv, NamesInv
  <2>1. /\ pc' = "failures"
        /\ registry' = DOMAIN gauges'
        /\ \A desc \in registry' : desc[2] \in names
    BY <1>5, <2>0, SetGauge DEF SetCompletions
  <2> QED
    BY <1>5, <2>1 DEF SetCompletions, locals, IInv, RegistryInv, NamesInv
<1>6. CASE SetFailures
  <2>0. MetricName[Head(todo)] \in names
    BY <1>6 DEF SetFailures, IInv, NamesInv
  <2>1. /\ pc' = "cronjobs"
        /\ registry' = DOMAIN gauges'
        /\ \A desc \in registry' : desc[2] \in names
    <3>1. SetGaugeInMap("failure_total", Head(todo), "", counts.failing, "cronjobs")
      BY <1>6 DEF SetFailures
    <3> QED
      BY <2>0, <3>1, SetGauge
  <2>2. names' = names
    BY <1>6 DEF SetFailures
  <2> QED
    BY <2>1, <2>2 DEF IInv, RegistryInv, NamesInv
<1>7. CASE SetTotals
  BY <1>7 DEF SetTotals, SetTotal, IInv, RegistryInv, NamesInv
<1>8. CASE Restart
  BY <1>8 DEF Restart, IInv, RegistryInv, NamesInv
<1>9. CASE UNCHANGED vars
  BY <1>9 DEF vars, locals, IInv, RegistryInv, NamesInv
<1> QED
  BY <1>1, <1>2, <1>3, <1>4, <1>5, <1>6, <1>7, <1>8, <1>9 DEF Next, RecorderNext

\* summaryMap, the registry and metricsNamesMap keep step (metrics.go:61-69, 123).
THEOREM Invariance == Spec => []IInv
  BY InitInv, NextInv, PTL DEF Spec

\* promauto.NewGauge never panics (metrics.go:66).
THEOREM NoPanic == Spec => []NeverRegistersTwice
<1>1. IInv => NeverRegistersTwice
  BY DEF IInv, RegistryInv, NeverRegistersTwice
<1> QED
  BY <1>1, Invariance, PTL

(***************************************************************************)
(* Counting job responses.                                                 *)
(***************************************************************************)

Pairs == Cronjobs \X Jobs

LEMMA PairsFinite == IsFiniteSet(Pairs)
  BY NamesAssumption, FS_Product DEF Pairs

LEMMA EntriesType ==
  ASSUME NEW list \in Seq(Cronjobs)
  PROVE  Entries(list) \in SUBSET Pairs /\ \A e \in Entries(list) : e[1] \in Range(list)
<1>1. Range(list) \subseteq Cronjobs
  BY DEF Range
<1> QED
  BY <1>1 DEF Entries, Pairs

LEMMA CountType ==
  ASSUME NEW r, NEW J \in SUBSET Pairs, NEW status
  PROVE  Count(r, J, status) \in Nat
<1>1. IsFiniteSet(With(r, J, status))
  BY PairsFinite, FS_Subset DEF With
<1> QED
  BY <1>1, FS_CardinalityType DEF Count

LEMMA CountNone ==
  ASSUME NEW r, NEW status
  PROVE  Count(r, {}, status) = 0
<1>1. With(r, {}, status) = {}
  BY DEF With
<1> QED
  BY <1>1, FS_EmptySet DEF Count

LEMMA CountOne ==
  ASSUME NEW r, NEW e, NEW status
  PROVE  Count(r, {e}, status) = IF status \in r.jobs[e] THEN 1 ELSE 0
<1>1. With(r, {e}, status) = IF status \in r.jobs[e] THEN {e} ELSE {}
  BY DEF With
<1>2. Cardinality({}) = 0 /\ Cardinality({e}) = 1
  BY FS_EmptySet, FS_Singleton
<1> QED
  BY <1>1, <1>2 DEF Count

LEMMA CountUnion ==
  ASSUME NEW r, NEW J \in SUBSET Pairs, NEW K \in SUBSET Pairs, J \cap K = {}, NEW status
  PROVE  Count(r, J \cup K, status) = Count(r, J, status) + Count(r, K, status)
<1>1. IsFiniteSet(With(r, J, status)) /\ IsFiniteSet(With(r, K, status))
  BY PairsFinite, FS_Subset DEF With
<1>2. /\ With(r, J \cup K, status) = With(r, J, status) \cup With(r, K, status)
      /\ With(r, J, status) \cap With(r, K, status) = {}
  BY DEF With
<1>3. Cardinality({}) = 0
  BY FS_EmptySet
<1>4. PICK S, T : S = With(r, J, status) /\ T = With(r, K, status)
  OBVIOUS
<1>5. IsFiniteSet(S) /\ IsFiniteSet(T) /\ S \cap T = {}
  BY <1>1, <1>2, <1>4
<1>6. Cardinality(S \cup T) = Cardinality(S) + Cardinality(T) - 0
  <2>1. Cardinality(S \cup T) = Cardinality(S) + Cardinality(T) - Cardinality(S \cap T)
    BY <1>5, FS_Union
  <2> QED
    BY <1>3, <1>5, <2>1
<1>7. Cardinality(S) \in Nat /\ Cardinality(T) \in Nat
  BY <1>5, FS_CardinalityType
<1>8. /\ Count(r, J, status) = Cardinality(S) /\ Count(r, K, status) = Cardinality(T)
      /\ Count(r, J \cup K, status) = Cardinality(S \cup T)
  BY <1>2, <1>4, Zenon DEF Count
<1> QED
  BY <1>6, <1>7, <1>8

(***************************************************************************)
(* Setting a gauge.                                                        *)
(***************************************************************************)

LEMMA SetGaugeValue ==
  ASSUME IInv, NEW metric, NEW cj, NEW label, NEW val, NEW next,
         SetGaugeInMap(metric, cj, label, val, next)
  PROVE  /\ pc' = next
         /\ DOMAIN gauges' = DOMAIN gauges \cup {Key(metric, cj, label)}
         /\ gauges'[Key(metric, cj, label)] = val
         /\ \A key \in DOMAIN gauges \ {Key(metric, cj, label)} : gauges'[key] = gauges[key]
<1> DEFINE k == Key(metric, cj, label)
<1>1. Descriptor(metric, cj, label) = k
  BY DEF Key, Descriptor
<1>2. CASE k \in DOMAIN gauges
  BY <1>2 DEF SetGaugeInMap
<1>3. CASE k \notin DOMAIN gauges
  <2>1. /\ gauges' = [x \in DOMAIN gauges \cup {k} |-> IF x = k THEN val ELSE gauges[x]]
        /\ pc' = next
    BY <1>1, <1>3 DEF SetGaugeInMap, IInv, RegistryInv
  <2> QED
    BY <2>1
<1> QED
  BY <1>2, <1>3

HoldsNext(key, val) == key \in DOMAIN gauges' /\ gauges'[key] = val

\* The gauge that is set holds its value, and the others hold theirs.
LEMMA SetGaugeHolds ==
  ASSUME IInv, NEW metric, NEW cj, NEW label, NEW val, NEW next,
         SetGaugeInMap(metric, cj, label, val, next)
  PROVE  /\ HoldsNext(Key(metric, cj, label), val)
         /\ \A key, v : key # Key(metric, cj, label) /\ Holds(key, v) => HoldsNext(key, v)
         /\ Range(gauges) \subseteq Nat /\ val \in Nat => Range(gauges') \subseteq Nat
<1>1. /\ DOMAIN gauges' = DOMAIN gauges \cup {Key(metric, cj, label)}
      /\ gauges'[Key(metric, cj, label)] = val
      /\ \A key \in DOMAIN gauges \ {Key(metric, cj, label)} : gauges'[key] = gauges[key]
  BY SetGaugeValue
<1> QED
  BY <1>1 DEF Holds, HoldsNext, Range

\* Keys differ in their metric, in their cronjob's sanitized name or in their label.
LEMMA KeysDiffer ==
  ASSUME NEW m1, NEW m2, NEW c1, NEW c2, NEW l1, NEW l2,
         m1 # m2 \/ MetricName[c1] # MetricName[c2] \/ l1 # l2
  PROVE  Key(m1, c1, l1) # Key(m2, c2, l2)
  BY DEF Key

LEMMA DeterminedNext ==
  ASSUME NEW metric, NEW status, NEW n, response' = response,
         \A i \in 1..n : LastToSet(i, n) =>
           HoldsNext(Key(metric, response.cronjobs[i], ""),
                     Count(response, JobsOf(response, response.cronjobs[i]), status))
  PROVE  Determined(metric, status, n)'
  BY DEF Determined, LastToSet, Holds, HoldsNext, Key, Count, With, JobsOf

\* Gauges of another metric are left alone.
LEMMA OtherDetermined ==
  ASSUME IInv, response' = response, NEW other, NEW cj, NEW label, NEW val, NEW next,
         SetGaugeInMap(other, cj, label, val, next),
         NEW metric, metric # other, NEW status, NEW n, Determined(metric, status, n)
  PROVE  Determined(metric, status, n)'
<1>1. \A i \in 1..n : Key(metric, response.cronjobs[i], "") # Key(other, cj, label)
  BY KeysDiffer
<1>2. \A i \in 1..n : LastToSet(i, n) =>
        Holds(Key(metric, response.cronjobs[i], ""),
              Count(response, JobsOf(response, response.cronjobs[i]), status))
  BY DEF Determined
<1>3. \A key, v : key # Key(other, cj, label) /\ Holds(key, v) => HoldsNext(key, v)
  BY SetGaugeHolds
<1> QED
  BY <1>1, <1>2, <1>3, DeterminedNext

(***************************************************************************)
(* How far a response is recorded.                                         *)
(***************************************************************************)

LEMMA DoneType ==
  ASSUME TypeOK, TodoInv
  PROVE  /\ response.cronjobs \in Seq(Cronjobs) /\ todo \in Seq(Cronjobs)
         /\ Len(response.cronjobs) \in Nat /\ Len(todo) \in Nat
         /\ DOMAIN response.cronjobs = 1..Len(response.cronjobs)
         /\ Done \in 0..Len(response.cronjobs) /\ Done \in Nat
         /\ todo = <<>> => Done = Len(response.cronjobs)
         /\ todo # <<>> => /\ Done + 1 \in 1..Len(response.cronjobs)
                           /\ Head(todo) = response.cronjobs[Done + 1]
                           /\ Head(todo) \in Cronjobs
                           /\ Tail(todo) \in Seq(Cronjobs)
                           /\ Len(Tail(todo)) = Len(todo) - 1
                           /\ \A i \in 1..(Len(todo) - 1) :
                                Tail(todo)[i] = response.cronjobs[Done + 1 + i]
<1>1. /\ response.cronjobs \in Seq(Cronjobs) /\ todo \in Seq(Cronjobs)
      /\ Len(todo) <= Len(response.cronjobs)
      /\ \A i \in DOMAIN todo : todo[i] = response.cronjobs[Done + i]
  BY DEF TypeOK, TodoInv
<1>2. /\ Len(response.cronjobs) \in Nat /\ Len(todo) \in Nat
      /\ DOMAIN response.cronjobs = 1..Len(response.cronjobs) /\ DOMAIN todo = 1..Len(todo)
  BY <1>1
<1>3. Done \in 0..Len(response.cronjobs) /\ Done \in Nat /\ Done = Len(response.cronjobs) - Len(todo)
  BY <1>1, <1>2 DEF Done
<1>4. todo = <<>> => Done = Len(response.cronjobs)
  BY <1>2, <1>3
<1>5. ASSUME todo # <<>>
      PROVE  /\ Done + 1 \in 1..Len(response.cronjobs)
             /\ Head(todo) = response.cronjobs[Done + 1]
             /\ Head(todo) \in Cronjobs
             /\ Tail(todo) \in Seq(Cronjobs)
             /\ Len(Tail(todo)) = Len(todo) - 1
             /\ \A i \in 1..(Len(todo) - 1) : Tail(todo)[i] = response.cronjobs[Done + 1 + i]
  <2>1. /\ Len(todo) >= 1 /\ Head(todo) = todo[1] /\ Head(todo) \in Cronjobs
        /\ Tail(todo) \in Seq(Cronjobs) /\ Len(Tail(todo)) = Len(todo) - 1
        /\ \A i \in 1..(Len(todo) - 1) : Tail(todo)[i] = todo[i + 1]
    BY <1>1, <1>5
  <2>2. Done + 1 \in 1..Len(response.cronjobs) /\ todo[1] = response.cronjobs[Done + 1]
    BY <1>1, <1>2, <1>3, <2>1
  <2>3. \A i \in 1..(Len(todo) - 1) : todo[i + 1] = response.cronjobs[Done + 1 + i]
    <3> SUFFICES ASSUME NEW i \in 1..(Len(todo) - 1)
                 PROVE  todo[i + 1] = response.cronjobs[Done + 1 + i]
      OBVIOUS
    <3>1. i \in Nat /\ i + 1 \in 1..Len(todo)
      BY <1>2
    <3>2. Done + (i + 1) = Done + 1 + i
      <4>1. PICK d \in Nat : d = Done
        BY <1>3
      <4>2. d + (i + 1) = d + 1 + i
        BY <3>1
      <4> QED
        BY <4>1, <4>2, Zenon
    <3> QED
      BY <1>1, <1>2, <3>1, <3>2
  <2> QED
    BY <2>1, <2>2, <2>3
<1> QED
  BY <1>1, <1>2, <1>3, <1>4, <1>5

LEMMA JobsType ==
  ASSUME TypeOK
  PROVE  /\ DOMAIN response.jobs \in SUBSET Pairs /\ DOMAIN previous.jobs \in SUBSET Pairs
         /\ DoneJobs \in SUBSET Pairs /\ CurrentJobs \in SUBSET Pairs
         /\ \A cj : JobsOf(response, cj) \in SUBSET Pairs
<1>1. DOMAIN response.jobs \in SUBSET Pairs /\ DOMAIN previous.jobs \in SUBSET Pairs
  BY EntriesType DEF TypeOK
<1> QED
  BY <1>1 DEF TypeOK, DoneJobs, CurrentJobs, JobsOf

\* The whole response is recorded.
LEMMA AllDone ==
  ASSUME TypeOK, TodoInv, todo = <<>>
  PROVE  DoneJobs = DOMAIN response.jobs
<1>1. Done = Len(response.cronjobs) /\ DOMAIN response.cronjobs = 1..Len(response.cronjobs)
  BY DoneType
<1>2. \A e \in DOMAIN response.jobs : e[1] \in Range(response.cronjobs)
  BY EntriesType DEF TypeOK
<1> QED
  BY <1>1, <1>2 DEF DoneJobs, Range

LEMMA TotalsType ==
  ASSUME TypeOK
  PROVE  /\ totals.registered \in Nat /\ totals.running \in Nat
         /\ totals.failing \in Nat /\ totals.completed \in Nat
         /\ totals = [registered |-> totals.registered, running |-> totals.running,
                      failing |-> totals.failing, completed |-> totals.completed]
         /\ DOMAIN totals = {"registered", "running", "failing", "completed"}
         /\ sums.running \in Nat /\ sums.failing \in Nat /\ sums.completed \in Nat
         /\ counts.failing \in Nat /\ counts.completed \in Nat
  BY DEF TypeOK, NoSums, NoCounts

(***************************************************************************)
(* The steps of the recorder keep RecorderInv.                             *)
(***************************************************************************)

LEMMA QuietInv ==
  ASSUME RecorderInv, IInv', pc' \in Labels, Between, pc' \in {"dialing", "receiving"},
         UNCHANGED <<rounds, response, locals, totals, gauges, registry, names, previous>>
  PROVE  RecorderInv'
<1>1. /\ UNCHANGED <<rounds, response, todo, jobsTodo, counts, sums, totals, gauges, names, previous>>
      /\ Between' /\ ~Recording /\ ~Recording'
      /\ pc \notin {"cronjobs", "jobs", "failures", "failing", "completed"}
      /\ pc' \notin {"cronjobs", "jobs", "failures", "failing", "completed"}
  BY DEF Between, Recording, locals
<1>2. Done' = Done /\ DoneJobs' = DoneJobs /\ CurrentJobs' = CurrentJobs
  BY <1>1 DEF Done, DoneJobs, CurrentJobs
<1>3. TypeOK' /\ TodoInv' /\ CountsInv' /\ SumsInv' /\ TotalsInv'
  BY <1>1, <1>2 DEF RecorderInv, TypeOK, TodoInv, CountsInv, SumsInv, TotalsInv
<1>4. GaugesInv'
  BY <1>1, <1>2 DEF RecorderInv, GaugesInv, Holds, Determined, LastToSet
<1> QED
  BY <1>3, <1>4 DEF RecorderInv

LEMMA ReceiveInv ==
  ASSUME RecorderInv, IInv', ReceiveAny
  PROVE  RecorderInv'
<1>1. PICK list \in SeenLists :
        \E J \in SUBSET Jobs : \E statuses \in [{e \in Entries(list) : e[2] \in J} -> SeenStatuses] :
          OneVersion(statuses) /\ Receive([cronjobs |-> list, jobs |-> statuses])
  BY DEF ReceiveAny
<1>2. PICK J \in SUBSET Entries(list) :
        \E statuses \in [J -> SeenStatuses] :
          OneVersion(statuses) /\ Receive([cronjobs |-> list, jobs |-> statuses])
  BY <1>1
<1>3. PICK statuses \in [J -> SeenStatuses] :
        OneVersion(statuses) /\ Receive([cronjobs |-> list, jobs |-> statuses])
  BY <1>2
<1>4. PICK r : r = [cronjobs |-> list, jobs |-> statuses]
  OBVIOUS
<1>5. /\ r.cronjobs = list /\ DOMAIN r.jobs = J /\ list \in Seq(Cronjobs) /\ NoRepeat(list)
      /\ J \subseteq Entries(list) /\ OneVersion(r.jobs)
      /\ Len(list) \in Nat
  BY <1>3, <1>4, NamesAssumption
<1>6. /\ TypeOK /\ pc = "receiving" /\ pc' = "cronjobs" /\ rounds' = rounds + 1 /\ rounds < MaxRounds
      /\ previous' = response /\ response' = r /\ todo' = list /\ sums' = NoSums
      /\ jobsTodo = {} /\ UNCHANGED <<jobsTodo, counts, gauges, names>>
  BY <1>3, <1>4, <1>5 DEF Receive, RecorderInv, CountsInv
<1>7. totals' = [registered |-> Len(list), running |-> totals.running,
                 failing |-> totals.failing, completed |-> totals.completed]
  <2>1. totals' = [totals EXCEPT !.registered = Len(list)]
    BY <1>3, <1>4, <1>5 DEF Receive
  <2> QED
    BY <1>6, <2>1, TotalsType
<1>8. TypeOK'
  <2>1. rounds' \in 0..MaxRounds
    BY <1>6, NamesAssumption DEF TypeOK
  <2>2. totals' \in [DOMAIN NoSums \cup {"registered"} -> Nat]
    BY <1>5, <1>6, <1>7, TotalsType DEF NoSums
  <2>3. sums' \in [DOMAIN NoSums -> Nat]
    BY <1>6 DEF NoSums
  <2>4. jobsTodo' = {} /\ counts' = counts /\ gauges' = gauges /\ names' = names
    BY <1>6
  <2> QED
    BY <1>5, <1>6, <2>1, <2>2, <2>3, <2>4 DEF TypeOK, Labels
<1>9. Done' = 0 /\ DoneJobs' = {} /\ CurrentJobs' = {} /\ ~Recording' /\ ~Between'
  <2>1. Done' = 0
    BY <1>5, <1>6 DEF Done
  <2> QED
    BY <1>6, <2>1 DEF DoneJobs, CurrentJobs, Recording, Between
<1>10. TodoInv' /\ CountsInv'
  <2>1. \A i \in DOMAIN list : list[i] = list[0 + i]
    BY <1>5
  <2> QED
    BY <1>5, <1>6, <1>9, <2>1 DEF TodoInv, CountsInv
<1>11. SumsInv'
  BY <1>6, <1>9, CountNone DEF SumsInv, NoSums
<1>12. TotalsInv'
  <2>1. /\ totals.running = TotalsOf(response).running
        /\ totals.failing = TotalsOf(response).failing
        /\ totals.completed = TotalsOf(response).completed
    BY <1>6 DEF RecorderInv, TotalsInv
  <2> QED
    BY <1>5, <1>6, <1>7, <2>1 DEF TotalsInv
<1>13. GaugesInv'
  BY <1>6, <1>9 DEF GaugesInv, Determined
<1> QED
  BY <1>8, <1>10, <1>11, <1>12, <1>13 DEF RecorderInv

LEMMA BeginCronjobInv ==
  ASSUME RecorderInv, IInv', BeginCronjob
  PROVE  RecorderInv'
<1>1. /\ TypeOK /\ TodoInv /\ pc = "cronjobs" /\ pc' = "jobs" /\ todo # <<>>
      /\ names' = names \cup {MetricName[Head(todo)]}
      /\ jobsTodo' = JobsOf(response, Head(todo)) /\ counts' = NoCounts
      /\ UNCHANGED <<rounds, response, todo, sums, totals, gauges, previous>>
  BY DEF RecorderInv, BeginCronjob
<1>2. /\ Done' = Done /\ DoneJobs' = DoneJobs /\ CurrentJobs = {} /\ CurrentJobs' = {}
      /\ Recording' /\ ~Recording /\ ~Between'
  BY <1>1 DEF Done, DoneJobs, CurrentJobs, Recording, JobsOf, Between
<1>3. TypeOK'
  <2>1. MetricName[Head(todo)] \in Range(MetricName)
    BY <1>1, DoneType, NamesAssumption DEF Range
  <2>2. jobsTodo' \subseteq DOMAIN response.jobs
    BY <1>1 DEF JobsOf
  <2>3. counts' \in [DOMAIN NoCounts -> Nat]
    BY <1>1 DEF NoCounts
  <2> QED
    BY <1>1, <2>1, <2>2, <2>3 DEF TypeOK, Labels
<1>4. TodoInv' /\ SumsInv'
  BY <1>1, <1>2 DEF RecorderInv, TodoInv, SumsInv
<1>5. CountsInv'
  BY <1>1, <1>2, CountNone DEF CountsInv, NoCounts, JobsOf
<1>6. TotalsInv'
  BY <1>1 DEF RecorderInv, TotalsInv
<1>7. GaugesInv'
  BY <1>1, <1>2 DEF RecorderInv, GaugesInv, Holds, Determined, LastToSet
<1> QED
  BY <1>3, <1>4, <1>5, <1>6, <1>7 DEF RecorderInv

LEMMA RecordJobInv ==
  ASSUME RecorderInv, IInv', NEW e \in jobsTodo, RecordJob(e)
  PROVE  RecorderInv'
<1>1. PICK v : v = IF "active" \in response.jobs[e] THEN 1 ELSE 0
  OBVIOUS
<1>2. /\ TypeOK /\ TodoInv /\ IInv /\ pc = "jobs" /\ e \in jobsTodo
      /\ SetGaugeInMap("duration_seconds", Head(todo), e[2], v, "jobs")
      /\ jobsTodo' = jobsTodo \ {e}
      /\ counts' = [failing |-> counts.failing + Count(response, {e}, "failed"),
                    completed |-> counts.completed + Count(response, {e}, "completed")]
      /\ UNCHANGED <<rounds, response, todo, sums, totals, names, previous>>
  BY <1>1 DEF RecorderInv, RecordJob
<1>3. pc' = "jobs"
  <2>1. PICK label : label = e[2]
    OBVIOUS
  <2>2. SetGaugeInMap("duration_seconds", Head(todo), label, v, "jobs")
    BY <1>2, <2>1
  <2> QED
    BY <1>2, <2>2, SetGaugeValue
<1>4. /\ jobsTodo \subseteq JobsOf(response, Head(todo))
      /\ counts = [failing |-> Count(response, CurrentJobs, "failed"),
                   completed |-> Count(response, CurrentJobs, "completed")]
  BY <1>2 DEF RecorderInv, CountsInv, Recording
<1>5. /\ Done' = Done /\ DoneJobs' = DoneJobs /\ e \notin CurrentJobs
      /\ CurrentJobs' = CurrentJobs \cup {e} /\ e[1] = Head(todo)
      /\ Recording /\ Recording' /\ ~Between'
  BY <1>2, <1>3, <1>4 DEF Done, DoneJobs, CurrentJobs, Recording, JobsOf, Between
<1>6. v = Count(response, {e}, "active") /\ v \in Nat
  BY <1>1, CountOne
<1>7. \A status : Count(response, CurrentJobs \cup {e}, status) =
                    Count(response, CurrentJobs, status) + Count(response, {e}, status)
  <2>1. PICK J : J = CurrentJobs
    OBVIOUS
  <2>2. J \in SUBSET Pairs /\ {e} \in SUBSET Pairs /\ J \cap {e} = {}
    <3>1. e \in DOMAIN response.jobs
      BY <1>2 DEF TypeOK
    <3> QED
      BY <1>2, <1>5, <2>1, <3>1, JobsType
  <2>3. \A status : Count(response, J \cup {e}, status) =
                      Count(response, J, status) + Count(response, {e}, status)
    BY <2>2, CountUnion
  <2> QED
    BY <2>1, <2>3
<1>8. TypeOK'
  <2>1. counts' \in [DOMAIN NoCounts -> Nat]
    <3>1. counts.failing \in Nat /\ counts.completed \in Nat
      BY <1>2, TotalsType
    <3>2. \A status : Count(response, {e}, status) \in Nat
      BY CountOne
    <3> QED
      BY <1>2, <3>1, <3>2 DEF NoCounts
  <2>2. Range(gauges') \subseteq Nat
    BY <1>2, <1>6, SetGaugeHolds DEF TypeOK
  <2> QED
    BY <1>2, <1>3, <2>1, <2>2 DEF TypeOK
<1>9. TodoInv' /\ SumsInv' /\ TotalsInv'
  BY <1>2, <1>3, <1>5 DEF RecorderInv, TodoInv, SumsInv, TotalsInv
<1>10. CountsInv'
  BY <1>2, <1>3, <1>4, <1>5, <1>7 DEF CountsInv
<1>11. /\ HoldsNext(Key("duration_seconds", Head(todo), e[2]), v)
       /\ \A key, u : key # Key("duration_seconds", Head(todo), e[2]) /\ Holds(key, u) =>
            HoldsNext(key, u)
  BY <1>2, SetGaugeHolds
<1>12. \A i \in DoneJobs \cup CurrentJobs \cup {e} :
         HoldsNext(Key("duration_seconds", i[1], i[2]), Count(response, {i}, "active"))
  <2> SUFFICES ASSUME NEW i \in DoneJobs \cup CurrentJobs \cup {e}
               PROVE  HoldsNext(Key("duration_seconds", i[1], i[2]), Count(response, {i}, "active"))
    OBVIOUS
  <2>1. CASE i = e
    BY <1>5, <1>6, <1>11, <2>1
  <2>2. CASE i # e
    <3>1. Holds(Key("duration_seconds", i[1], i[2]), Count(response, {i}, "active"))
      BY <2>2 DEF RecorderInv, GaugesInv
    <3>2. CASE Key("duration_seconds", i[1], i[2]) = Key("duration_seconds", Head(todo), e[2])
      <4>1. i[2] = e[2] /\ i \in DOMAIN response.jobs /\ e \in DOMAIN response.jobs
        BY <1>2, <2>2, <3>2 DEF Key, DoneJobs, CurrentJobs, JobsOf, TypeOK
      <4>2. "active" \in response.jobs[i] <=> "active" \in response.jobs[e]
        <5>1. response.jobs[i] \ {"failed"} = response.jobs[e] \ {"failed"}
          BY <1>2, <4>1 DEF TypeOK, OneVersion
        <5>2. "active" # "failed"
          OBVIOUS
        <5> QED
          BY <5>1, <5>2
      <4>3. Count(response, {i}, "active") = Count(response, {e}, "active")
        BY <4>2, CountOne
      <4> QED
        BY <1>6, <1>11, <3>2, <4>3
    <3>3. CASE Key("duration_seconds", i[1], i[2]) # Key("duration_seconds", Head(todo), e[2])
      BY <1>11, <3>1, <3>3
    <3> QED
      BY <3>2, <3>3
  <2> QED
    BY <2>1, <2>2
<1>13. PICK n : n = Done
  OBVIOUS
<1>14. /\ Determined("completion_total", "completed", n)'
       /\ Determined("failure_total", "failed", n)'
  <2>1. /\ Determined("completion_total", "completed", n)
        /\ Determined("failure_total", "failed", n)
    BY <1>2, <1>13 DEF RecorderInv, GaugesInv
  <2> QED
    BY <1>2, <2>1, OtherDetermined
<1>15. GaugesInv'
  <2>1. \A i \in DoneJobs' \cup CurrentJobs' :
          Holds(Key("duration_seconds", i[1], i[2]), Count(response, {i}, "active"))'
    BY <1>2, <1>5, <1>12 DEF Holds, HoldsNext, Key, Count, With
  <2> QED
    BY <1>3, <1>5, <1>13, <1>14, <2>1 DEF GaugesInv, Determined
<1> QED
  BY <1>8, <1>9, <1>10, <1>15 DEF RecorderInv

LEMMA Interval ==
  ASSUME NEW d \in Nat, NEW i \in 1..(d + 1), i # d + 1
  PROVE  /\ i \in 1..d /\ d + 1 \in (i + 1)..(d + 1)
         /\ \A k \in (i + 1)..d : k \in (i + 1)..(d + 1)
  OBVIOUS

\* The gauge of the cronjob at position Done + 1 is the last that is set.
LEMMA SetDetermined ==
  ASSUME RecorderInv, Recording, response' = response, NEW metric, NEW status, NEW val, NEW next,
         SetGaugeInMap(metric, Head(todo), "", val, next),
         val = Count(response, JobsOf(response, Head(todo)), status),
         Determined(metric, status, Done), NEW n, n = Done + 1
  PROVE  Determined(metric, status, n)'
<1>0. TypeOK /\ TodoInv /\ IInv /\ todo # <<>>
  BY DEF RecorderInv, TodoInv
<1>1. /\ IInv /\ response.cronjobs[n] = Head(todo)
  BY <1>0, DoneType
<1>4. PICK d \in Nat : d = Done /\ n = d + 1
  <2>1. Done \in Nat
    BY <1>0, DoneType
  <2> QED
    BY <2>1
<1>2. /\ HoldsNext(Key(metric, Head(todo), ""), val)
      /\ \A key, u : key # Key(metric, Head(todo), "") /\ Holds(key, u) => HoldsNext(key, u)
  BY <1>1, SetGaugeHolds
<1>3. ASSUME NEW i \in 1..n, LastToSet(i, n)
      PROVE  HoldsNext(Key(metric, response.cronjobs[i], ""),
                       Count(response, JobsOf(response, response.cronjobs[i]), status))
  <2>1. CASE i = n
    BY <1>1, <1>2, <2>1
  <2>2. CASE i # n
    <3>1. i \in 1..d /\ n \in (i + 1)..n /\ \A k \in (i + 1)..d : k \in (i + 1)..n
      BY <1>4, <2>2, Interval, Zenon
    <3>2. /\ LastToSet(i, d)
          /\ MetricName[response.cronjobs[n]] # MetricName[response.cronjobs[i]]
      BY <1>3, <3>1 DEF LastToSet
    <3>3. Holds(Key(metric, response.cronjobs[i], ""),
                Count(response, JobsOf(response, response.cronjobs[i]), status))
      BY <1>4, <3>1, <3>2 DEF Determined
    <3>4. Key(metric, response.cronjobs[i], "") # Key(metric, Head(todo), "")
      BY <1>1, <3>2, KeysDiffer
    <3> QED
      BY <1>2, <3>3, <3>4
  <2> QED
    BY <2>1, <2>2
<1> QED
  BY <1>3, DeterminedNext

LEMMA SetCompletionsInv ==
  ASSUME RecorderInv, IInv', SetCompletions
  PROVE  RecorderInv'
<1>1. /\ TypeOK /\ TodoInv /\ IInv /\ pc = "jobs" /\ jobsTodo = {} /\ todo # <<>>
      /\ SetGaugeInMap("completion_total", Head(todo), "", counts.completed, "failures")
      /\ UNCHANGED <<rounds, response, todo, jobsTodo, counts, sums, totals, names, previous>>
      /\ Recording
  BY DEF RecorderInv, TodoInv, SetCompletions, locals, Recording
<1>2. pc' = "failures" /\ Range(gauges') \subseteq Nat
  BY <1>1, SetGaugeValue, SetGaugeHolds, TotalsType DEF TypeOK
<1>3. /\ Done' = Done /\ DoneJobs' = DoneJobs /\ CurrentJobs' = CurrentJobs
      /\ CurrentJobs = JobsOf(response, Head(todo)) /\ Recording' /\ ~Between'
  BY <1>1, <1>2 DEF Done, DoneJobs, CurrentJobs, Recording, JobsOf, Between
<1>4. TypeOK'
  BY <1>1, <1>2 DEF TypeOK, Labels
<1>5. TodoInv' /\ CountsInv' /\ SumsInv' /\ TotalsInv'
  BY <1>1, <1>2, <1>3 DEF RecorderInv, TodoInv, CountsInv, SumsInv, TotalsInv
<1>6. \A i \in DoneJobs \cup CurrentJobs :
        HoldsNext(Key("duration_seconds", i[1], i[2]), Count(response, {i}, "active"))
  <2> SUFFICES ASSUME NEW i \in DoneJobs \cup CurrentJobs
               PROVE  HoldsNext(Key("duration_seconds", i[1], i[2]), Count(response, {i}, "active"))
    OBVIOUS
  <2>1. Holds(Key("duration_seconds", i[1], i[2]), Count(response, {i}, "active"))
    BY DEF RecorderInv, GaugesInv
  <2>2. Key("duration_seconds", i[1], i[2]) # Key("completion_total", Head(todo), "")
    BY KeysDiffer
  <2> QED
    BY <1>1, <2>1, <2>2, SetGaugeHolds
<1>7. PICK d, n : d = Done /\ n = Done + 1
  OBVIOUS
<1>8. Determined("failure_total", "failed", d)'
  <2>1. Determined("failure_total", "failed", d)
    BY <1>7 DEF RecorderInv, GaugesInv
  <2>2. PICK other, label, cj, val, next :
          SetGaugeInMap(other, cj, label, val, next) /\ other = "completion_total"
    BY <1>1, Zenon
  <2>3. PICK metric, status : metric = "failure_total" /\ status = "failed"
    OBVIOUS
  <2>4. metric # other
    BY <2>2, <2>3
  <2>5. Determined(metric, status, d)
    BY <2>1, <2>3
  <2>6. IInv /\ response' = response
    BY <1>1
  <2>7. Determined(metric, status, d)'
    BY <2>2, <2>4, <2>5, <2>6, OtherDetermined
  <2> QED
    BY <2>3, <2>7
<1>9. Determined("completion_total", "completed", n)'
  <2>0. counts = [failing |-> Count(response, JobsOf(response, Head(todo)), "failed"),
                  completed |-> Count(response, JobsOf(response, Head(todo)), "completed")]
    BY <1>1, <1>3, Zenon DEF RecorderInv, CountsInv
  <2>1. counts.completed = Count(response, JobsOf(response, Head(todo)), "completed")
    BY <2>0
  <2>2. Determined("completion_total", "completed", Done)
    BY <1>1 DEF RecorderInv, GaugesInv
  <2> QED
    BY <1>1, <1>7, <2>1, <2>2, SetDetermined
<1>10. GaugesInv'
  <2>1. \A i \in DoneJobs' \cup CurrentJobs' :
          Holds(Key("duration_seconds", i[1], i[2]), Count(response, {i}, "active"))'
    BY <1>1, <1>3, <1>6 DEF Holds, HoldsNext, Key, Count, With
  <2> QED
    BY <1>2, <1>3, <1>7, <1>8, <1>9, <2>1 DEF GaugesInv, Determined
<1> QED
  BY <1>4, <1>5, <1>10 DEF RecorderInv

\* The next cronjob is none of those that are done.
LEMMA NextCronjob ==
  ASSUME TypeOK, TodoInv, todo # <<>>
  PROVE  DoneJobs \cap JobsOf(response, Head(todo)) = {}
<1>1. NoRepeat(response.cronjobs)
  BY DEF TypeOK
<1>2. PICK d \in Nat, len \in Nat :
        /\ d = Done /\ len = Len(response.cronjobs) /\ d + 1 \in 1..len
        /\ DOMAIN response.cronjobs = 1..len /\ Head(todo) = response.cronjobs[d + 1]
  BY DoneType
<1>3. \A i \in 1..d : response.cronjobs[i] # response.cronjobs[d + 1]
  BY <1>1, <1>2 DEF NoRepeat
<1> QED
  BY <1>2, <1>3 DEF DoneJobs, JobsOf

LEMMA SetFailuresInv ==
  ASSUME RecorderInv, IInv', SetFailures
  PROVE  RecorderInv'
<1>1. /\ TypeOK /\ TodoInv /\ IInv /\ pc = "failures" /\ jobsTodo = {} /\ todo # <<>>
      /\ SetGaugeInMap("failure_total", Head(todo), "", counts.failing, "cronjobs")
      /\ todo' = Tail(todo)
      /\ sums' = [running |-> sums.running
                       + Count(response, JobsOf(response, Head(todo)), "active"),
                  failing |-> sums.failing + counts.failing,
                  completed |-> sums.completed + counts.completed]
      /\ UNCHANGED <<rounds, response, jobsTodo, counts, totals, names, previous>>
      /\ Recording
  BY DEF RecorderInv, TodoInv, CountsInv, SetFailures, Recording
<1>2. pc' = "cronjobs" /\ Range(gauges') \subseteq Nat
  BY <1>1, SetGaugeValue, SetGaugeHolds, TotalsType DEF TypeOK
<1>3. CurrentJobs = JobsOf(response, Head(todo)) /\ CurrentJobs' = {}
      /\ ~Recording' /\ ~Between'
  BY <1>1, <1>2 DEF CurrentJobs, Recording, JobsOf, Between
<1>4. PICK d \in Nat, len \in Nat :
        /\ d = Done /\ len = Len(response.cronjobs)
        /\ d + 1 \in 1..len /\ Len(todo) \in Nat /\ len = d + Len(todo)
        /\ Head(todo) = response.cronjobs[d + 1] /\ Head(todo) \in Cronjobs
        /\ Tail(todo) \in Seq(Cronjobs) /\ Len(Tail(todo)) = Len(todo) - 1
        /\ \A i \in 1..(Len(todo) - 1) : Tail(todo)[i] = response.cronjobs[d + 1 + i]
  <2>1. PICK d, len : d = Done /\ len = Len(response.cronjobs)
    OBVIOUS
  <2>2. /\ d \in Nat /\ len \in Nat /\ Len(todo) \in Nat /\ d + 1 \in 1..len
        /\ Head(todo) = response.cronjobs[d + 1] /\ Head(todo) \in Cronjobs
        /\ Tail(todo) \in Seq(Cronjobs) /\ Len(Tail(todo)) = Len(todo) - 1
        /\ \A i \in 1..(Len(todo) - 1) : Tail(todo)[i] = response.cronjobs[d + 1 + i]
    BY <1>1, <2>1, DoneType, Zenon
  <2>3. d = len - Len(todo)
    BY <2>1, Zenon DEF Done
  <2>4. len = d + Len(todo)
    BY <2>2, <2>3
  <2> QED
    BY <2>1, <2>2, <2>4, Zenon
<1>5. Done' = d + 1
  <2>1. Done' = len - Len(Tail(todo))
    BY <1>1, <1>4, Zenon DEF Done
  <2> QED
    BY <1>4, <2>1
<1>6. DoneJobs' = DoneJobs \cup JobsOf(response, Head(todo))
  <2>1. 1..(d + 1) = (1..d) \cup {d + 1}
    BY <1>4
  <2>2. DoneJobs' = {e \in DOMAIN response.jobs :
                        \E i \in 1..(d + 1) : e[1] = response.cronjobs[i]}
    BY <1>1, <1>5, Zenon DEF DoneJobs
  <2>3. DoneJobs = {e \in DOMAIN response.jobs :
                       \E i \in 1..d : e[1] = response.cronjobs[i]}
    BY <1>4, Zenon DEF DoneJobs
  <2>4. JobsOf(response, Head(todo)) =
          {e \in DOMAIN response.jobs : e[1] = response.cronjobs[d + 1]}
    BY <1>4, Zenon DEF JobsOf
  <2> QED
    BY <2>1, <2>2, <2>3, <2>4
<1>7. TypeOK'
  <2>1. sums' \in [DOMAIN NoSums -> Nat]
    <3>1. Count(response, JobsOf(response, Head(todo)), "active") \in Nat
      BY <1>1, CountType, JobsType
    <3>2. /\ sums.running \in Nat /\ sums.failing \in Nat /\ sums.completed \in Nat
          /\ counts.failing \in Nat /\ counts.completed \in Nat
      BY <1>1, TotalsType
    <3>3. /\ sums.running + Count(response, JobsOf(response, Head(todo)), "active") \in Nat
          /\ sums.failing + counts.failing \in Nat
          /\ sums.completed + counts.completed \in Nat
      BY <3>1, <3>2
    <3>4. PICK a, b, c \in Nat :
            sums' = [running |-> a, failing |-> b, completed |-> c]
      BY <1>1, <3>3, Zenon
    <3> QED
      BY <3>4 DEF NoSums
  <2> QED
    BY <1>1, <1>2, <1>4, <2>1 DEF TypeOK, Labels
<1>8. TodoInv'
  <2>0. PICK t \in Seq(Cronjobs), m \in Nat : t = Tail(todo) /\ m = Len(todo)
    BY <1>4, Zenon
  <2>1. DOMAIN t = 1..(m - 1) /\ Len(t) <= len
    BY <1>4, <2>0
  <2>2. /\ todo' = t /\ Len(response'.cronjobs) = len /\ pc' = "cronjobs"
        /\ response' = response /\ Done' = d + 1 /\ ~Recording' /\ ~Between'
        /\ \A i \in DOMAIN t : t[i] = response.cronjobs[d + 1 + i]
    BY <1>1, <1>2, <1>3, <1>4, <1>5, <2>0, <2>1
  <2> QED
    BY <2>1, <2>2 DEF TodoInv
<1>9. CountsInv' /\ TotalsInv'
  BY <1>1, <1>2, <1>3 DEF RecorderInv, CountsInv, TotalsInv
<1>10. SumsInv'
  <2>1. \A status : Count(response, DoneJobs \cup JobsOf(response, Head(todo)), status) =
            Count(response, DoneJobs, status) + Count(response, JobsOf(response, Head(todo)), status)
    <3>1. DoneJobs \cap JobsOf(response, Head(todo)) = {}
      BY <1>1, NextCronjob
    <3>2. DoneJobs \in SUBSET Pairs /\ JobsOf(response, Head(todo)) \in SUBSET Pairs
      BY <1>1, JobsType
    <3>3. PICK J, K : J = DoneJobs /\ K = JobsOf(response, Head(todo))
      OBVIOUS
    <3>4. \A status : Count(response, J \cup K, status) =
                         Count(response, J, status) + Count(response, K, status)
      BY <3>1, <3>2, <3>3, CountUnion
    <3> QED
      BY <3>3, <3>4, Zenon
  <2>2. counts = [failing |-> Count(response, JobsOf(response, Head(todo)), "failed"),
                  completed |-> Count(response, JobsOf(response, Head(todo)), "completed")]
    BY <1>1, <1>3 DEF RecorderInv, CountsInv
  <2>3. sums' = [running |-> Count(response, DoneJobs', "active"),
                 failing |-> Count(response, DoneJobs', "failed"),
                 completed |-> Count(response, DoneJobs', "completed")]
    BY <1>1, <1>6, <2>1, <2>2 DEF RecorderInv, SumsInv
  <2> QED
    BY <1>1, <2>3 DEF SumsInv, Count, With
<1>11. \A i \in DoneJobs \cup CurrentJobs :
        HoldsNext(Key("duration_seconds", i[1], i[2]), Count(response, {i}, "active"))
  <2> SUFFICES ASSUME NEW i \in DoneJobs \cup CurrentJobs
               PROVE  HoldsNext(Key("duration_seconds", i[1], i[2]), Count(response, {i}, "active"))
    OBVIOUS
  <2>1. Holds(Key("duration_seconds", i[1], i[2]), Count(response, {i}, "active"))
    BY DEF RecorderInv, GaugesInv
  <2>2. Key("duration_seconds", i[1], i[2]) # Key("failure_total", Head(todo), "")
    BY KeysDiffer
  <2> QED
    BY <1>1, <2>1, <2>2, SetGaugeHolds
<1>12. PICK n : n = d + 1
  OBVIOUS
<1>13. Determined("completion_total", "completed", n)'
  <2>1. Determined("completion_total", "completed", n)
    BY <1>1, <1>4, <1>12 DEF RecorderInv, GaugesInv
  <2>2. PICK other, label, cj, val, next :
          SetGaugeInMap(other, cj, label, val, next) /\ other = "failure_total"
    BY <1>1, Zenon
  <2>3. PICK metric, status : metric = "completion_total" /\ status = "completed"
    OBVIOUS
  <2>4. metric # other
    BY <2>2, <2>3
  <2>5. Determined(metric, status, n)
    BY <2>1, <2>3
  <2>6. IInv /\ response' = response
    BY <1>1
  <2>7. Determined(metric, status, n)'
    BY <2>2, <2>4, <2>5, <2>6, OtherDetermined
  <2> QED
    BY <2>3, <2>7
<1>14. Determined("failure_total", "failed", n)'
  <2>0. counts = [failing |-> Count(response, JobsOf(response, Head(todo)), "failed"),
                  completed |-> Count(response, JobsOf(response, Head(todo)), "completed")]
    BY <1>1, <1>3, Zenon DEF RecorderInv, CountsInv
  <2>1. counts.failing = Count(response, JobsOf(response, Head(todo)), "failed")
    BY <2>0
  <2>2. Determined("failure_total", "failed", Done)
    BY <1>1 DEF RecorderInv, GaugesInv
  <2> QED
    BY <1>1, <1>4, <1>12, <2>1, <2>2, SetDetermined
<1>15. GaugesInv'
  <2>1. \A i \in DoneJobs' \cup CurrentJobs' :
          Holds(Key("duration_seconds", i[1], i[2]), Count(response, {i}, "active"))'
    BY <1>1, <1>3, <1>6, <1>11 DEF Holds, HoldsNext, Key, Count, With
  <2> QED
    BY <1>2, <1>5, <1>12, <1>13, <1>14, <2>1 DEF GaugesInv, Determined
<1> QED
  BY <1>7, <1>8, <1>9, <1>10, <1>15 DEF RecorderInv

LEMMA SetTotalsInv ==
  ASSUME RecorderInv, IInv', SetTotals
  PROVE  RecorderInv'
<1>1. /\ TypeOK /\ TodoInv /\ todo = <<>> /\ jobsTodo = {}
      /\ UNCHANGED <<rounds, response, todo, jobsTodo, counts, sums, gauges, names, previous>>
      /\ pc' \in {"failing", "completed", "receiving"} /\ pc \in {"cronjobs", "failing", "completed"}
      /\ ~Recording /\ ~Recording'
  BY DEF RecorderInv, TypeOK, CountsInv, SetTotals, SetTotal, locals, Recording
<1>2. Done' = Done /\ DoneJobs' = DoneJobs /\ CurrentJobs' = CurrentJobs
  BY <1>1 DEF Done, DoneJobs, CurrentJobs
<1>3. /\ TotalsOf(response).running = Count(response, DoneJobs, "active")
      /\ TotalsOf(response).failing = Count(response, DoneJobs, "failed")
      /\ TotalsOf(response).completed = Count(response, DoneJobs, "completed")
      /\ \A status : Count(response, DoneJobs, status) \in Nat
  <2>1. DoneJobs = DOMAIN response.jobs
    BY <1>1, AllDone
  <2>2. DoneJobs \in SUBSET Pairs
    BY <1>1, JobsType
  <2> QED
    BY <2>1, <2>2, CountType DEF TotalsOf
<1>4. PICK reg, run, fail, compl \in Nat :
        totals = [registered |-> reg, running |-> run, failing |-> fail, completed |-> compl]
  <2>1. /\ totals.registered \in Nat /\ totals.running \in Nat
        /\ totals.failing \in Nat /\ totals.completed \in Nat
        /\ totals = [registered |-> totals.registered, running |-> totals.running,
                     failing |-> totals.failing, completed |-> totals.completed]
    BY <1>1, TotalsType
  <2> QED
    BY <2>1, Zenon
<1>5. PICK r, f, c \in Nat :
        /\ sums = [running |-> r, failing |-> f, completed |-> c]
        /\ r = TotalsOf(response).running /\ f = TotalsOf(response).failing
        /\ c = TotalsOf(response).completed
  BY <1>3, Zenon DEF RecorderInv, SumsInv
<1>6. /\ r = TotalsOf(response).running /\ f = TotalsOf(response).failing
      /\ c = TotalsOf(response).completed
  BY <1>5
<1>7. /\ reg = Len(response.cronjobs)
      /\ pc = "cronjobs" => /\ fail = TotalsOf(previous).failing
                            /\ compl = TotalsOf(previous).completed
      /\ pc = "failing" => /\ run = r
                           /\ compl = TotalsOf(previous).completed
      /\ pc = "completed" => run = r /\ fail = f
  BY <1>1, <1>4, <1>6 DEF RecorderInv, TotalsInv
<1>8. \/ /\ pc = "cronjobs" /\ pc' = "failing"
         /\ totals' = [registered |-> reg, running |-> r, failing |-> fail, completed |-> compl]
      \/ /\ pc = "failing" /\ pc' = "completed"
         /\ totals' = [registered |-> reg, running |-> run, failing |-> f, completed |-> compl]
      \/ /\ pc = "completed" /\ pc' = "receiving"
         /\ totals' = [registered |-> reg, running |-> run, failing |-> fail, completed |-> c]
  BY <1>4, <1>5 DEF SetTotals, SetTotal
<1>9. totals' \in [DOMAIN NoSums \cup {"registered"} -> Nat]
  BY <1>8 DEF NoSums
<1>10. TypeOK'
  <2>1. pc' \in Labels
    BY <1>1 DEF Labels
  <2> QED
    BY <1>1, <1>9, <2>1, Zenon DEF TypeOK
<1>11. TodoInv' /\ CountsInv' /\ SumsInv'
  <2>1. TodoInv'
    BY <1>1, <1>2, Zenon DEF TodoInv
  <2>2. CountsInv'
    BY <1>1 DEF CountsInv
  <2>3. SumsInv'
    BY <1>1, <1>2, Zenon DEF RecorderInv, SumsInv
  <2> QED
    BY <2>1, <2>2, <2>3
<1>12. TotalsInv'
  BY <1>1, <1>6, <1>7, <1>8 DEF TotalsInv
<1>13. GaugesInv'
  BY <1>1, <1>2 DEF RecorderInv, GaugesInv, Holds, Determined, LastToSet
<1> QED
  BY <1>10, <1>11, <1>12, <1>13 DEF RecorderInv

\* The state in which a process starts.
Fresh ==
    /\ pc = "dialing" /\ rounds = 0 /\ response = NoResponse /\ previous = NoResponse
    /\ todo = <<>> /\ jobsTodo = {} /\ counts = NoCounts /\ sums = NoSums
    /\ totals = [registered |-> 0, running |-> 0, failing |-> 0, completed |-> 0]
    /\ gauges = << >> /\ names = {}

LEMMA FreshInv ==
  ASSUME Fresh, IInv
  PROVE  RecorderInv
<1>1. /\ NoResponse.cronjobs = << >> /\ NoResponse.jobs = << >> /\ DOMAIN NoResponse.jobs = {}
      /\ << >> \in Seq(Cronjobs) /\ NoRepeat(<< >>) /\ Len(<< >>) = 0
  BY DEF NoResponse, NoRepeat
<1>2. /\ Done = 0 /\ DoneJobs = {} /\ CurrentJobs = {} /\ ~Recording
  BY <1>1 DEF Fresh, Done, DoneJobs, CurrentJobs, Recording
<1>3. TypeOK
  <2>1. /\ counts \in [DOMAIN NoCounts -> Nat] /\ sums \in [DOMAIN NoSums -> Nat]
        /\ totals \in [DOMAIN NoSums \cup {"registered"} -> Nat]
    BY DEF Fresh, NoCounts, NoSums
  <2>2. Range(gauges) \subseteq Nat
    BY DEF Fresh, Range
  <2> QED
    <3>1. pc \in Labels /\ rounds \in 0..MaxRounds
      BY NamesAssumption DEF Fresh, Labels
    <3>2. \A r \in {response, previous} :
            /\ r.cronjobs \in Seq(Cronjobs) /\ NoRepeat(r.cronjobs)
            /\ DOMAIN r.jobs \subseteq Entries(r.cronjobs) /\ OneVersion(r.jobs)
      BY <1>1 DEF Fresh, OneVersion
    <3>3. /\ todo \in Seq(Cronjobs) /\ jobsTodo \subseteq DOMAIN response.jobs
          /\ names \subseteq Range(MetricName)
      BY <1>1 DEF Fresh
    <3> QED
      BY <2>1, <2>2, <3>1, <3>2, <3>3 DEF TypeOK
<1>4. TodoInv /\ CountsInv
  BY <1>1, <1>2 DEF Fresh, TodoInv, CountsInv
<1>5. SumsInv
  BY <1>2, CountNone DEF Fresh, SumsInv, NoSums
<1>6. TotalsInv
  <2>1. TotalsOf(NoResponse) = [registered |-> 0, running |-> 0, failing |-> 0, completed |-> 0]
    BY <1>1, CountNone DEF TotalsOf
  <2> QED
    BY <1>1, <2>1 DEF Fresh, TotalsInv
<1>7. GaugesInv
  BY <1>2 DEF Fresh, GaugesInv, Determined
<1> QED
  BY <1>3, <1>4, <1>5, <1>6, <1>7 DEF RecorderInv

LEMMA RestartInv ==
  ASSUME RecorderInv, IInv', Restart
  PROVE  RecorderInv'
<1>1. totals' = [registered |-> 0, running |-> 0, failing |-> 0, completed |-> 0]
  <2>1. DOMAIN totals = {"registered", "running", "failing", "completed"}
    BY TotalsType DEF RecorderInv
  <2> QED
    BY <2>1 DEF Restart
<1>2. Fresh'
  BY <1>1 DEF Restart, Fresh
<1>3. (Fresh /\ IInv => RecorderInv)'
  BY FreshInv, PTL
<1> QED
  BY <1>2, <1>3

LEMMA NextRecorderInv == RecorderInv /\ [Next]_vars => RecorderInv'
<1> SUFFICES ASSUME RecorderInv, [Next]_vars PROVE RecorderInv'
  OBVIOUS
<1>1. IInv'
  BY NextInv DEF RecorderInv
<1>2. CASE Dial \/ LoseStream
  <2>1. /\ Between /\ pc' \in {"dialing", "receiving"} /\ pc' \in Labels
        /\ UNCHANGED <<rounds, response, locals, totals, gauges, registry, names, previous>>
    BY <1>2 DEF Dial, LoseStream, Between, Labels
  <2> QED
    BY <1>1, <2>1, QuietInv
<1>3. CASE ReceiveAny
  BY <1>1, <1>3, ReceiveInv
<1>4. CASE BeginCronjob
  BY <1>1, <1>4, BeginCronjobInv
<1>5. CASE \E e \in jobsTodo : RecordJob(e)
  BY <1>1, <1>5, RecordJobInv
<1>6. CASE SetCompletions
  BY <1>1, <1>6, SetCompletionsInv
<1>7. CASE SetFailures
  BY <1>1, <1>7, SetFailuresInv
<1>8. CASE SetTotals
  BY <1>1, <1>8, SetTotalsInv
<1>9. CASE Restart
  BY <1>1, <1>9, RestartInv
<1>10. CASE UNCHANGED vars
  <2>1. UNCHANGED <<pc, rounds, response, todo, jobsTodo, counts, sums, totals, gauges,
                    names, previous>>
    BY <1>10 DEF vars, locals
  <2>2. /\ Done' = Done /\ DoneJobs' = DoneJobs /\ CurrentJobs' = CurrentJobs
        /\ Recording' = Recording /\ Between' = Between
    BY <2>1 DEF Done, DoneJobs, CurrentJobs, Recording, Between
  <2>3. TypeOK' /\ TodoInv' /\ CountsInv'
    BY <2>1, <2>2 DEF RecorderInv, TypeOK, TodoInv, CountsInv
  <2>4. SumsInv' /\ TotalsInv' /\ GaugesInv'
    BY <2>1, <2>2 DEF RecorderInv, SumsInv, TotalsInv, GaugesInv, Holds, Determined, LastToSet
  <2> QED
    BY <1>1, <2>3, <2>4 DEF RecorderInv
<1> QED
  BY <1>2, <1>3, <1>4, <1>5, <1>6, <1>7, <1>8, <1>9, <1>10 DEF Next, RecorderNext

\* What is recorded of a response so far, at every step of the recorder
\* (metrics.go:72-182).
THEOREM RecorderInvariance == Spec => []RecorderInv
<1>1. Init => RecorderInv
  BY InitInv, FreshInv DEF Init, Fresh
<1> QED
  BY <1>1, NextRecorderInv, PTL DEF Spec

\* Between two responses the totals are those of the last one, in which a job counts
\* once under each of its owners (metrics.go:168-182, store.go:268-270).
THEOREM TotalsCorrect == Spec => []TotalsAreOfResponse
<1>1. RecorderInv => TotalsAreOfResponse
  <2> SUFFICES ASSUME RecorderInv, Between PROVE totals = TotalsOf(response)
    BY DEF TotalsAreOfResponse
  <2>1. /\ totals.registered = Len(response.cronjobs)
        /\ totals.running = TotalsOf(response).running
        /\ totals.failing = TotalsOf(response).failing
        /\ totals.completed = TotalsOf(response).completed
    BY DEF RecorderInv, TotalsInv, Between
  <2>2. totals = [registered |-> totals.registered, running |-> totals.running,
                  failing |-> totals.failing, completed |-> totals.completed]
    BY TotalsType DEF RecorderInv
  <2> QED
    BY <2>1, <2>2 DEF TotalsOf
<1> QED
  BY <1>1, RecorderInvariance, PTL

\* Each total that a scrape sees is one of the last two responses' (metrics.go:168-182).
THEOREM ScrapesCorrect == Spec => []ScrapeSeesWholeTotals
<1>1. RecorderInv => ScrapeSeesWholeTotals
  <2> SUFFICES ASSUME RecorderInv PROVE ScrapeSeesWholeTotals
    OBVIOUS
  <2>1. /\ totals.registered = TotalsOf(response).registered
        /\ totals.running \in {TotalsOf(response).running, TotalsOf(previous).running}
        /\ totals.failing \in {TotalsOf(response).failing, TotalsOf(previous).failing}
        /\ totals.completed \in {TotalsOf(response).completed, TotalsOf(previous).completed}
    BY DEF RecorderInv, TotalsInv, TotalsOf
  <2>2. DOMAIN totals = {"registered", "running", "failing", "completed"}
    BY TotalsType DEF RecorderInv
  <2> QED
    BY <2>1, <2>2 DEF ScrapeSeesWholeTotals
<1> QED
  BY <1>1, RecorderInvariance, PTL

\* Between two responses the gauges of a cronjob are those of its own jobs
\* (metrics.go:72-182).
THEOREM GaugesCorrect == Spec => []OwnGaugesAreOfResponse
<1>1. RecorderInv => OwnGaugesAreOfResponse
  <2> SUFFICES ASSUME RecorderInv, Between, NEW i \in DOMAIN response.cronjobs
               PROVE  /\ \A e \in JobsOf(response, response.cronjobs[i]) :
                           gauges[Key("duration_seconds", response.cronjobs[i], e[2])]
                             = Count(response, {e}, "active")
                      /\ LastToSet(i, Len(response.cronjobs)) =>
                           /\ gauges[Key("completion_total", response.cronjobs[i], "")]
                                = Count(response, JobsOf(response, response.cronjobs[i]), "completed")
                           /\ gauges[Key("failure_total", response.cronjobs[i], "")]
                                = Count(response, JobsOf(response, response.cronjobs[i]), "failed")
    BY DEF OwnGaugesAreOfResponse
  <2>1. /\ TypeOK /\ TodoInv /\ todo = <<>> /\ pc # "failures"
    BY DEF RecorderInv, TodoInv, Between
  <2>2. /\ Done = Len(response.cronjobs) /\ DoneJobs = DOMAIN response.jobs
        /\ i \in 1..Len(response.cronjobs)
    BY <2>1, DoneType, AllDone
  <2>3. \A e \in JobsOf(response, response.cronjobs[i]) :
          gauges[Key("duration_seconds", response.cronjobs[i], e[2])] = Count(response, {e}, "active")
    BY <2>2 DEF RecorderInv, GaugesInv, Holds, JobsOf
  <2>4. /\ Determined("completion_total", "completed", Len(response.cronjobs))
        /\ Determined("failure_total", "failed", Len(response.cronjobs))
    BY <2>1, <2>2 DEF RecorderInv, GaugesInv
  <2> QED
    BY <2>2, <2>3, <2>4 DEF Determined, Holds
<1> QED
  BY <1>1, RecorderInvariance, PTL

(***************************************************************************)
(* A request for a dashboard beside the recorder, for any names stored     *)
(* between and during its passes.                                          *)
(***************************************************************************)

\* What a gauge that is set adds to the registry.
LEMMA SetGaugeRegisters ==
  ASSUME IInv, NEW metric, NEW label, NEW val, NEW next,
         SetGaugeInMap(metric, Head(todo), label, val, next)
  PROVE  registry' = registry \cup {<<metric, MetricName[Head(todo)], label>>}
<1> DEFINE desc == <<metric, MetricName[Head(todo)], label>>
<1>1. Key(metric, Head(todo), label) = desc /\ Descriptor(metric, Head(todo), label) = desc
  BY DEF Key, Descriptor
<1>2. registry = DOMAIN gauges
  BY DEF IInv, RegistryInv
<1>3. CASE desc \in DOMAIN gauges
  BY <1>1, <1>2, <1>3 DEF SetGaugeInMap
<1>4. CASE desc \notin DOMAIN gauges
  BY <1>1, <1>2, <1>4 DEF SetGaugeInMap
<1> QED
  BY <1>3, <1>4

\* The registry only grows, and with it what a scrape shows.
LEMMA RegistryGrows ==
  ASSUME NEW metric, NEW name, NEW label, registry' = registry \cup {<<metric, name, label>>}
  PROVE  /\ Registered(metric)' = Registered(metric) \cup {name}
         /\ \A other : other # metric => Registered(other)' = Registered(other)
<1> DEFINE desc == <<metric, name, label>>
<1>1. desc[1] = metric /\ desc[2] = name
  OBVIOUS
<1> HIDE DEF desc
<1>2. registry' = registry \cup {desc}
  BY DEF desc
<1>3. Registered(metric)' = Registered(metric) \cup {name}
  BY <1>1, <1>2 DEF Registered
<1>4. \A other : other # metric => Registered(other)' = Registered(other)
  BY <1>1, <1>2 DEF Registered
<1> QED
  BY <1>3, <1>4

LEMMA RegistrySame ==
  ASSUME registry' = registry
  PROVE  \A metric : Registered(metric)' = Registered(metric)
  BY DEF Registered

LEMMA AskedAreNames ==
  ASSUME IInv PROVE Registered("failure_total") \subseteq names
  BY DEF IInv, NamesInv, Registered

(***************************************************************************)
(* The recorder's steps.                                                   *)
(***************************************************************************)

LEMMA RecorderKeepsRecorded == ASSUME IInv, RecordedInv, RecorderNext PROVE RecordedInv'
<1>1. CASE Dial \/ LoseStream \/ SetTotals
  BY <1>1, RegistrySame DEF Dial, LoseStream, SetTotals, SetTotal, locals, RecordedInv
<1>2. CASE ReceiveAny
  <2>1. PICK r : Receive(r)
    BY <1>2 DEF ReceiveAny
  <2> QED
    BY <2>1, RegistrySame DEF Receive, RecordedInv
<1>3. CASE BeginCronjob
  <2>1. /\ names' = names \cup {MetricName[Head(todo)]} /\ todo' = todo /\ pc' = "jobs"
        /\ registry' = registry /\ pc = "cronjobs"
    BY <1>3 DEF BeginCronjob
  <2> QED
    BY <2>1, RegistrySame DEF RecordedInv
<1>4. ASSUME NEW e \in jobsTodo, RecordJob(e) PROVE RecordedInv'
  <2>1. /\ SetGaugeInMap("duration_seconds", Head(todo), e[2],
                         IF "active" \in response.jobs[e] THEN 1 ELSE 0, "jobs")
        /\ names' = names /\ todo' = todo /\ pc = "jobs"
    BY <1>4 DEF RecordJob
  <2>2. pc' = "jobs" /\ MetricName[Head(todo)] \in names
    BY <2>1, SetGauge DEF IInv, NamesInv
  <2>3. registry' = registry \cup {<<"duration_seconds", MetricName[Head(todo)], e[2]>>}
    BY <2>1, SetGaugeRegisters
  <2>4. /\ Registered("failure_total")' = Registered("failure_total")
        /\ Registered("completion_total")' = Registered("completion_total")
    <3>1. PICK name, label : name = MetricName[Head(todo)] /\ label = e[2]
      OBVIOUS
    <3>2. registry' = registry \cup {<<"duration_seconds", name, label>>}
      BY <2>3, <3>1
    <3>3. \A other : other # "duration_seconds" => Registered(other)' = Registered(other)
      BY <3>2, RegistryGrows
    <3> QED
      BY <3>3
  <2> QED
    BY <2>1, <2>2, <2>4 DEF RecordedInv
<1>5. CASE SetCompletions
  <2>1. /\ SetGaugeInMap("completion_total", Head(todo), "", counts.completed, "failures")
        /\ names' = names /\ todo' = todo /\ pc = "jobs"
    BY <1>5 DEF SetCompletions, locals
  <2>2. pc' = "failures"
    BY <2>1, SetGauge DEF IInv, NamesInv
  <2>3. registry' = registry \cup {<<"completion_total", MetricName[Head(todo)], "">>}
    BY <2>1, SetGaugeRegisters
  <2>4. /\ Registered("failure_total")' = Registered("failure_total")
        /\ Registered("completion_total")' =
              Registered("completion_total") \cup {MetricName[Head(todo)]}
    <3>1. PICK name : name = MetricName[Head(todo)]
      OBVIOUS
    <3>2. registry' = registry \cup {<<"completion_total", name, "">>}
      BY <2>3, <3>1
    <3>3. /\ Registered("completion_total")' = Registered("completion_total") \cup {name}
          /\ \A other : other # "completion_total" => Registered(other)' = Registered(other)
      BY <3>2, RegistryGrows
    <3> QED
      BY <3>1, <3>3
  <2> QED
    BY <2>1, <2>2, <2>4 DEF RecordedInv
<1>6. CASE SetFailures
  <2>1. /\ SetGaugeInMap("failure_total", Head(todo), "", counts.failing, "cronjobs")
        /\ names' = names /\ pc = "failures"
    BY <1>6 DEF SetFailures
  <2>2. pc' = "cronjobs"
    BY <2>1, SetGauge DEF IInv, NamesInv
  <2>3. registry' = registry \cup {<<"failure_total", MetricName[Head(todo)], "">>}
    BY <2>1, SetGaugeRegisters
  <2>4. /\ Registered("failure_total")' =
              Registered("failure_total") \cup {MetricName[Head(todo)]}
        /\ Registered("completion_total")' = Registered("completion_total")
    <3>1. PICK name : name = MetricName[Head(todo)]
      OBVIOUS
    <3>2. registry' = registry \cup {<<"failure_total", name, "">>}
      BY <2>3, <3>1
    <3>3. /\ Registered("failure_total")' = Registered("failure_total") \cup {name}
          /\ \A other : other # "failure_total" => Registered(other)' = Registered(other)
      BY <3>2, RegistryGrows
    <3> QED
      BY <3>1, <3>3
  <2> QED
    BY <2>1, <2>2, <2>4 DEF RecordedInv
<1> QED
  BY <1>1, <1>2, <1>3, <1>4, <1>5, <1>6 DEF RecorderNext

LEMMA RecorderKeepsPasses ==
  ASSUME PassInv, RecorderNext, UNCHANGED dashboardVars
  PROVE  PassInv'
<1>1. names \subseteq names'
  BY DEF RecorderNext, Dial, LoseStream, ReceiveAny, Receive, BeginCronjob, RecordJob,
         SetCompletions, SetFailures, SetTotals, SetTotal
<1> QED
  BY <1>1 DEF PassInv, dashboardVars

(***************************************************************************)
(* The passes.                                                             *)
(***************************************************************************)

LEMMA RequestInv ==
  ASSUME IInv, DashboardInv, Request, UNCHANGED vars
  PROVE  DashboardInv'
<1>1. RecordedInv' /\ names' = names
  BY RegistrySame DEF vars, locals, DashboardInv, RecordedInv
<1>2. CASE GeneratePanels
  BY <1>1, <1>2, AskedAreNames DEF GeneratePanels, NoPanels, DashboardInv, PassInv
<1>3. CASE AllStateTimelines
  <2>1. PICK V \in Visited : panels' = [panels EXCEPT !.timeline = V]
    BY <1>3 DEF AllStateTimelines
  <2>2. lower \subseteq V /\ V \subseteq names
    BY <2>1 DEF Visited, DashboardInv, PassInv
  <2> QED
    BY <1>1, <1>3, <2>1, <2>2 DEF AllStateTimelines, DashboardInv, PassInv
<1>4. CASE AllStatusHistory
  <2>1. PICK V \in Visited : panels' = [panels EXCEPT !.history = V]
    BY <1>4 DEF AllStatusHistory
  <2>2. lower \subseteq V /\ V \subseteq names
    BY <2>1 DEF Visited, DashboardInv, PassInv
  <2> QED
    BY <1>1, <1>4, <2>1, <2>2 DEF AllStatusHistory, DashboardInv, PassInv
<1>5. CASE GenerateCronJobRowPanels
  <2>1. PICK V \in Visited :
           IF V = {} THEN panels' = panels
                     ELSE \E first \in V : panels' = [panels EXCEPT !.rows = {first}]
    BY <1>5 DEF GenerateCronJobRowPanels
  <2>2. lower \subseteq V /\ V \subseteq names
    BY <2>1 DEF Visited, DashboardInv, PassInv
  <2> QED
    BY <1>1, <1>5, <2>1, <2>2 DEF GenerateCronJobRowPanels, DashboardInv, PassInv
<1>6. CASE Reply
  BY <1>1, <1>6 DEF Reply, ForgetRequest, NoPanels, DashboardInv, PassInv
<1> QED
  BY <1>2, <1>3, <1>4, <1>5, <1>6 DEF Request

LEMMA DashboardNextInv ==
  IInv /\ DashboardInv /\ [DashboardNext]_allVars => IInv' /\ DashboardInv'
<1> SUFFICES ASSUME IInv, DashboardInv, [DashboardNext]_allVars PROVE IInv' /\ DashboardInv'
  OBVIOUS
<1>1. [Next]_vars
  BY DEF DashboardNext, allVars, Next
<1>2. CASE Request /\ UNCHANGED vars
  BY <1>1, <1>2, NextInv, RequestInv
<1>3. CASE RecorderNext /\ UNCHANGED dashboardVars
  BY <1>1, <1>3, NextInv, RecorderKeepsRecorded, RecorderKeepsPasses DEF DashboardInv
<1>4. CASE Restart /\ ForgetRequest
  <2>1. DashboardInv'
    BY <1>4 DEF Restart, ForgetRequest, NoPanels, DashboardInv, PassInv, RecordedInv, Registered
  <2> QED
    BY <1>1, <2>1, NextInv
<1>5. CASE UNCHANGED allVars
  <2>1. DashboardInv'
    BY <1>5, RegistrySame
       DEF allVars, dashboardVars, vars, locals, DashboardInv, PassInv, RecordedInv
  <2> QED
    BY <1>1, <2>1, NextInv
<1> QED
  BY <1>2, <1>3, <1>4, <1>5 DEF DashboardNext

\* Map, registry and passes keep step.
THEOREM DashboardInvariance == DashboardSpec => [](IInv /\ DashboardInv)
<1>1. DashboardInit => IInv /\ DashboardInv
  BY InitInv DEF DashboardInit, Init, NoPanels, DashboardInv, PassInv, RecordedInv, Registered
<1> QED
  BY <1>1, DashboardNextInv, PTL DEF DashboardSpec

\* GeneratePanels misses no metric that was registered when it was called
\* (dashboards.go:101-106).
THEOREM Covers == DashboardSpec => []DashboardCoversRegistered
<1>1. DashboardInv => DashboardCoversRegistered
  BY DEF DashboardInv, PassInv, DashboardCoversRegistered
<1> QED
  BY <1>1, DashboardInvariance, PTL

\* A dashboard request takes no step that the recorder could not take or leave: the
\* recorder beside requests implements the recorder alone.
THEOREM ImplementsRecorder == DashboardSpec => Spec
<1>1. DashboardInit => Init
  BY DEF DashboardInit
<1>2. [DashboardNext]_allVars => [Next]_vars
  BY DEF DashboardNext, allVars, Next
<1> QED
  BY <1>1, <1>2, PTL DEF DashboardSpec, Spec

\* Between two responses the panels over all cronjobs query failure metrics that are
\* registered, the cronjob of the rows has its failure and its completion metric, and
\* its duration metric if it has a job in the response (dashboards.go:111-233, 292-315).
THEOREM QueriesRegistered == DashboardSpec => []DashboardQueriesRegistered
<1>1. ASSUME DashboardInv, RecorderInv PROVE DashboardQueriesRegistered
  <2> SUFFICES ASSUME Between
               PROVE  /\ panels.timeline \cup panels.history \subseteq Registered("failure_total")
                      /\ panels.rows \subseteq
                           Registered("failure_total") \cap Registered("completion_total")
                      /\ \A e \in DOMAIN response.jobs :
                           MetricName[e[1]] \in Registered("duration_seconds")
    BY DEF DashboardQueriesRegistered
  <2>1. /\ panels.timeline \subseteq names /\ panels.history \subseteq names
        /\ panels.rows \subseteq names
    BY <1>1 DEF DashboardInv, PassInv
  <2>2. names \subseteq Registered("failure_total") \cap Registered("completion_total")
    BY <1>1 DEF DashboardInv, RecordedInv, Between
  <2>3. ASSUME NEW e \in DOMAIN response.jobs
        PROVE  MetricName[e[1]] \in Registered("duration_seconds")
    <3>1. DoneJobs = DOMAIN response.jobs
      BY <1>1, AllDone DEF RecorderInv, TodoInv, Between
    <3> DEFINE desc == <<"duration_seconds", MetricName[e[1]], e[2]>>
    <3>2. desc \in registry
      BY <1>1, <2>3, <3>1 DEF RecorderInv, GaugesInv, Holds, Key, IInv, RegistryInv
    <3>3. desc[1] = "duration_seconds" /\ desc[2] = MetricName[e[1]]
      OBVIOUS
    <3> QED
      BY <3>2, <3>3 DEF Registered
  <2> QED
    BY <2>1, <2>2, <2>3
<1> QED
  BY <1>1, DashboardInvariance, ImplementsRecorder, RecorderInvariance, PTL

\* Scrapes see the gauges of whole responses, whatever requests are handled meanwhile
\* (metrics.go:72-182).
THEOREM ScrapesBesideRequests ==
    DashboardSpec => []/\ TotalsAreOfResponse
                       /\ ScrapeSeesWholeTotals
                       /\ OwnGaugesAreOfResponse
BY ImplementsRecorder, TotalsCorrect, ScrapesCorrect, GaugesCorrect, PTL
=============================================================================
