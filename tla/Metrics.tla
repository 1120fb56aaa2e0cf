------------------------------ MODULE Metrics ------------------------------
(***************************************************************************)
(* The metrics recorder (src/metrics.go).  One goroutine receives the      *)
(* cronjobs of the namespace from the process's own GetCronjobs stream and *)
(* sets Prometheus gauges from them, one gauge at a time: a scrape may see *)
(* any state of this module.  A gauge that is not in summaryMap yet is     *)
(* registered first, which panics when the registry has its descriptor.    *)
(*                                                                         *)
(* The name of a metric is made of the sanitized name of its cronjob:      *)
(* cronjobs whose names differ only in separators share their metrics.     *)
(***************************************************************************)
EXTENDS Naturals, FiniteSets, Sequences, Functions

CONSTANTS Cronjobs,    \* the names of the cronjobs
          Jobs,        \* the names of the jobs
          Owners,      \* the cronjobs that own each job
          MetricName,  \* sanitizeMetricName of the name of each cronjob
          MaxRounds,   \* bound on the number of responses a process records
          SeenLists,   \* bound on the lists of cronjobs in responses
          SeenStatuses \* bound on the statuses that jobs have in responses

\* What the recorder reads of a JobResponse: Status.Active > 0, Failed and
\* Status.CompletionTime.  A job of which a pod failed may still be active, or
\* complete; a complete job has no active pod.
Statuses == {s \in SUBSET {"active", "failed", "completed"} :
                 ~ {"active", "completed"} \subseteq s}

\* A response has its cronjobs sorted by their names (sk8l.go:138-141).  Nothing here
\* depends on it: any order, and no cronjob twice.
NoRepeat(list) == \A i, k \in DOMAIN list : list[i] = list[k] => i = k

ASSUME NamesAssumption ==
    /\ Owners \in [Jobs -> SUBSET Cronjobs]
    /\ IsFiniteSet(Jobs) /\ IsFiniteSet(Cronjobs)
    /\ DOMAIN MetricName = Cronjobs
    /\ MaxRounds \in Nat
    /\ \A list \in SeenLists : list \in Seq(Cronjobs) /\ NoRepeat(list)
    /\ SeenStatuses \subseteq Statuses

VARIABLES
    pc,         \* where the recorder's goroutine is
    rounds,     \* number of responses received
    response,   \* the cronjobs and the jobs of the last response
    todo,       \* its cronjobs that are still to be recorded
    jobsTodo,   \* the jobs of the first of them that are still to be recorded
    counts,     \* cronjobFailingJobs and cronjobCompletions of that cronjob
    sums,       \* totalRunning, totalFailing, totalCompleted
    totals,     \* the four gauges of the namespace
    gauges,     \* summaryMap: the gauge of each key
    registry,   \* the descriptors of the gauges that are registered
    names,      \* the keys of metricsNamesMap, which the dashboard is made of
    previous    \* the response before the last one (history)

locals == <<todo, jobsTodo, counts, sums>>

vars == <<pc, rounds, response, locals, totals, gauges, registry, names, previous>>

\* The job responses that a list of cronjobs may have: a job has one under each of
\* its owners (store.go:268-270), so that it counts once for each of them.
Entries(list) == {e \in Range(list) \X Jobs : e[1] \in Owners[e[2]]}

\* They are made of one version of the job.  Only its pods, of which one may have
\* failed, are looked up for each of them.
OneVersion(statuses) ==
    \A e, f \in DOMAIN statuses :
        e[2] = f[2] => statuses[e] \ {"failed"} = statuses[f] \ {"failed"}

\* The job responses J of a response that have a status, and their number.
With(r, J, status) == {j \in J : status \in r.jobs[j]}
Count(r, J, status) == Cardinality(With(r, J, status))

JobsOf(r, cj) == {e \in DOMAIN r.jobs : e[1] = cj}

NoResponse == [cronjobs |-> << >>, jobs |-> << >>]
NoSums == [running |-> 0, failing |-> 0, completed |-> 0]
NoCounts == [failing |-> 0, completed |-> 0]

Labels == {"dialing", "receiving", "cronjobs", "jobs", "failures", "failing",
           "completed", "panicked"}

TypeOK ==
    /\ pc \in Labels
    /\ rounds \in 0..MaxRounds
    /\ \A r \in {response, previous} :
         /\ r.cronjobs \in Seq(Cronjobs) /\ NoRepeat(r.cronjobs)
         /\ DOMAIN r.jobs \subseteq Entries(r.cronjobs) /\ OneVersion(r.jobs)
    /\ todo \in Seq(Cronjobs)
    /\ jobsTodo \subseteq DOMAIN response.jobs
    /\ counts \in [DOMAIN NoCounts -> Nat]
    /\ sums \in [DOMAIN NoSums -> Nat]
    /\ totals \in [DOMAIN NoSums \cup {"registered"} -> Nat]
    /\ Range(gauges) \subseteq Nat
    /\ names \subseteq Range(MetricName)

Init ==
    /\ pc = "dialing"
    /\ rounds = 0
    /\ response = NoResponse
    /\ todo = <<>>
    /\ jobsTodo = {}
    /\ counts = NoCounts
    /\ sums = NoSums
    /\ totals = [registered |-> 0, running |-> 0, failing |-> 0, completed |-> 0]
    /\ gauges = << >>
    /\ registry = {}
    /\ names = {}
    /\ previous = NoResponse

-----------------------------------------------------------------------------
(* Gauges.                                                                 *)

\* The fully qualified name of a metric, and its job_name label if it has one.
Descriptor(metric, cj, label) == <<metric, MetricName[cj], label>>

\* Mutant: the keys are made of the cronjobs' own names.
KeyMutUnsanitized(metric, cj, label) == <<metric, cj, label>>

\* The key of a gauge in summaryMap.
Key(metric, cj, label) == <<metric, MetricName[cj], label>>

\* setGaugeInMap, after which the recorder goes on at a label.
SetGaugeInMap(metric, cj, label, val, next) ==
    LET key == Key(metric, cj, label)
        desc == Descriptor(metric, cj, label)
    IN  IF key \in DOMAIN gauges
        THEN /\ gauges' = [gauges EXCEPT ![key] = val]
             /\ pc' = next
             /\ UNCHANGED registry
        ELSE IF desc \in registry
        THEN pc' = "panicked" /\ UNCHANGED <<gauges, registry>>
        ELSE /\ gauges' = [k \in DOMAIN gauges \cup {key} |->
                               IF k = key THEN val ELSE gauges[k]]
             /\ registry' = registry \cup {desc}
             /\ pc' = next

-----------------------------------------------------------------------------
(* collectMetricsStream                                                    *)

\* c.GetCronjobs(ctx, ...) succeeds.
Dial ==
    /\ pc = "dialing"
    /\ pc' = "receiving"
    /\ UNCHANGED <<rounds, response, locals, totals, gauges, registry, names, previous>>

\* Recv() returns an error or io.EOF; the stream is opened again.
LoseStream ==
    /\ pc = "receiving"
    /\ pc' = "dialing"
    /\ UNCHANGED <<rounds, response, locals, totals, gauges, registry, names, previous>>

\* Mutant: the totals start from zero.
ReceiveMutResetsTotals(r) ==
    /\ pc = "receiving"
    /\ rounds < MaxRounds
    /\ rounds' = rounds + 1
    /\ previous' = response
    /\ response' = r
    /\ todo' = r.cronjobs
    /\ sums' = NoSums
    /\ totals' = [registered |-> Len(r.cronjobs),
                  running |-> 0, failing |-> 0, completed |-> 0]
    /\ pc' = "cronjobs"
    /\ UNCHANGED <<jobsTodo, counts, gauges, registry, names>>

\* Mutant: the totals go on from those of the last response.
ReceiveMutKeepsSums(r) ==
    /\ pc = "receiving"
    /\ rounds < MaxRounds
    /\ rounds' = rounds + 1
    /\ previous' = response
    /\ response' = r
    /\ todo' = r.cronjobs
    /\ totals' = [totals EXCEPT !.registered = Len(r.cronjobs)]
    /\ pc' = "cronjobs"
    /\ UNCHANGED <<jobsTodo, counts, sums, gauges, registry, names>>

\* Recv() returns a response, and processCronjobsResponse begins.
Receive(r) ==
    /\ pc = "receiving"
    /\ rounds < MaxRounds
    /\ rounds' = rounds + 1
    /\ previous' = response
    /\ response' = r
    /\ todo' = r.cronjobs
    /\ sums' = NoSums
    /\ totals' = [totals EXCEPT !.registered = Len(r.cronjobs)]
    /\ pc' = "cronjobs"
    /\ UNCHANGED <<jobsTodo, counts, gauges, registry, names>>

ReceiveAny ==
    \E list \in SeenLists, J \in SUBSET Jobs :
    \E statuses \in [{e \in Entries(list) : e[2] \in J} -> SeenStatuses] :
        /\ OneVersion(statuses)
        /\ Receive([cronjobs |-> list, jobs |-> statuses])

-----------------------------------------------------------------------------
(* recordSingleCronjobMetrics, recordJobDuration                           *)

\* Mutant: the names are stored under the cronjobs' own names.
BeginCronjobMutRawNames ==
    /\ pc = "cronjobs"
    /\ todo # <<>>
    /\ names' = names \cup {Head(todo)}
    /\ jobsTodo' = JobsOf(response, Head(todo))
    /\ counts' = NoCounts
    /\ pc' = "jobs"
    /\ UNCHANGED <<rounds, response, todo, sums, totals, gauges, registry, previous>>

\* metricsNamesMap.Store, before any of the cronjob's gauges is set.
BeginCronjob ==
    /\ pc = "cronjobs"
    /\ todo # <<>>
    /\ names' = names \cup {MetricName[Head(todo)]}
    /\ jobsTodo' = JobsOf(response, Head(todo))
    /\ counts' = NoCounts
    /\ pc' = "jobs"
    /\ UNCHANGED <<rounds, response, todo, sums, totals, gauges, registry, previous>>

\* The duration gauge of a job: DurationInS, of which 1 is all that is kept,
\* while the job is active, and else 0.
RecordJob(e) ==
    /\ pc = "jobs"
    /\ e \in jobsTodo
    /\ SetGaugeInMap("duration_seconds", Head(todo), e[2],
                     IF "active" \in response.jobs[e] THEN 1 ELSE 0, "jobs")
    /\ jobsTodo' = jobsTodo \ {e}
    /\ counts' = [failing |-> counts.failing + Count(response, {e}, "failed"),
                  completed |-> counts.completed + Count(response, {e}, "completed")]
    /\ UNCHANGED <<rounds, response, todo, sums, totals, names, previous>>

\* Mutant: the completions are counted over all of the response.
SetCompletionsMutTotal ==
    /\ pc = "jobs"
    /\ jobsTodo = {}
    /\ SetGaugeInMap("completion_total", Head(todo), "",
                     sums.completed + counts.completed, "failures")
    /\ UNCHANGED <<rounds, response, locals, totals, names, previous>>

SetCompletions ==
    /\ pc = "jobs"
    /\ jobsTodo = {}
    /\ SetGaugeInMap("completion_total", Head(todo), "", counts.completed, "failures")
    /\ UNCHANGED <<rounds, response, locals, totals, names, previous>>

\* Mutant: no gauge for a cronjob without failures.
SetFailuresMutSkipsZero ==
    /\ pc = "failures"
    /\ IF counts.failing = 0
       THEN pc' = "cronjobs" /\ UNCHANGED <<gauges, registry>>
       ELSE SetGaugeInMap("failure_total", Head(todo), "", counts.failing, "cronjobs")
    /\ sums' = [running |-> sums.running
                     + Count(response, JobsOf(response, Head(todo)), "active"),
                failing |-> sums.failing + counts.failing,
                completed |-> sums.completed + counts.completed]
    /\ todo' = Tail(todo)
    /\ UNCHANGED <<rounds, response, jobsTodo, counts, totals, names, previous>>

\* The last gauge of a cronjob, and the sums of the response.
SetFailures ==
    /\ pc = "failures"
    /\ SetGaugeInMap("failure_total", Head(todo), "", counts.failing, "cronjobs")
    /\ sums' = [running |-> sums.running
                     + Count(response, JobsOf(response, Head(todo)), "active"),
                failing |-> sums.failing + counts.failing,
                completed |-> sums.completed + counts.completed]
    /\ todo' = Tail(todo)
    /\ UNCHANGED <<rounds, response, jobsTodo, counts, totals, names, previous>>

\* The three totals that are set at the end, one after the other.
SetTotal(from, total, next) ==
    /\ pc = from
    /\ todo = <<>>
    /\ totals' = [totals EXCEPT ![total] = sums[total]]
    /\ pc' = next
    /\ UNCHANGED <<rounds, response, locals, gauges, registry, names, previous>>

SetTotals ==
    \/ SetTotal("cronjobs", "running", "failing")
    \/ SetTotal("failing", "failing", "completed")
    \/ SetTotal("completed", "completed", "receiving")

\* A panic, or anything else, ends the process; the next one starts anew.
Restart ==
    /\ pc' = "dialing"
    /\ rounds' = 0
    /\ response' = NoResponse
    /\ todo' = <<>>
    /\ jobsTodo' = {}
    /\ counts' = NoCounts
    /\ sums' = NoSums
    /\ totals' = [t \in DOMAIN totals |-> 0]
    /\ gauges' = << >>
    /\ registry' = {}
    /\ names' = {}
    /\ previous' = NoResponse

RecorderNext ==
    \/ Dial
    \/ LoseStream
    \/ ReceiveAny
    \/ BeginCronjob
    \/ \E e \in jobsTodo : RecordJob(e)
    \/ SetCompletions
    \/ SetFailures
    \/ SetTotals

Next == RecorderNext \/ Restart

Spec == Init /\ [][Next]_vars

-----------------------------------------------------------------------------
(* How summaryMap, the registry and metricsNamesMap keep step: an          *)
(* inductive invariant.                                                    *)

\* The map has a gauge for every descriptor that is registered.
RegistryInv == pc # "panicked" /\ registry = DOMAIN gauges

\* The names of the cronjob that is being recorded are stored already.
NamesInv ==
    /\ \A desc \in registry : desc[2] \in names
    /\ pc \in {"jobs", "failures"} => MetricName[Head(todo)] \in names

IInv == RegistryInv /\ NamesInv

-----------------------------------------------------------------------------
(* Properties.                                                             *)

Holds(key, val) == key \in DOMAIN gauges /\ gauges[key] = val

\* The recorder has recorded a response and waits for the next one.
Between == pc \in {"dialing", "receiving"}

TotalsOf(r) ==
    [registered |-> Len(r.cronjobs),
     running |-> Count(r, DOMAIN r.jobs, "active"),
     failing |-> Count(r, DOMAIN r.jobs, "failed"),
     completed |-> Count(r, DOMAIN r.jobs, "completed")]

\* Registering a gauge never panics: not for cronjobs that share a metric, not
\* for a job that comes back, not after the stream was opened again.
NeverRegistersTwice == pc # "panicked"

\* Between two responses the totals are those of the last one, in which a job counts
\* under each of its owners, also when some of the cronjobs share their metrics.
TotalsAreOfResponse == Between => totals = TotalsOf(response)

\* Whatever a scrape catches, each total is that of the last response or of the
\* one before: no half-made sum and no reset is ever visible.
ScrapeSeesWholeTotals ==
    \A t \in DOMAIN totals :
        totals[t] \in {TotalsOf(response)[t], TotalsOf(previous)[t]}

\* Of the first n cronjobs of the response, the i-th is the last of those which
\* share its metrics.
LastToSet(i, n) ==
    \A k \in (i + 1)..n :
        MetricName[response.cronjobs[k]] # MetricName[response.cronjobs[i]]

\* Between two responses every job in the last one has its own duration, and the
\* counts of a cronjob's metrics are those of its own jobs, whatever cronjob set the
\* same gauges before; of cronjobs that share their metrics once they are sanitized
\* (b-c and b.c), they are those of the last one and never a mix.
OwnGaugesAreOfResponse ==
    Between => \A i \in DOMAIN response.cronjobs :
        LET cj == response.cronjobs[i]
            J == JobsOf(response, cj)
        IN  /\ \A e \in J : gauges[Key("duration_seconds", cj, e[2])]
                                = Count(response, {e}, "active")
            /\ LastToSet(i, Len(response.cronjobs)) =>
                 /\ gauges[Key("completion_total", cj, "")] = Count(response, J, "completed")
                 /\ gauges[Key("failure_total", cj, "")] = Count(response, J, "failed")

\* README.md:89: duration_seconds, "Current duration of a running cronjob".
DurationsAreOfRunning ==
    Between => \A j \in Jobs : \A cj \in Owners[j] :
        Holds(Key("duration_seconds", cj, j), 1) =>
            \E e \in DOMAIN response.jobs : e[2] = j /\ "active" \in response.jobs[e]

-----------------------------------------------------------------------------
(* What is recorded of a response so far: the inductive invariant of the   *)
(* properties about responses, together with IInv.                         *)

\* The number of cronjobs of the response that are recorded, and their jobs.
Done == Len(response.cronjobs) - Len(todo)
DoneJobs ==
    {e \in DOMAIN response.jobs : \E i \in 1..Done : e[1] = response.cronjobs[i]}

\* The recorded jobs of the cronjob that is being recorded.
Recording == pc \in {"jobs", "failures"}
CurrentJobs == IF Recording THEN JobsOf(response, Head(todo)) \ jobsTodo ELSE {}

TodoInv ==
    /\ Len(todo) <= Len(response.cronjobs)
    /\ \A i \in DOMAIN todo : todo[i] = response.cronjobs[Done + i]
    /\ Recording => todo # <<>>
    /\ Between \/ pc \in {"failing", "completed"} => todo = <<>>

CountsInv ==
    /\ pc # "jobs" => jobsTodo = {}
    /\ Recording =>
        /\ jobsTodo \subseteq JobsOf(response, Head(todo))
        /\ counts = [failing |-> Count(response, CurrentJobs, "failed"),
                     completed |-> Count(response, CurrentJobs, "completed")]

SumsInv ==
    sums = [running |-> Count(response, DoneJobs, "active"),
            failing |-> Count(response, DoneJobs, "failed"),
            completed |-> Count(response, DoneJobs, "completed")]

\* The totals are set one after the other, from the last response's to this one's.
TotalsInv ==
    LET before(labels) == IF pc \in labels THEN previous ELSE response
        recording == {"cronjobs", "jobs", "failures"}
    IN  /\ totals.registered = Len(response.cronjobs)
        /\ totals.running = TotalsOf(before(recording)).running
        /\ totals.failing = TotalsOf(before(recording \cup {"failing"})).failing
        /\ totals.completed =
             TotalsOf(before(recording \cup {"failing", "completed"})).completed

\* Of the first n cronjobs of the response, the last of those which share a
\* metric determines it.
Determined(metric, status, n) ==
    \A i \in 1..n :
        LastToSet(i, n) =>
            Holds(Key(metric, response.cronjobs[i], ""),
                  Count(response, JobsOf(response, response.cronjobs[i]), status))

GaugesInv ==
    /\ \A e \in DoneJobs \cup CurrentJobs :
         Holds(Key("duration_seconds", e[1], e[2]), Count(response, {e}, "active"))
    /\ Determined("completion_total", "completed", IF pc = "failures" THEN Done + 1 ELSE Done)
    /\ Determined("failure_total", "failed", Done)

RecorderInv == TypeOK /\ IInv /\ TodoInv /\ CountsInv /\ SumsInv /\ TotalsInv /\ GaugesInv
=============================================================================
