# A TLA+ model of sk8l-api

sk8l watches the cronjobs, jobs and pods of one Kubernetes namespace, keeps what
it hears in a Badger store, streams it to clients over gRPC and publishes it as
Prometheus metrics. It is one process with many goroutines: three collectors, one
recorder, one handler per client stream and three servers.

This directory models the parts in which the order of events matters, checks the
models with TLC on small instances and proves their safety properties for every
value of the constants with TLAPS.

## The system

| Part | Source | State | Operations | Interacts with |
|---|---|---|---|---|
| API client | `internal/k8s/k8s.go` | a connection | `Watch*`, `Get*`, `GetAllJobs` | the API server |
| Collectors | `sk8l.go:459-637` | a watch each | open, back off, receive, stop | client, store |
| Event handlers | `sk8l.go:639-850` | keys `sk8l_cronjobs`, `sk8l_jobs`, `jobs_pods_for_job_*` | one `DB.Update` per event | store |
| Read-through cache | `internal/store/store.go:116-151` | keys `sk8l_jobs_mapped`, `sk8l_cronjob_*`, TTL 15s | `GetAndStore` | client, streams |
| Pod lookup | `store.go:275-338` | none | `FindJobPodsForJob` | collector's key |
| Streams | `sk8l.go:105-261` | one goroutine per client | send, sleep 10s, send | all keys |
| Aggregation | `sk8l.go:367-457`, `852-1218` | none | pure functions over API objects | streams |
| Recorder | `metrics.go` | gauges, `summaryMap`, `metricsNamesMap` | dial, receive, set gauges, retry | a stream of its own process |
| Dashboard | `internal/dashboard/dashboards.go` | none | three passes over `metricsNamesMap` | recorder |
| Mappers | `internal/mapper/mappers.go` | none | API objects to the messages of `protos` | aggregation |
| YAML methods | `sk8l.go:263-317` | one goroutine per call | ask the API, answer | client |
| Lifecycle | `main.go`, `tls.go` | `errCh`, `quit`, the context | boot, start, signal, shutdown | everything |
| Logging, version | | none | | |

The collectors write, the streams read, and the recorder is a client of the
streams. They share the store and one context, which `shutdownServers` cancels.

What makes the behaviour hard:

* a watch ends at any time and the next one tells only what exists, not what is
  gone; a `DB.Update` may fail for one event; `/tmp/badger` outlives the container
  but not the pod;
* all readers of an expired key miss at the same time, call the API inside their
  transactions and conflict when they commit;
* pod versions pile up, and are ordered as strings;
* gauges are set one at a time while they are scraped, and their names collide;
* an answer combines cronjobs, jobs and pods that were stored at different times;
* a failed job has no completion time, one message repeats a failure in several
  places, and the list a job is taken from may be older than its end;
* the process shuts down while clients, and its own recorder, hold streams.

What makes each part correct:

* collectors: the stored list is the cluster's whenever the open watch is drained,
  up to what the code is known to lose; an item never goes back in time; the
  collector never stops by itself and always stops when it is told to;
* cache: no lookup is older than an earlier one, no hit older than its age limit;
* pods: one version per pod, the newest one;
* recorder: gauges are those of one response, registering never panics;
* streams: every job once under each owner, failure conditions that stay, durations
  that stop ticking, answers that come to show all that exists in a cluster that
  stands still;
* messages: the parts of a message agree with each other, and a duration stands still
  from the message on that shows the job's end;
* dashboard: it has every failure metric that exists, and its panels over all cronjobs
  ask for no other;
* lifecycle: no stream is cut by a graceful exit, and no one waits for ever once
  the clients leave.

`PROJECT.json` lists the hazards at their lines, each with the properties about it.

## Modules

```
ClusterWatch <- WatchLoop <- ListCollector <- ListCollectorProofs <- MirrorProofs
                          |                        (refines Mirror)
                          <- PodCollector <- PodCollectorProofs
ReadThrough  <- ReadThroughProofs
Lifecycle    <- LifecycleProofs
Metrics      <- Dashboard <- MetricsProofs         (of both)
JobStatus    <- Streams <- StreamsProofs
             <- Messages <- MessagesProofs         (agrees with JobStatus)
```

**ClusterWatch** (external) is the API server as the collectors see it: the
`live` objects of a kind by name and resourceVersion, one `watch` and its channel.
The `ListOptions` of `k8s.go` are empty, so a watch starts with an ADDED event for
each object, in any order. `EndWatch` loses the last events and may add an ERROR
event. `died` and `openRV` are history.

**WatchLoop** is the loop the three collectors share: `pc` is where the goroutine
is, and each action is a case of one of its `select` statements. `Crash` is any end
of the process; after `RestartProcess` main runs `Run()` again.

**ListCollector** adds what `collectCronjobs` and `collectJobs` do with an event.
`list[n]` has the versions of the items of name `n`, in list order: the handlers
filter and append by name alone, so the order among names is left out.
A `DB.Update` is one action, because each key has one writer. DB faults have an
action each: `LoseUpdate` (the error is logged), `ReadFaultCronJob` (nil item,
panic) and `ReadFaultJob` (the list is replaced). `tainted` is history: the names a
fault touched since the watch was opened.

**Mirror** is the abstract specification of what `FindCronjobs` and `FindJobs`
return: a copy of the cluster that may lag, lose everything at once, or keep what is
gone, and does nothing else. It has no watch, events, faults or keys. `ListCollector`
implements it (with `FindItems` for `list`). The watched lists of Streams do what Mirror
allows, but that a call sees no restart: an object that is gone may stay in them, and
the jobs' list may be lost.

**PodCollector** adds what `collectPods` does, and `FindJobPodsForJob` as operators.
`hist[n]` is every stored version of pod `n`. `ResourceVersion` makes the decimal
string of a version and `StringLeq` compares strings as Go does. Versions before
`StartTime` is set (`pending`) are not shown; creation stands for all of these.

**ReadThrough** is `GetAndStore` on one key, by any number of readers, with its
transaction split where others can come between: begin, hit or miss, API call, set,
commit or conflict. `commits` is Badger's timestamp: a transaction that wrote
commits only if the key was not committed since its snapshot. The clock runs while
the API call is under way; `MaxLag` bounds the time between the API's answer and
`NewEntry`. API reads are consistent (`GetOptions` and `ListOptions` are empty).

**Lifecycle** is `main`, the three servers, the collectors and the recorder as far as
they start and stop, and the handlers of streams and calls. `main` boots in the order of
the code: the TLS configuration, two listeners, the client and the store, each of which
may end the process (`log.Fatal`), then the servers, the goroutines and `signal.Notify`;
a signal that comes before that one kills. There may be no recorder (`grpc.NewClient`
fails), and one whose stream ends dials at once or waits. A YAML call waits for the
Kubernetes API ("calling"). `GracefulStop` waits until `handler[p]` is "none" for every
peer.

**Metrics** is the recorder between two `Recv` calls, one gauge at a time. A
response is any cronjobs, each once and in any order (the code sorts them by name, on
which nothing depends), with any of their jobs. A job comes under each of its `Owners`,
so that the entries of a response are pairs of a cronjob and a job; an entry is the set
of what the recorder reads of it. Entries of one job are made of one version of it and
differ at most in the pods that were found (`OneVersion`). Durations are kept as 0 or 1.
`gauges` is `summaryMap` and `registry` is Prometheus's: a key and a descriptor are
computed apart, as in the code. `SeenLists` bounds the lists of a run.

**Dashboard** composes Metrics with a request for a dashboard, which is three passes
over `metricsNamesMap` while the recorder goes on. A `Range` of a `sync.Map` is no
snapshot: a pass visits what was there when it began and any of what came since. The
rows are those of the one cronjob that the last pass visited first. They query its
duration metric by name, which nobody exports before that cronjob has had a job: the
property says when the metric is there.

**JobStatus** is the pure part of `sk8l.go`: failed or succeeded, where a duration
ends, which jobs a cronjob's answer has and in which order, last and current
duration. A job and a pod are reduced to what decides of these.

**Streams** is one call of a streaming method, from `FindCronjobs`/`FindCronjob` to
`Send` and the next pass. It reads three places that change under it at their own
pace: the watched cronjobs, the job list (cached up to `TTL + MaxLag`, or watched for
`GetJobs`) and the pods of each job, one key at a time in goroutines joined by
`wg.Wait`. The collectors and the cache appear by what they promise, which is little of
the watched lists: a version of a job may be stored late, what is gone may stay, and an
error of the store may leave one job of the list. Of the pods nothing is assumed:
`PodViews` takes any of those that the job has had, each in any state it has had
(`PodsDigits` shows why), and a container that ended may be started again in its pod
(`restartPolicy: OnFailure`). Each lookup can fail as the code treats it: the stream
ends, or (`GetCronjobPods`) the error is ignored, or a nil cronjob panics. `past` and
the states that a pod has had are kept for the stale reads; `shown` and `over` are
history. A job's name is used once.

**Messages** is the message of a job and its cronjob in full: `buildJobResponse`,
the mappers and the container helpers, applied to a job whose pods, containers,
debuggers and restarts move as Kubernetes moves them. The message is made of a stored
job that may be seconds behind its controller (`store.go:125`): the times in a job that
changes are any from its last one to the present (`Since`), so that a duration may have
run past the end when the end shows. A pointer is a sequence of one
or no value. The objects have the types of the API (`StoredJob`, `StoredPod`), the
messages those of `protos`. `Where` filters a sequence by the places of what it keeps;
it is `SelectSeq`, in a form the provers can expand. It is the detailed counterpart of
JobStatus, which it is compared with.

## Runs

| Run | Bounds | Shows |
|---|---|---|
| `JobsSafety` | 2 names, 4 writes, 1 DB fault, 1 restart | the list of jobs: invariant, no duplicates, current when drained, what may linger, never back; it implements Mirror |
| `CronjobsLiveness` | 2 names, 3 writes, 1 fault, 1 restart | the cronjob collector watches, stops, and repairs what a fault lost |
| `GhostCronjobs` | 2 names, 2 writes | violated: a cronjob deleted between two watches stays |
| `ReadThrough` | 3 readers, TTL 2, lag 1, 3 versions, 4 instants | lookups and entries never go back, hits are fresh |
| `PodsSafety` | 2 pods of a job, 4 writes, 1 fault, 2 watches, versions 18-21 | the version shown is current, and final when the pod is gone |
| `PodsDigits` | the same, versions 8-11 | violated: 10 sorts before 8 |
| `Shutdown` | 2 clients, streams and YAML calls, every way to fail at boot | a graceful exit is complete, and comes when the clients leave |
| `ShutdownStuck` | 1 client | violated: one client that stays keeps the process |
| `Metrics` | 3 cronjobs, 2 of them sharing metrics and one of the 2 jobs, 3 statuses, 2 responses, a dashboard at any time | totals and gauges are those of a response, no double registration; a dashboard has every failure metric, and queries registered ones |
| `StaleDurations` | the same, without dashboards | violated: a job that is gone keeps its duration |
| `Streams` | 4 methods and owners, 2 old jobs and a new one of up to 2 pods, TTL 1, lag 1, 1 fault, a cronjob that comes and goes | each job once, durations by age, failure conditions stay, ticking is bounded, answers catch up |
| `Messages` | 4 jobs (sidecar, init container, two containers, two pods), 1 restart, 1 debugger, 1 suspension, 2 instants | messages agree with JobStatus, explain each failure once, durations stand still once the end shows |

Why the bounds are enough to be interesting. Four writes let one name be created,
changed, deleted and created again while another exists; one fault and one restart fall
anywhere. Three readers let one hold a snapshot, a second commit and a third hit that
commit; four instants let an entry of TTL 2 expire and be replaced. Two watches let the
list hold every version twice. Two responses are what a gauge can mix; a third adds no
new pair of neighbours. Three jobs are the fewest for which `getLastDuration` takes the
last but one, and two of them are created in the same second; a TTL and a lag of 1 let
the list be reused, expire late and be replaced by another reader while pods and
cronjobs are older or newer. `MaxWork` is 0 in that run (a pass takes less than one unit
of the TTL); pods crash in one way, and their containers are started again in one of the
methods (`PodStates`): the proofs of Streams are for any values. Two instants put the
start of a job, or its end, at another time than what follows, and let an end show an
instant late (the proofs of Messages are for any number), and the cluster and the
process share one clock: durations are those of synchronized machines. `SeenStatuses`
names the statuses a job may have in a response: active, active with a failed pod, or
completed, which together move every sum and gauge. Symmetry is used for names and
readers in the safety runs only. Deadlock is not checked where the program really stops
(after a shutdown, or once the bounds on restarts are used up).

The four violated properties are findings: what README.md, a log line or a test says
differs from what the code does. `PROJECT.json` quotes the lines. `GhostCronjobs` and
`ShutdownStuck` are stated under fairness; the other two are invariants.

## Fairness

The program's own steps are fair, and two of the environment's. The API server ends
every watch some day (its request timeout, 5 to 10 minutes by default) and accepts a
watch that is asked for again and again (`SF` on `Open`: without it a namespace that
is never reachable is never mirrored). The
back-off's `select` chooses `ctx.Done()` at some point (`SF` on `StopInBackoff`):
when both cases are ready Go picks one at random, and the next `Watch*` call fails
at once with the canceled context, so the choice comes again. Writes, deletions,
faults, crashes and clients are never fair: `StopsWhenClientsLeave` has the leaving
clients as its premise. A handler's return is fair only when its client is gone, and
a YAML call's return only when its context is canceled: no answer of the API is
counted on.

In Streams the handler is weakly fair, and so is the hearing of what exists: a cronjob
in the cluster (`HearScheduled`) and the last version of a job (`HearLatest`) are stored
some day, also after they were lost (the next watch tells them again). No deletion need be
heard, and no pod found. Time is strongly
fair, because `Tick` is disabled while the handler may not take longer: between two
passes it sleeps for `refreshInterval`, so that time does pass. Nothing in the cluster
is fair: `AnswersCatchUp` holds for a cluster that stops changing at any point. Its one
premise is that cronjobs are some day no longer created and deleted; a cronjob that is
gone may stay in the answers, as may a job in those of `GetJobs`, and a stream that fails
has ended.

## Proofs

The theorems are proved from the named assumptions on the constants alone: names
are a finite non-empty set, bounds are natural numbers, `TTL` is positive. Three
theorems of PodCollector have a hypothesis of their own, `OneLength`. The runs check
each inductive invariant under the name the theorem has it by (`IInv`,
`RecorderInv`, `StreamsInv`); the type invariant is its first conjunct. The provers are
not told that a string literal is in `STRING`, so Messages states it of its own
(`TextsAssumption`, which TLC evaluates).

*ListCollector.* `IInv` relates three things: the cluster, the events on their way
and the list. The properties alone are not inductive: that a drained list is
current needs to be known while it is not drained. `LastEventInv` says that the last
event on its way about an object is what became of it, `SettledInv` that an object
without one has its place already, `OrderInv` that the list is behind the channel and
the channel is in order, and `FirstEventInv` that a deletion is not the first thing
heard while the key is missing, which is the one event the handlers would get wrong.
Each step is a lemma; the steps that take an event share one (`HandledInv`).
`NoDuplicates`, `CaughtUp`, `Lingering` and `StoreMonotonic` follow.

*ReadThrough.* Every open transaction is placed between what was returned before it
began (`floor`) and the store (`SnapshotInv`), and an answer of the API between its
snapshot and the cluster (`AnswerInv`). So a commit, which requires that the
snapshot is the store, cannot go back. `AgeInv` carries the age limit.

*Mirror.* `Implements` is the refinement: initial states map to initial states and
each action of ListCollector maps to one of Mirror's or to a stutter. A write is `Put`
or `Delete`; an event that is handled is `Hear` or `Forget`, for which `IInv` is
needed (the event is not older than the item, and a DELETED event's item is of a dead
object); a fault, a lost key or a restart is `Lose`.

*PodCollector.* A pod's name has one life, so that `Newest(n)` is its current version or
its last one. `LastEventInv` and `SettledInv` say that the newest version a watch knows
is stored or on its way, `VersionInv` that nothing stored or sent is ahead of it, and
`PendingInv` that a started pod never loses its `StartTime` in a later version. What
remains is a fact about numerals: that of two numbers with as many digits the greater
one is the greater string, which `StringLeq` compares digit by digit. `Numeral` is
recursive data, and the induction theorems of the library are of no use to the
provers; the proof takes the least number that is a counterexample instead
(`WFMin` of `<` on the naturals), and first that `Numeral`'s equation has a solution
at all. `ShowsNewestWithinDigits` assumes nothing: it is about the pods whose stored
versions have one length. `ShowsCurrent`, `KeepsGone` and `NewestWithinDigits` are the
properties of the runs under `OneLength`: every resourceVersion that the cluster gives
in the run has as many digits as the others, which is what the code relies on and
what the versions 18 to 21 of `PodsSafety` have. Without it the last one is false, as
`PodsDigits` shows.

*Lifecycle.* `StreamInv` (an open stream has a handler), `DrainInv` (no stream is
accepted after `GracefulStop` began), `ErrChInv` (a server still serving may send
one error) and `BootInv` (nothing serves before `startServers`) give `ExitDrained` and
`NoSenderBlocks` for any set of clients.

*Metrics.* `RegistryInv` and `NamesInv` give `NoPanic` for any names and any
collisions between them. That cronjobs share metrics when their names differ only in
separators is a fact of the code, which `OwnGaugesAreOfResponse` states: the counts
are those of the last such cronjob of a response.

The properties of what is shown need `RecorderInv`, which says at every step how much of
the response is recorded: `TodoInv` places `todo` in the response, `CountsInv` and
`SumsInv` say that the local counts are those of the jobs of the current cronjob and of
the finished ones, `TotalsInv` which of the four totals are of the response before, and
`GaugesInv` which gauges are set for good. The step from a cronjob to the next adds the
counts of its entries to those of the others: the two sets are disjoint because no
cronjob is twice in a response, and every entry of it is reached because it is of one of
its cronjobs. A job with two owners has two entries, and counts twice. Nothing is
assumed of `MetricName`: where cronjobs share their metrics `LastToSet` is kept from
step to step.

*Dashboard.* `PassInv` says that a pass has seen at least what those before it saw,
because the map only grows, and `RecordedInv` that the map is ahead of the registry by
at most the cronjob being recorded, whose completion gauge comes before its failure
gauge. With the invariant of Metrics they give `Covers` and `QueriesRegistered`, the
latter with `GaugesInv` for the duration metric of the rows. `ImplementsRecorder` shows
that a recorder beside requests still behaves as Metrics says, from which
`ScrapesBesideRequests` has the three properties of the gauges for that composition.

*Streams.* A job is `Doomed` in a list if it will not be seen there again without its
failure condition. `LastingInv` orders the sources: what the list that was read shows
for good, the cached list, which is not older, and the cluster have too, and so has every
list for what an answer `shown` has. Pods are in none of it: `ResponseInv` says of a
response only what it takes from the job, whatever pods were found. So a failure condition
that was shown is shown in every later answer (`FailureLasts`), while a failure that only a
pod shows is taken back when the pod's container is started again or the pod is not found.
`AgeInv` bounds how long ago a job ended that a list still shows unfinished, by the age of
that list (`Ticking`).

`AnswerInv` is about one pass: the lookups that have ended are each of one job that is
filed under its cronjob, and what is sent is made of all of them. That the answer is
then a list with each job once (`EveryJobOnce`) is a fact about sorted lists of a set;
that a job's place in it is its age (`DurationsByAge`) is one about the number of
elements before and after a place. The owners of a job are assumed to have different
names (`ScenariosAssumption`, and none of them empty, which the API server demands):
FindJobsMapped files a job twice under a name that two of its owners share, and so
would the answer.

*Messages.* That a message has its type depends on how the objects came to be. A
duration is a number of seconds that is not negative because what ends a job comes
after the start it is measured from, which `JobInv` says of the completion and of each
condition; a suspension, which takes the start back, comes before there is any. The
finish time of a pod is that of an end or of the pod's own start, and exists because no
container has a status before the pod has a start, and none that waits has ended
(`PodsInv`). Of a mapper there is a lemma for the type of what it returns, of each step
of the cluster one for what it keeps, and of `Where` and `FlattenSeq` those that say
which values a list has and in which order. The latter two need induction over the
length of a sequence, made with the least number that is a counterexample, as in
PodCollector.

`StandsStill` looks at a step. While the end does not show, the duration is measured up to
a clock that only advances; the step that shows it takes a time that is not after the
clock (`SinceIs`), and so may take the duration back but not lengthen it. From then on
the first failure condition never changes, since conditions are only appended, and the
tests of `toDuration` come out the same. `Explained`
places the statuses, the failed containers and the reasons of a kind at the same places
of the same list, and joins the kinds in the order of the calls. `Agreement` shows that
the functions of JobStatus compute from a few fields what those of Messages compute from
all: a container is failed in one as in the other because it does not wait and end at
once, the texts of the joined and flattened reasons are the union of those of the
containers, and a duration ends where the same tests say.

Only model-checked: everything temporal but `[]` (liveness under fairness and ENABLED
are beyond the prover) and the violations.

## Not modelled

Of the mappers, `MapObjectMeta`, `MapOwnerReferences` and
`MapUncountedTerminatedPods`: field by field copies that no other part reads. Of
copied fields in general, Messages keeps those by which two parts of a message can
disagree. Of the protos, the generated accessors, descriptors and stubs: only their
message types say something about sk8l (the type invariant of Messages). Of the YAML
methods, the text. Of the dashboard, the layout of panels. Of the TLS setup, the
configuration it returns. Logging and the version keep no state; the builders of
`testutil` are test data.

A watch that is closed as soon as it is opened makes a hot loop; the model of the
loop has no clock to see it. Two processes on one `/tmp/badger` are not modelled
beyond the failure to open it.

## Plan

1. *Worker*, an abstract goroutine that starts, runs and stops, implemented by
   WatchLoop and by the recorder of Lifecycle.
2. *Composition* of ReadThrough and Streams on one key, with the conflicts of other
   clients as the cause of the failures that Streams takes as given.
