------------------------------ MODULE Streams ------------------------------
(***************************************************************************)
(* One call of a streaming method of src/sk8l.go (GetCronjobs, GetCronjob, *)
(* GetCronjobPods or GetJobs) from a client's connection to its end: the   *)
(* loop that reads cronjobs, then jobs, then for each job its pods, and    *)
(* sends an answer made of the three.  They come from three places that    *)
(* change under the handler, each at its own pace:                         *)
(*                                                                         *)
(*   listed    the cronjobs the watch has stored (ListCollector)           *)
(*   list      the job list this method reads: the read-through entry of   *)
(*             FindJobsMapped, at most TTL + MaxLag old (ReadThrough), or  *)
(*             for GetJobs the list that the watch keeps (ListCollector)   *)
(*   the pods of a job, one key for each job (PodCollector)                *)
(*                                                                         *)
(* Those components appear here by what they promise, which is little of   *)
(* the watched ones: what they return may lag, may be lost and may be gone *)
(* from the cluster (Mirror), and a pod may be shown in any version it     *)
(* ever had (PodsDigits).  JobStatus says what becomes of the objects;     *)
(* this module says when they are read.                                    *)
(***************************************************************************)
EXTENDS JobStatus

CONSTANTS Jobs,
          Cronjobs,
          Requested,  \* the cronjob that GetCronjob and GetCronjobPods ask for
          Scenarios,  \* triples of a method, the owners of each job and the
                      \* cronjobs that come and go
          CreatedAt,  \* the second in which each job is (or was) created
          OldJobs,    \* jobs that completed before the call and stay in the history
          PodStates,  \* bound, for each method, on the states of pods that are looked at
          NoJob,
          TTL,        \* BadgerTTL
          MaxLag,     \* longest time from the API's answer to its storing
          MaxWork,    \* longest time from reading the jobs to the answer's Send
          MaxPods,    \* bound on the pods of a job (its backoffLimit + 1)
          MaxFaults   \* bound on failed lookups and lost lists

ASSUME BoundsAssumption ==
    /\ TTL \in Nat \ {0} /\ MaxLag \in Nat /\ MaxWork \in Nat
    /\ MaxPods \in Nat \ {0} /\ MaxFaults \in Nat

VARIABLES
    method,    \* the method called
    owners,    \* the names in the OwnerReferences of each job
    changing,  \* the cronjobs that come and go in this scenario
    scheduled, \* the cronjobs in the cluster
    jobs,      \* the jobs in the cluster
    past,      \* the versions that each job has had, in their order
    pods,      \* the states that each pod of a job has had, and its last one
    over,      \* ticks since a job ended or was deleted, up to OverCap
    listed, list,
    age,       \* ticks since the API answered with list, up to Fresh
    hpc,       \* where the handler is
    cronjobs,  \* the cronjobs it answers about
    mapped,    \* the jobs it read
    built,     \* the job responses made so far, by cronjob and job
    answer,    \* the answer that is about to be sent
    blind,     \* the jobs of the answer whose pods it failed to look up
    work,      \* ticks since it read the jobs
    shown,     \* jobs of which some answer showed that they failed (history)
    faults

call == <<method, owners, changing>>
cluster == <<scheduled, jobs, past, pods>>
stores == <<listed, list>>
clock == <<over, age, work>>
handler == <<hpc, cronjobs, mapped, built, answer, blind, shown>>

vars == <<call, cluster, stores, clock, handler, faults>>

-----------------------------------------------------------------------------
(* Objects.                                                                *)

Job == [created : Nat, started : BOOLEAN, active : {0, 1}, completed : BOOLEAN,
        conditions : {<<>>, <<"Complete">>, <<"FailureTarget", "Failed">>}]

Pod(phase, init, main) ==
    [phase |-> phase,
     statuses |-> [ephemeral |-> <<>>, init |-> init, main |-> <<main>>]]

Status(state, reason) == [state |-> state, reason |-> reason]

Misconfigured == Pod("Pending", <<>>, Status("waiting", "CreateContainerConfigError"))
InitCrashed == Pod("Failed", <<Status("terminated", "Error")>>, Status("waiting", "PodInitializing"))
Running == Pod("Running", <<>>, Status("running", ""))
Exited == Pod("Running", <<>>, Status("terminated", "Error"))
BackingOff == Pod("Running", <<>>, Status("waiting", "CrashLoopBackOff"))
Crashed == Pod("Failed", <<>>, Status("terminated", "Error"))
Killed == Pod("Failed", <<>>, Status("terminated", "OOMKilled"))
Done == Pod("Succeeded", <<>>, Status("terminated", "Completed"))

FailedPods == {InitCrashed, Crashed, Killed}

\* What a node makes of a pod once it has accepted it (FindJobPodsForJob leaves out
\* what has no StartTime).  A container that lacks its configuration starts once that
\* is there; one that exits with an error fails its pod (restartPolicy Never) or is
\* started again in it (OnFailure): either may be, the policy is not kept.
Accepted == {Misconfigured, InitCrashed, Running}

After(pod) ==
    CASE pod \in {Misconfigured, BackingOff} -> {Running}
      [] pod = Running -> {Exited, Crashed, Killed, Done}
      [] pod = Exited -> {BackingOff, Running}
      [] OTHER -> {}

Pods == {Misconfigured, Running, Exited, BackingOff, Done} \cup FailedPods

PodHistory == [last : Pods, seen : SUBSET Pods]

Methods == {"GetCronjobs", "GetCronjob", "GetCronjobPods", "GetJobs"}

ASSUME NamesAssumption ==
    /\ IsFiniteSet(Jobs)
    /\ Requested \in Cronjobs
    /\ OldJobs \subseteq Jobs
    /\ CreatedAt \in [Jobs -> Nat]
    /\ PodStates \in [Methods -> SUBSET Pods]
    /\ NoJob \notin Job

NewJob(j) ==
    [created |-> CreatedAt[j], started |-> FALSE, active |-> 0, completed |-> FALSE,
     conditions |-> <<>>]

OldJob(j) ==
    [created |-> CreatedAt[j], started |-> TRUE, active |-> 0, completed |-> TRUE,
     conditions |-> <<"Complete">>]

NoJobs == [j \in Jobs |-> NoJob]

NewPod(pod) == [last |-> pod, seen |-> {pod}]

Finished(job) == job.completed \/ FailureCondition(job)

Present(l) == {j \in DOMAIN l : l[j] # NoJob}

\* Either the job list is this old, or GetAndStore does not return it.
Fresh == TTL + MaxLag

OverCap == Fresh + MaxWork

\* The jobs of GetJobs are filed under no cronjob.
NoCronjob == ""

\* The API server accepts no owner without a name.  Owners of one job have different
\* names here: FindJobsMapped files a job twice under a name that two of them share.
ASSUME ScenariosAssumption ==
    \A scenario \in Scenarios :
        /\ scenario[1] \in Methods
        /\ scenario[3] \subseteq Cronjobs
        /\ scenario[2] \in [Jobs -> Seq(STRING \ {NoCronjob})]
        /\ \A j \in Jobs : \A i, k \in DOMAIN scenario[2][j] :
             scenario[2][j][i] = scenario[2][j][k] => i = k

Init ==
    /\ \E scenario \in Scenarios :
         method = scenario[1] /\ owners = scenario[2] /\ changing = scenario[3]
    /\ scheduled = Cronjobs
    /\ jobs = [j \in Jobs |-> IF j \in OldJobs THEN OldJob(j) ELSE NoJob]
    /\ past = [j \in Jobs |-> IF j \in OldJobs THEN <<OldJob(j)>> ELSE <<>>]
    /\ pods = [j \in Jobs |-> IF j \in OldJobs THEN <<NewPod(Done)>> ELSE <<>>]
    /\ over = [j \in Jobs |-> IF j \in OldJobs THEN OverCap ELSE 0]
    /\ listed = {}
    /\ list = NoJobs
    /\ age = Fresh
    /\ hpc = "start"
    /\ cronjobs = {}
    /\ mapped = NoJobs
    /\ built = {}
    /\ answer = <<>>
    /\ blind = {}
    /\ work = 0
    /\ shown = {}
    /\ faults = 0

-----------------------------------------------------------------------------
(* The cluster (external).                                                 *)

Fault == faults < MaxFaults /\ faults' = faults + 1

Last(s) == s[Len(s)]

ScheduleCronjob(c) ==
    /\ c \in changing \ scheduled
    /\ scheduled' = scheduled \cup {c}
    /\ UNCHANGED <<call, jobs, past, pods, stores, clock, handler, faults>>

DeleteCronjob(c) ==
    /\ c \in changing \cap scheduled
    /\ scheduled' = scheduled \ {c}
    /\ UNCHANGED <<call, jobs, past, pods, stores, clock, handler, faults>>

\* A job is written: there is another version of it.
Put(j, job) ==
    /\ jobs' = [jobs EXCEPT ![j] = job]
    /\ past' = [past EXCEPT ![j] = Append(@, job)]
    /\ UNCHANGED <<call, scheduled, stores, clock, handler, faults>>

\* A job's name is used once: it has the time of its schedule in it.
CreateJob(j) ==
    /\ past[j] = <<>>
    /\ Put(j, NewJob(j))
    /\ UNCHANGED pods

\* The job controller sees the job and creates its first pod.  A pod is there from
\* when its node accepts it.
StartJob(j) ==
    /\ jobs[j] # NoJob /\ ~jobs[j].started
    /\ Put(j, [jobs[j] EXCEPT !.started = TRUE, !.active = 1])
    /\ \E pod \in Accepted \cap PodStates[method] : pods' = [pods EXCEPT ![j] = <<NewPod(pod)>>]

StepPod(j) ==
    /\ jobs[j] # NoJob /\ pods[j] # <<>>
    /\ \E pod \in After(Last(pods[j]).last) \cap PodStates[method] :
         pods' = [pods EXCEPT ![j][Len(pods[j])] =
                     [last |-> pod, seen |-> Last(pods[j]).seen \cup {pod}]]
    /\ UNCHANGED <<call, scheduled, jobs, past, stores, clock, handler, faults>>

RetryPod(j) ==
    /\ jobs[j] # NoJob /\ ~Finished(jobs[j])
    /\ pods[j] # <<>> /\ Len(pods[j]) < MaxPods
    /\ Last(pods[j]).last \in FailedPods
    /\ \E pod \in Accepted \cap PodStates[method] : pods' = [pods EXCEPT ![j] = Append(@, NewPod(pod))]
    /\ UNCHANGED <<call, scheduled, jobs, past, stores, clock, handler, faults>>

CompleteJob(j) ==
    /\ jobs[j] # NoJob /\ ~Finished(jobs[j])
    /\ pods[j] # <<>> /\ Last(pods[j]).last = Done
    /\ Put(j, [jobs[j] EXCEPT !.completed = TRUE, !.active = 0, !.conditions = <<"Complete">>])
    /\ UNCHANGED pods

\* After too many failed pods, or restarts of the containers of one.
FailJob(j) ==
    /\ jobs[j] # NoJob /\ ~Finished(jobs[j])
    /\ Len(pods[j]) = MaxPods /\ Last(pods[j]).last \in FailedPods \cup {Exited, BackingOff}
    /\ Put(j, [jobs[j] EXCEPT !.active = 0, !.conditions = <<"FailureTarget", "Failed">>])
    /\ UNCHANGED pods

\* By a history limit, a TTL or a user.
DeleteJob(j) ==
    /\ jobs[j] # NoJob /\ j \notin OldJobs
    /\ jobs' = [jobs EXCEPT ![j] = NoJob]
    /\ UNCHANGED <<call, scheduled, past, pods, stores, clock, handler, faults>>

Cluster ==
    \/ \E c \in Cronjobs : ScheduleCronjob(c) \/ DeleteCronjob(c)
    \/ \E j \in Jobs :
         \/ CreateJob(j)
         \/ StartJob(j)
         \/ StepPod(j)
         \/ RetryPod(j)
         \/ CompleteJob(j)
         \/ FailJob(j)
         \/ DeleteJob(j)

-----------------------------------------------------------------------------
(* What the other goroutines of the process store, and time.               *)

Handling == hpc \in {"build", "send"}

\* collectCronjobs stores a list that has the cronjob, which may be gone since it was told.
HearCronjob(c) ==
    /\ method = "GetCronjobs"
    /\ c \notin listed
    /\ listed' = listed \cup {c}
    /\ UNCHANGED <<call, cluster, list, clock, handler, faults>>

\* collectCronjobs hears that it was deleted, if it does: it may as well stay.
ForgetCronjob(c) ==
    /\ method = "GetCronjobs"
    /\ c \in listed \ scheduled
    /\ listed' = listed \ {c}
    /\ UNCHANGED <<call, cluster, list, clock, handler, faults>>

\* The versions of j that may follow what a list of jobs has of it.
NotOlder(j) == {past[j][n] : n \in {n \in DOMAIN past[j] :
                    \A m \in DOMAIN past[j] : past[j][m] = list[j] => m <= n}}

\* collectJobs stores a version of a job, for GetJobs.
HearJob(j) ==
    /\ method = "GetJobs"
    /\ \E job \in NotOlder(j) : list' = [list EXCEPT ![j] = job]
    /\ UNCHANGED <<call, cluster, listed, clock, handler, faults>>

\* collectJobs hears that it was deleted, if it does.
ForgetJob(j) ==
    /\ method = "GetJobs"
    /\ jobs[j] = NoJob
    /\ list' = [list EXCEPT ![j] = NoJob]
    /\ UNCHANGED <<call, cluster, listed, clock, handler, faults>>

\* collectJobs cannot read its key: the job of an event, of any type, replaces the list.
LoseJobs ==
    /\ method = "GetJobs"
    /\ Fault
    /\ \E j \in Jobs : \E job \in NotOlder(j) : list' = [NoJobs EXCEPT ![j] = job]
    /\ UNCHANGED <<call, cluster, listed, clock, handler>>

\* Mutant: an older answer of the API is stored over a newer one.
RefreshJobsMutOlder ==
    /\ method # "GetJobs" /\ age >= TTL
    /\ list' = [j \in Jobs |-> IF past[j] = <<>> THEN NoJob ELSE past[j][1]]
    /\ age' = 0
    /\ UNCHANGED <<call, cluster, listed, over, work, handler, faults>>

\* Somebody else's FindJobsMapped replaces the entry, which has expired.
RefreshJobs ==
    /\ method # "GetJobs" /\ age >= TTL
    /\ list' = jobs
    /\ age' = 0
    /\ UNCHANGED <<call, cluster, listed, over, work, handler, faults>>

AtMost(n, cap) == IF n < cap THEN n ELSE cap

Over(j) == past[j] # <<>> /\ (jobs[j] = NoJob \/ Finished(jobs[j]))

\* Time matters to those who read the cached list.
Tick ==
    /\ method # "GetJobs"
    /\ Handling => work < MaxWork
    /\ work' = IF Handling THEN work + 1 ELSE work
    /\ age' = AtMost(age + 1, Fresh)
    /\ over' = [j \in Jobs |-> IF Over(j) THEN AtMost(over[j] + 1, OverCap) ELSE 0]
    /\ UNCHANGED <<call, cluster, stores, handler, faults>>

-----------------------------------------------------------------------------
(* The handler.                                                            *)

\* return err
EndStream ==
    /\ hpc' = "ended"
    /\ cronjobs' = {}
    /\ mapped' = NoJobs
    /\ built' = {}
    /\ answer' = <<>>
    /\ blind' = {}
    /\ work' = 0
    /\ UNCHANGED shown

\* FindCronjobs: what the watch has stored, nothing before that.
FindCronjobs ==
    /\ hpc = "start" /\ method = "GetCronjobs"
    /\ hpc' = "jobs"
    /\ cronjobs' = listed
    /\ UNCHANGED <<call, cluster, stores, clock, mapped, built, answer, blind, shown, faults>>

\* FindCronjob: from the API server, or from the entry of an earlier lookup, which the
\* cronjob may be gone since.
FindCronjob ==
    /\ hpc = "start" /\ method \in {"GetCronjob", "GetCronjobPods"}
    /\ hpc' = "jobs"
    /\ cronjobs' = {Requested}
    /\ UNCHANGED <<call, cluster, stores, clock, mapped, built, answer, blind, shown, faults>>

\* The store, the API server (also when it has no such cronjob) or a transaction
\* conflict.
FindCronjobsFails ==
    /\ hpc = "start" /\ method \in {"GetCronjobs", "GetCronjob"}
    /\ Fault
    /\ EndStream
    /\ UNCHANGED <<call, cluster, stores, over, age>>

\* GetCronjobPods logs the error and goes on to cronjob.Name, with a nil cronjob:
\* the panic of one handler ends the process.
FindCronjobPanics ==
    /\ hpc = "start" /\ method = "GetCronjobPods"
    /\ Fault
    /\ hpc' = "down"
    /\ UNCHANGED <<call, cluster, stores, clock, cronjobs, mapped, built, answer, blind, shown>>

\* FindJobs: what the watch has stored.
FindJobs ==
    /\ hpc = "start" /\ method = "GetJobs"
    /\ hpc' = "build"
    /\ cronjobs' = {NoCronjob}
    /\ mapped' = list
    /\ work' = 0
    /\ UNCHANGED <<call, cluster, stores, over, age, built, answer, blind, shown, faults>>

\* Mutant: an entry counts for as long as it is there.
FindJobsMappedHitMutForever ==
    /\ hpc = "jobs"
    /\ hpc' = "build"
    /\ mapped' = list
    /\ work' = 0
    /\ UNCHANGED <<call, cluster, stores, over, age, cronjobs, built, answer, blind, shown, faults>>

\* FindJobsMapped finds an entry that has not expired.
FindJobsMappedHit ==
    /\ hpc = "jobs"
    /\ age < Fresh
    /\ hpc' = "build"
    /\ mapped' = list
    /\ work' = 0
    /\ UNCHANGED <<call, cluster, stores, over, age, cronjobs, built, answer, blind, shown, faults>>

\* FindJobsMapped asks the API server and stores what it answers.
FindJobsMappedMiss ==
    /\ hpc = "jobs"
    /\ age >= TTL
    /\ hpc' = "build"
    /\ list' = jobs
    /\ mapped' = jobs
    /\ age' = 0
    /\ work' = 0
    /\ UNCHANGED <<call, cluster, listed, over, cronjobs, built, answer, blind, shown, faults>>

FindJobsFails ==
    /\ \/ hpc = "start" /\ method = "GetJobs"
       \/ hpc = "jobs" /\ method # "GetCronjobPods"
    /\ Fault
    /\ EndStream
    /\ UNCHANGED <<call, cluster, stores, over, age>>

\* GetCronjobPods logs the error and goes on with a nil map.
FindJobsMappedIgnored ==
    /\ hpc = "jobs" /\ method = "GetCronjobPods"
    /\ Fault
    /\ hpc' = "build"
    /\ mapped' = NoJobs
    /\ work' = 0
    /\ UNCHANGED <<call, cluster, stores, over, age, cronjobs, built, answer, blind, shown>>

\* The jobs that the handler files under a cronjob; GetJobs takes those whose
\* OwnerReferences is nil.
JobsOf(c) ==
    IF method = "GetJobs" THEN {j \in Present(mapped) : owners[j] = <<>>}
    ELSE JobsForCronjob(Present(mapped), owners, c)

IsBuilt(c, j) == \E b \in built : b.cronjob = c /\ b.response.name = j

Build(c, j, found) ==
    built' = built \cup {[cronjob |-> c, response |-> BuildJobResponse(j, mapped[j], found)]}

\* What FindJobPodsForJob may find: some of the pods that the job has had, or none,
\* each in a version that it has had.  (Their order decides nothing: the oldest first.)
PodViews(j) ==
    {found \in UNION {[1..n -> PodStates[method]] : n \in 0..Len(pods[j])} :
        \E pod \in [DOMAIN found -> DOMAIN pods[j]] :
            /\ \A i, k \in DOMAIN found : i < k => pod[i] < pod[k]
            /\ \A i \in DOMAIN found : found[i] \in pods[j][pod[i]].seen}

\* One goroutine for each cronjob and, in it, one for each of its jobs, in any
\* order; GetJobs builds in the order of its list, which may be any.
BuildJob(c, j) ==
    /\ hpc = "build"
    /\ c \in cronjobs /\ j \in JobsOf(c) /\ ~IsBuilt(c, j)
    /\ \E found \in PodViews(j) : Build(c, j, found)
    /\ UNCHANGED <<call, cluster, stores, clock, hpc, cronjobs, mapped, answer, blind, shown, faults>>

\* FindJobPodsForJob fails: the job is shown without its pods.
BuildJobBlind(c, j) ==
    /\ hpc = "build"
    /\ c \in cronjobs /\ j \in JobsOf(c) /\ ~IsBuilt(c, j)
    /\ Fault
    /\ Build(c, j, <<>>)
    /\ blind' = blind \cup {j}
    /\ UNCHANGED <<call, cluster, stores, clock, hpc, cronjobs, mapped, answer, shown>>

Responses(c) == {b.response : b \in {b \in built : b.cronjob = c}}

\* jobs of GetJobs are sent as they are.
Answers(R) ==
    IF method = "GetJobs"
    THEN {[jobs |-> all, failed |-> FALSE, last |-> NoDuration, current |-> NoDuration] :
            all \in Arrangements(R)}
    ELSE CronJobResponses(R)

\* Mutant: nobody waits for the goroutines.
JoinMutNoWait ==
    /\ hpc = "build"
    /\ hpc' = "send"
    /\ answer' \in {a \in [cronjobs -> UNION {Answers(Responses(c)) : c \in cronjobs}] :
                      \A c \in cronjobs : a[c] \in Answers(Responses(c))}
    /\ built' = {}
    /\ UNCHANGED <<call, cluster, stores, clock, cronjobs, mapped, blind, shown, faults>>

\* wg.Wait returns: every job of every cronjob is built.
Join ==
    /\ hpc = "build"
    /\ \A c \in cronjobs : \A j \in JobsOf(c) : IsBuilt(c, j)
    /\ hpc' = "send"
    /\ answer' \in {a \in [cronjobs -> UNION {Answers(Responses(c)) : c \in cronjobs}] :
                      \A c \in cronjobs : a[c] \in Answers(Responses(c))}
    /\ built' = {}
    /\ UNCHANGED <<call, cluster, stores, clock, cronjobs, mapped, blind, shown, faults>>

ResponsesOf(c) == {answer[c].jobs[i] : i \in DOMAIN answer[c].jobs}

NewlyShown ==
    {j \in Jobs : \E c \in cronjobs : \E r \in ResponsesOf(c) : r.name = j /\ r.condition}

\* Mutant: the slice of answers is made outside of the loop.
SendMutKeepsAnswer ==
    /\ hpc = "send"
    /\ hpc' = "start"
    /\ shown' = shown \cup NewlyShown
    /\ cronjobs' = {}
    /\ mapped' = NoJobs
    /\ blind' = {}
    /\ work' = 0
    /\ UNCHANGED <<call, cluster, stores, over, age, built, answer, faults>>

\* time.Sleep(refreshInterval) follows: how long the handler stays at its start.
Send ==
    /\ hpc = "send"
    /\ hpc' = "start"
    /\ shown' = shown \cup NewlyShown
    /\ cronjobs' = {}
    /\ mapped' = NoJobs
    /\ answer' = <<>>
    /\ blind' = {}
    /\ work' = 0
    /\ UNCHANGED <<call, cluster, stores, over, age, built, faults>>

\* The client is gone: Send fails, or the stream's context is done.
SendFails ==
    /\ hpc = "send"
    /\ Fault
    /\ EndStream
    /\ UNCHANGED <<call, cluster, stores, over, age>>

Handler ==
    \/ FindCronjobs
    \/ FindCronjob
    \/ FindJobs
    \/ FindJobsMappedHit
    \/ FindJobsMappedMiss
    \/ \E c \in cronjobs, j \in Jobs : BuildJob(c, j)
    \/ Join
    \/ Send

Failure ==
    \/ FindCronjobsFails
    \/ FindCronjobPanics
    \/ FindJobsFails
    \/ FindJobsMappedIgnored
    \/ \E c \in cronjobs, j \in Jobs : BuildJobBlind(c, j)
    \/ SendFails

Stores ==
    \/ \E c \in Cronjobs : HearCronjob(c) \/ ForgetCronjob(c)
    \/ \E j \in Jobs : HearJob(j) \/ ForgetJob(j)
    \/ LoseJobs
    \/ RefreshJobs

Next ==
    \/ Cluster
    \/ Stores
    \/ Tick
    \/ Handler
    \/ Failure

Spec == Init /\ [][Next]_vars

\* What exists comes to be heard: a cronjob, and the last version of a job.
HearScheduled(c) == HearCronjob(c) /\ c \in scheduled
HearLatest(j) == HearJob(j) /\ jobs[j] # NoJob /\ list'[j] = jobs[j]

\* The goroutines are scheduled and the watches tell what exists, again if it was lost;
\* time passes, at the latest while the handler sleeps (SF, as Tick waits for a handler
\* that has read its jobs).  No step of the cluster is fair, no failure, and no deletion
\* need be heard.
Fairness ==
    /\ WF_vars(Handler)
    /\ WF_vars(\E c \in Cronjobs : HearScheduled(c))
    /\ WF_vars(\E j \in Jobs : HearLatest(j))
    /\ SF_vars(Tick)

LiveSpec == Spec /\ Fairness

-----------------------------------------------------------------------------

TypeOK ==
    /\ method \in Methods
    /\ owners \in [Jobs -> Seq(STRING \ {NoCronjob})]
    /\ changing \subseteq Cronjobs
    /\ scheduled \subseteq Cronjobs
    /\ jobs \in [Jobs -> Job \cup {NoJob}]
    /\ past \in [Jobs -> Seq(Job)]
    /\ pods \in [Jobs -> Seq(PodHistory)]
    /\ over \in [Jobs -> 0..OverCap]
    /\ listed \subseteq Cronjobs
    /\ list \in [Jobs -> Job \cup {NoJob}]
    /\ age \in 0..Fresh
    /\ hpc \in {"start", "jobs", "build", "send", "ended", "down"}
    /\ cronjobs \subseteq Cronjobs \cup {NoCronjob}
    /\ mapped \in [Jobs -> Job \cup {NoJob}]
    /\ \A b \in built : b.cronjob \in cronjobs /\ b.response.name \in Jobs
    /\ DOMAIN answer \subseteq cronjobs
    /\ blind \subseteq Jobs
    /\ work \in 0..MaxWork
    /\ shown \subseteq Jobs
    /\ faults \in 0..MaxFaults

-----------------------------------------------------------------------------
(* How the cluster, the stores and an answer keep step: the inductive      *)
(* invariant.                                                              *)

ClusterInv ==
    \A j \in Jobs :
        /\ jobs[j] # NoJob => past[j] # <<>> /\ Last(past[j]) = jobs[j]
        /\ ~Over(j) => over[j] = 0

\* A job that a list shows unfinished was so when the list was read.
AgeInv ==
    method # "GetJobs" => \A j \in Jobs :
        /\ age < Fresh /\ list[j] # NoJob /\ ~Finished(list[j]) => over[j] <= age
        /\ Handling /\ mapped[j] # NoJob /\ ~Finished(mapped[j]) => over[j] < Fresh + work

Failing(l, j) == l[j] # NoJob /\ FailureCondition(l[j])

\* The job will not be seen again without its condition.
Doomed(l, j) == l[j] = NoJob \/ FailureCondition(l[j])

\* What the list that was read shows for good, so do the cached one, which is not
\* older, and the cluster.
LastingInv ==
    method # "GetJobs" => \A j \in Jobs :
        /\ Failing(list, j) => past[j] # <<>> /\ Doomed(jobs, j)
        /\ Failing(mapped, j) => past[j] # <<>> /\ Doomed(jobs, j) /\ Doomed(list, j)
        /\ j \in shown =>
             past[j] # <<>> /\ Doomed(jobs, j) /\ Doomed(list, j) /\ Doomed(mapped, j)

\* What the response of a job takes from the job, whatever pods were found.
IsMade(r) ==
    /\ r.name \in Jobs
    /\ mapped[r.name] # NoJob
    /\ r.condition = FailureCondition(mapped[r.name])
    /\ r.condition => r.failed
    /\ r.duration = "now" => ~Finished(mapped[r.name])

ResponseInv ==
    /\ hpc # "build" => built = {}
    /\ hpc # "send" => answer = <<>>
    /\ \A b \in built : IsMade(b.response)
    /\ hpc = "send" => \A c \in cronjobs : \A r \in ResponsesOf(c) : IsMade(r)

\* The responses R are of jobs that are filed under a cronjob, one of each.
OneOfEach(R, c) ==
    /\ \A r \in R : r.name \in JobsOf(c) /\ r.created = mapped[r.name].created
    /\ \A r, s \in R : r.name = s.name => r = s

\* What an answer is made of, whatever goroutine ends first.
AnswerInv ==
    /\ method = "GetJobs" => cronjobs \subseteq {NoCronjob}
    /\ \A c \in cronjobs :
         /\ OneOfEach(Responses(c), c)
         /\ hpc = "send" =>
              /\ OneOfEach(ResponsesOf(c), c)
              /\ JobsOf(c) \subseteq {r.name : r \in ResponsesOf(c)}
              /\ answer[c] \in Answers(ResponsesOf(c))

IInv == TypeOK /\ ClusterInv /\ AgeInv /\ LastingInv /\ ResponseInv

StreamsInv == IInv /\ AnswerInv

-----------------------------------------------------------------------------
(* Properties.                                                             *)

\* An answer shows each job of the list it was made from exactly once under each
\* of its owners it answers about, and no other job there, in whatever order the
\* goroutines ended.  (allAndRunningJobsAnPods, jobsForCronjob, the filter of
\* GetJobs)
AnswerHasEveryJobOnce ==
    hpc = "send" => \A c \in cronjobs, j \in Jobs :
        Cardinality({i \in DOMAIN answer[c].jobs : answer[c].jobs[i].name = j})
            = IF /\ mapped[j] # NoJob
                 /\ \/ \E i \in DOMAIN owners[j] : owners[j][i] = c
                    \/ method = "GetJobs" /\ owners[j] = <<>>
              THEN 1 ELSE 0

\* d is the duration of the n-th newest of the responses R; those of jobs that were
\* created in the same second may take each other's places.
Later(r, R) == {o \in R : o.created > r.created}
NotBefore(r, R) == {o \in R : o.created >= r.created}
IsNth(d, n, R) ==
    \E r \in R : /\ d = Duration(r)
                 /\ Cardinality(Later(r, R)) < n /\ n <= Cardinality(NotBefore(r, R))

\* The last duration of a cronjob is its newest job's, or of more than two jobs
\* that of a job which one other is newer than; the current one is that of its
\* newest active job.  Jobs of one second count as either.  (getLastDuration,
\* getCurrentDuration)
DurationsAreByAge ==
    hpc = "send" /\ method # "GetJobs" => \A c \in cronjobs :
        LET all == ResponsesOf(c)
            active == {r \in all : r.active > 0}
        IN  /\ all # {} =>
                 IsNth(answer[c].last, IF Cardinality(all) > 2 THEN 2 ELSE 1, all)
            /\ active # {} => IsNth(answer[c].current, 1, active)

\* Once a client was shown a job with its failure condition, every later answer that
\* has the job shows it failed and its duration over, whoever replaces the cached list
\* in between.  Only the condition lasts: what a pod's failure shows is taken back when
\* the pod's container is started again, or the pod is not found.  (GetAndStore,
\* jobFailed and toDuration; nothing keeps the watched list of GetJobs from being
\* replaced.)
FailureIsFinal ==
    hpc = "send" /\ method # "GetJobs" =>
        \A c \in cronjobs : \A r \in ResponsesOf(c) :
            r.name \in shown => r.failed /\ r.duration # "now"

\* A job whose duration an answer measures up to now ended, or was deleted, less
\* than the age of a cached list ago, plus the time the answer took.  (toDuration
\* on a job of FindJobsMapped; nothing bounds the watch that GetJobs reads.)
TickingIsBounded ==
    hpc = "send" /\ method # "GetJobs" =>
        \A c \in cronjobs : \A r \in ResponsesOf(c) :
            r.duration = "now" => over[r.name] < OverCap

Filed(c) ==
    {j \in Present(jobs) :
        \/ \E i \in DOMAIN owners[j] : owners[j][i] = c
        \/ method = "GetJobs" /\ owners[j] = <<>>}

\* What a response takes from the job alone.
OfJob(r) ==
    [name |-> r.name, created |-> r.created, active |-> r.active, succeeded |-> r.succeeded,
     condition |-> r.condition, duration |-> r.duration]

AnswerIsCurrent ==
    /\ CASE method = "GetCronjobs" -> scheduled \subseteq cronjobs
         [] method = "GetJobs" -> cronjobs = {NoCronjob}
         [] OTHER -> cronjobs = {Requested}
    /\ \A c \in cronjobs :
         LET told == {OfJob(r) : r \in ResponsesOf(c)}
             true == {OfJob(BuildJobResponse(j, jobs[j], <<>>)) : j \in Filed(c)}
         IN  /\ true \subseteq told
             /\ method # "GetJobs" => told \subseteq true

\* A stream that does not end sends answers for ever, and once cronjobs are no longer
\* created and deleted they come to show every one that exists, and every job as it is
\* but for its pods.  A cronjob that is gone may stay in them, and in GetJobs a job that is
\* gone; the jobs of the other methods are exactly those that exist.
AnswersCatchUp ==
    <>[][FALSE]_scheduled =>
    \/ <>[](hpc \in {"ended", "down"})
    \/ /\ []<>(hpc = "send")
       /\ <>[](hpc = "send" => AnswerIsCurrent)
=============================================================================
