---------------------------- MODULE StreamsProofs ----------------------------
(***************************************************************************)
(* Theorems of Streams: its types; that an answer has each job once and    *)
(* durations by age; and that a failure condition, and the end of a job,   *)
(* once shown stay so in the later answers of the stream.  For any jobs,   *)
(* owners, states of pods and bounds, and whatever pods are found.         *)
(***************************************************************************)
EXTENDS Streams, TLAPS, FiniteSetTheorems

-----------------------------------------------------------------------------
(* Lemmas of objects.                                                      *)

LEMMA AfterArePods ==
    ASSUME NEW pod
    PROVE  After(pod) \subseteq Pods
BY DEF After, Pods, FailedPods

LEMMA AcceptedArePods == Accepted \subseteq Pods
BY DEF Accepted, Pods, FailedPods

LEMMA NewPodType ==
    ASSUME NEW pod \in Pods
    PROVE  NewPod(pod) \in PodHistory
BY DEF NewPod, PodHistory

\* What a response takes from its job, whatever pods it is made from.
LEMMA ResponseOfJob ==
    ASSUME NEW name, NEW job, NEW found
    PROVE  LET r == BuildJobResponse(name, job, found) IN
           /\ r.name = name
           /\ r.condition = FailureCondition(job)
           /\ r.condition => r.failed
           /\ r.duration = "now" => ~Finished(job)
<1> DEFINE r == BuildJobResponse(name, job, found)
           responses == BuildJobPodsResponses(found)
<1>1. /\ r.name = name
      /\ r.condition = FailureCondition(job)
      /\ r.failed = JobFailed(job, responses)
      /\ r.duration = ToDuration(job, r.failed)
  BY DEF BuildJobResponse
<1>2. FailureCondition(job) => r.failed
  BY <1>1 DEF JobFailed
<1>3. r.duration = "now" => ~Finished(job)
  BY <1>1, <1>2 DEF ToDuration, Finished, NoTime
<1> QED
  BY <1>1, <1>2, <1>3

-----------------------------------------------------------------------------
(* The inductive invariant: one lemma for each group of actions.           *)

LEMMA InitInv == Init => IInv
<1> SUFFICES ASSUME Init PROVE IInv
  OBVIOUS
<1> USE BoundsAssumption, NamesAssumption
<1>1. PICK scenario \in Scenarios :
        method = scenario[1] /\ owners = scenario[2] /\ changing = scenario[3]
  BY DEF Init
<1>2. /\ method \in Methods /\ owners \in [Jobs -> Seq(STRING \ {NoCronjob})]
      /\ changing \subseteq Cronjobs
  BY <1>1, ScenariosAssumption
<1>3. /\ Fresh \in Nat /\ OverCap \in Nat
      /\ NewPod(Done) \in PodHistory
  BY NewPodType DEF Fresh, OverCap, Pods
<1>4. \A j \in Jobs : OldJob(j) \in Job /\ Finished(OldJob(j))
  BY DEF OldJob, Job, Finished
<1>5. TypeOK
  <2>1. past \in [Jobs -> Seq(Job)] /\ jobs \in [Jobs -> Job \cup {NoJob}]
    BY <1>4 DEF Init
  <2>2. pods \in [Jobs -> Seq(PodHistory)]
    BY <1>3 DEF Init
  <2>3. list \in [Jobs -> Job \cup {NoJob}] /\ mapped \in [Jobs -> Job \cup {NoJob}]
    BY DEF Init, NoJobs
  <2>4. over \in [Jobs -> 0..OverCap] /\ age \in 0..Fresh /\ work \in 0..MaxWork
    BY <1>3 DEF Init
  <2> QED
    BY <1>2, <2>1, <2>2, <2>3, <2>4 DEF Init, TypeOK
<1>6. ClusterInv
  BY <1>4 DEF Init, ClusterInv, Over, Last
<1>7. AgeInv
  BY <1>3 DEF Init, AgeInv, Handling
<1>8. LastingInv
  BY DEF Init, LastingInv, Failing, NoJobs
<1>9. ResponseInv
  BY DEF Init, ResponseInv
<1> QED
  BY <1>5, <1>6, <1>7, <1>8, <1>9 DEF IInv

\* A step of the cluster keeps the invariant when no job that is doomed to be seen
\* with its condition is seen without it after the step.
LEMMA ClusterStep ==
    ASSUME IInv,
           UNCHANGED <<call, stores, clock, handler, faults>>,
           scheduled' \subseteq Cronjobs,
           jobs' \in [Jobs -> Job \cup {NoJob}],
           past' \in [Jobs -> Seq(Job)],
           pods' \in [Jobs -> Seq(PodHistory)],
           \A j \in Jobs : past[j] # <<>> => past'[j] # <<>>,
           ClusterInv',
           \A j \in Jobs : past[j] # <<>> /\ Doomed(jobs, j) => Doomed(jobs', j)
    PROVE  IInv'
<1> USE DEF IInv, call, stores, clock, handler
<1>1. TypeOK'
  BY DEF TypeOK
<1>2. AgeInv'
  BY DEF AgeInv, Handling
<1>3. LastingInv'
  BY DEF LastingInv, Failing, Doomed
<1>4. ResponseInv'
  BY DEF ResponseInv, IsMade, ResponsesOf
<1> QED
  BY <1>1, <1>2, <1>3, <1>4

LEMMA ScheduleCronjobInv ==
    ASSUME IInv, NEW c \in Cronjobs, ScheduleCronjob(c) \/ DeleteCronjob(c)
    PROVE  IInv'
<1> USE DEF ScheduleCronjob, DeleteCronjob, IInv
<1>1. ClusterInv'
  BY DEF ClusterInv, Over, clock
<1> QED
  BY <1>1, ClusterStep DEF TypeOK, Doomed

\* A job is written that is no nearer to its end than it was, or was not at its end.
LEMMA PutInv ==
    ASSUME IInv, NEW j \in Jobs, NEW job \in Job, Put(j, job),
           pods' \in [Jobs -> Seq(PodHistory)],
           past[j] = <<>> \/ jobs[j] # NoJob,
           jobs[j] # NoJob => ~FailureCondition(jobs[j]) \/ FailureCondition(job),
           Finished(job) \/ over[j] = 0
    PROVE  IInv'
<1> USE DEF Put, IInv
<1>1. past[j] \in Seq(Job) /\ Append(past[j], job) \in Seq(Job)
  BY DEF TypeOK
<1>2. Append(past[j], job) # <<>> /\ Last(Append(past[j], job)) = job
  BY <1>1 DEF Last
<1>3. jobs' \in [Jobs -> Job \cup {NoJob}] /\ past' \in [Jobs -> Seq(Job)]
  BY <1>1 DEF TypeOK
<1>4. ClusterInv'
  <2> SUFFICES ASSUME NEW k \in Jobs
               PROVE  /\ jobs'[k] # NoJob => past'[k] # <<>> /\ Last(past'[k]) = jobs'[k]
                      /\ ~Over(k)' => over'[k] = 0
    BY DEF ClusterInv
  <2>1. CASE k # j
    BY <2>1 DEF TypeOK, ClusterInv, Over, clock
  <2>2. CASE k = j
    <3>1. jobs'[k] = job /\ past'[k] = Append(past[k], job) /\ over'[k] = over[k]
      BY <2>2 DEF TypeOK, clock
    <3> QED
      BY <1>2, <2>2, <3>1 DEF Over
  <2> QED
    BY <2>1, <2>2
<1>5. \A k \in Jobs : past[k] # <<>> => past'[k] # <<>>
  BY <1>2 DEF TypeOK
<1>6. \A k \in Jobs : past[k] # <<>> /\ Doomed(jobs, k) => Doomed(jobs', k)
  BY DEF TypeOK, Doomed
<1> QED
  BY <1>3, <1>4, <1>5, <1>6, ClusterStep DEF TypeOK

LEMMA CreateJobInv == ASSUME IInv, NEW j \in Jobs, CreateJob(j) PROVE IInv'
<1> USE DEF CreateJob, IInv
<1>1. NewJob(j) \in Job
  BY NamesAssumption DEF NewJob, Job
<1>2. jobs[j] = NoJob /\ over[j] = 0
  BY DEF ClusterInv, Over
<1> QED
  BY <1>1, <1>2, PutInv DEF TypeOK

LEMMA StartJobInv == ASSUME IInv, NEW j \in Jobs, StartJob(j) PROVE IInv'
<1> USE DEF StartJob, IInv
<1> DEFINE job == jobs[j]
           started == [job EXCEPT !.started = TRUE, !.active = 1]
<1>1. jobs[j] \in Job /\ jobs[j] # NoJob
  BY DEF TypeOK
<1>2. started \in Job
  BY <1>1 DEF Job
<1>3. started.conditions = job.conditions /\ started.completed = job.completed
  BY <1>1 DEF Job
<1>4. FailureCondition(started) = FailureCondition(job)
  BY <1>3 DEF FailureCondition
<1>5. Finished(started) = Finished(job)
  BY <1>3, <1>4 DEF Finished
<1>6. Put(j, started)
  OBVIOUS
<1> HIDE DEF started
<1>7. PICK pod \in Pods : pods' = [pods EXCEPT ![j] = <<NewPod(pod)>>]
  BY AcceptedArePods
<1>8. pods' \in [Jobs -> Seq(PodHistory)]
  BY <1>7, NewPodType DEF TypeOK
<1>9. Finished(started) \/ over[j] = 0
  BY <1>1, <1>5 DEF ClusterInv, Over
<1> QED
  BY <1>1, <1>2, <1>4, <1>6, <1>8, <1>9, PutInv

LEMMA StepPodInv == ASSUME IInv, NEW j \in Jobs, StepPod(j) PROVE IInv'
<1> USE DEF StepPod, IInv
<1> DEFINE n == Len(pods[j])
<1>1. /\ pods[j] \in Seq(PodHistory) /\ pods[j] # <<>>
      /\ n \in DOMAIN pods[j] /\ pods[j][n] \in PodHistory
  BY DEF TypeOK
<1>2. PICK pod \in After(pods[j][n].last) :
        pods' = [pods EXCEPT ![j] = [pods[j] EXCEPT ![n] =
                    [last |-> pod, seen |-> pods[j][n].seen \cup {pod}]]]
  BY DEF Last
<1>3. [last |-> pod, seen |-> pods[j][n].seen \cup {pod}] \in PodHistory
  BY <1>1, <1>2, AfterArePods DEF PodHistory
<1>4. PICK history \in PodHistory :
        pods' = [pods EXCEPT ![j] = [pods[j] EXCEPT ![n] = history]]
  BY <1>2, <1>3
<1>5. [pods[j] EXCEPT ![n] = history] \in Seq(PodHistory)
  BY <1>1
<1>6. pods' \in [Jobs -> Seq(PodHistory)]
  BY <1>4, <1>5 DEF TypeOK
<1>7. ClusterInv'
  BY DEF ClusterInv, Over, clock
<1> QED
  BY <1>6, <1>7, ClusterStep DEF TypeOK, Doomed

LEMMA RetryPodInv == ASSUME IInv, NEW j \in Jobs, RetryPod(j) PROVE IInv'
<1> USE DEF RetryPod, IInv
<1>1. PICK pod \in Pods : pods' = [pods EXCEPT ![j] = Append(pods[j], NewPod(pod))]
  BY AcceptedArePods
<1>2. pods[j] \in Seq(PodHistory) /\ NewPod(pod) \in PodHistory
  BY NewPodType DEF TypeOK
<1>3. pods' \in [Jobs -> Seq(PodHistory)]
  BY <1>1, <1>2 DEF TypeOK
<1>4. ClusterInv'
  BY DEF ClusterInv, Over, clock
<1> QED
  BY <1>3, <1>4, ClusterStep DEF TypeOK, Doomed

LEMMA EndJobInv == ASSUME IInv, NEW j \in Jobs, CompleteJob(j) \/ FailJob(j) PROVE IInv'
<1> USE DEF CompleteJob, FailJob, IInv
<1> DEFINE job == jobs[j]
           completed == [job EXCEPT !.completed = TRUE, !.active = 0,
                                    !.conditions = <<"Complete">>]
           failed == [job EXCEPT !.active = 0, !.conditions = <<"FailureTarget", "Failed">>]
<1>1. jobs[j] \in Job /\ jobs[j] # NoJob /\ ~FailureCondition(jobs[j])
  BY DEF TypeOK, Finished
<1>2. completed \in Job /\ Finished(completed)
  BY <1>1 DEF Job, Finished
<1>3. failed \in Job /\ Finished(failed)
  <2>1. failed \in Job /\ failed.conditions = <<"FailureTarget", "Failed">>
    BY <1>1 DEF Job
  <2>2. failed.conditions[2] = "Failed" /\ 2 \in DOMAIN failed.conditions
    BY <2>1
  <2> QED
    BY <2>1, <2>2 DEF Finished, FailureCondition
<1>4. PICK ended \in Job : Finished(ended) /\ Put(j, ended)
  BY <1>2, <1>3
<1> QED
  BY <1>1, <1>4, PutInv DEF TypeOK

LEMMA DeleteJobInv == ASSUME IInv, NEW j \in Jobs, DeleteJob(j) PROVE IInv'
<1> USE DEF DeleteJob, IInv
<1>1. jobs' \in [Jobs -> Job \cup {NoJob}]
  BY DEF TypeOK
<1>2. ClusterInv'
  BY <1>1 DEF TypeOK, ClusterInv, Over, clock
<1>3. \A k \in Jobs : past[k] # <<>> /\ Doomed(jobs, k) => Doomed(jobs', k)
  BY DEF TypeOK, Doomed
<1> QED
  BY <1>1, <1>2, <1>3, ClusterStep DEF TypeOK

\* The watched lists bear on no part of the invariant but their types: who reads them
\* is promised nothing.
LEMMA WatchStep ==
    ASSUME IInv,
           UNCHANGED <<call, cluster, clock, handler>>,
           faults' \in 0..MaxFaults,
           listed' \subseteq Cronjobs,
           list' \in [Jobs -> Job \cup {NoJob}],
           method = "GetJobs" \/ list' = list
    PROVE  IInv'
<1> USE DEF IInv, call, cluster, clock, handler
<1>1. TypeOK'
  BY DEF TypeOK
<1>2. ClusterInv'
  BY DEF ClusterInv, Over
<1>3. AgeInv' /\ LastingInv'
  BY DEF AgeInv, Handling, LastingInv, Failing, Doomed
<1>4. ResponseInv'
  BY DEF ResponseInv, IsMade, ResponsesOf
<1> QED
  BY <1>1, <1>2, <1>3, <1>4

LEMMA FaultBound == ASSUME TypeOK, Fault PROVE faults' \in 0..MaxFaults
BY BoundsAssumption DEF TypeOK, Fault

LEMMA NotOlderType ==
    ASSUME TypeOK, NEW j \in Jobs, NEW job \in NotOlder(j)
    PROVE  job \in Job
BY DEF TypeOK, NotOlder

LEMMA HearCronjobInv ==
    ASSUME IInv, NEW c \in Cronjobs, HearCronjob(c) \/ ForgetCronjob(c)
    PROVE  IInv'
BY WatchStep DEF HearCronjob, ForgetCronjob, IInv, TypeOK

LEMMA HearJobInv == ASSUME IInv, NEW j \in Jobs, HearJob(j) \/ ForgetJob(j) PROVE IInv'
<1>1. list' \in [Jobs -> Job \cup {NoJob}]
  BY NotOlderType DEF HearJob, ForgetJob, IInv, TypeOK
<1> QED
  BY <1>1, WatchStep DEF HearJob, ForgetJob, IInv, TypeOK

LEMMA LoseJobsInv == ASSUME IInv, LoseJobs PROVE IInv'
<1>1. list' \in [Jobs -> Job \cup {NoJob}]
  BY NotOlderType DEF LoseJobs, NoJobs, IInv
<1> QED
  BY <1>1, WatchStep, FaultBound DEF LoseJobs, IInv, TypeOK

\* The cached list is read anew: the parts of the invariant that do not depend on its
\* age.
LEMMA ListStep ==
    ASSUME IInv, list' = jobs,
           UNCHANGED <<call, cluster, listed, over, work, handler, faults>>,
           age' \in 0..Fresh
    PROVE  TypeOK' /\ ClusterInv' /\ LastingInv' /\ ResponseInv'
<1> USE DEF IInv, call, cluster, handler
<1>1. TypeOK'
  BY DEF TypeOK
<1>2. ClusterInv'
  BY DEF ClusterInv, Over
<1>3. LastingInv'
  BY DEF LastingInv, ClusterInv, Failing, Doomed
<1>4. ResponseInv'
  BY DEF ResponseInv, IsMade, ResponsesOf
<1> QED
  BY <1>1, <1>2, <1>3, <1>4

LEMMA RefreshJobsInv == ASSUME IInv, RefreshJobs PROVE IInv'
<1> USE DEF RefreshJobs, IInv, call, cluster, handler
<1>1. Fresh \in Nat
  BY BoundsAssumption DEF Fresh
<1>2. \A j \in Jobs : list'[j] # NoJob /\ ~Finished(list'[j]) => over[j] <= 0
  BY DEF ClusterInv, Over, TypeOK
<1>3. AgeInv'
  BY <1>2 DEF AgeInv, Handling
<1> QED
  BY <1>1, <1>3, ListStep

LEMMA TickInv == ASSUME IInv, Tick PROVE IInv'
<1> USE DEF Tick, IInv, call, cluster, stores, handler
<1>1. Fresh \in Nat /\ OverCap \in Nat /\ MaxWork \in Nat
  BY BoundsAssumption DEF Fresh, OverCap
<1>2. /\ age' \in 0..Fresh /\ work' \in 0..MaxWork
      /\ over' \in [Jobs -> 0..OverCap]
  BY <1>1 DEF TypeOK, AtMost
<1>3. TypeOK'
  BY <1>2 DEF TypeOK
<1>4. ClusterInv'
  BY DEF ClusterInv, Over
<1>5. \A j \in Jobs : over'[j] \in Nat /\ over'[j] <= over[j] + 1
  BY <1>1 DEF TypeOK, AtMost
<1>6. AgeInv'
  BY <1>1, <1>5 DEF TypeOK, AgeInv, AtMost, Handling
<1>7. LastingInv'
  BY DEF LastingInv, Failing, Doomed
<1>8. ResponseInv'
  BY DEF ResponseInv, IsMade, ResponsesOf
<1> QED
  BY <1>3, <1>4, <1>6, <1>7, <1>8

\* A handler that lets go of everything it has read keeps the invariant.
LEMMA LetGo ==
    ASSUME IInv,
           UNCHANGED <<call, cluster, stores, over, age, shown>>,
           hpc' \in {"start", "ended"},
           cronjobs' = {}, mapped' = NoJobs, built' = {}, answer' = <<>>,
           blind' = {}, work' = 0, faults' \in 0..MaxFaults
    PROVE  IInv'
<1> USE DEF IInv, call, cluster, stores
<1>1. mapped' \in [Jobs -> Job \cup {NoJob}] /\ \A j \in Jobs : mapped'[j] = NoJob
  BY DEF NoJobs
<1>2. TypeOK'
  BY <1>1, BoundsAssumption DEF TypeOK
<1>3. ClusterInv'
  BY DEF ClusterInv, Over
<1>4. AgeInv'
  BY DEF AgeInv, Handling
<1>5. LastingInv'
  BY <1>1 DEF LastingInv, Failing, Doomed
<1>6. ResponseInv'
  BY DEF ResponseInv
<1> QED
  BY <1>2, <1>3, <1>4, <1>5, <1>6

LEMMA EndStreamInv ==
    ASSUME IInv, FindCronjobsFails \/ FindJobsFails \/ SendFails
    PROVE  IInv'
BY LetGo, FaultBound
   DEF IInv, FindCronjobsFails, FindJobsFails, SendFails, EndStream

LEMMA FindCronjobsInv == ASSUME IInv, FindCronjobs \/ FindCronjob PROVE IInv'
<1> USE DEF FindCronjobs, FindCronjob, IInv, call, cluster, stores, clock
<1>1. TypeOK'
  <2>1. built = {} /\ DOMAIN answer = {}
    BY DEF ResponseInv
  <2> QED
    BY <2>1, NamesAssumption DEF TypeOK
<1>2. ClusterInv' /\ AgeInv'
  BY DEF ClusterInv, Over, AgeInv, Handling
<1>3. LastingInv'
  BY DEF LastingInv, Failing, Doomed
<1>4. ResponseInv'
  BY DEF ResponseInv, IsMade
<1> QED
  BY <1>1, <1>2, <1>3, <1>4

LEMMA FindCronjobPanicsInv == ASSUME IInv, FindCronjobPanics PROVE IInv'
<1> USE DEF FindCronjobPanics, IInv, call, cluster, stores, clock
<1>1. TypeOK'
  BY FaultBound DEF TypeOK
<1>2. ClusterInv' /\ AgeInv'
  BY DEF ClusterInv, Over, AgeInv, Handling
<1>3. LastingInv'
  BY DEF LastingInv, Failing, Doomed
<1>4. ResponseInv'
  BY DEF ResponseInv, IsMade
<1> QED
  BY <1>1, <1>2, <1>3, <1>4

\* A handler that takes over the stored list.
LEMMA ReadList ==
    ASSUME IInv,
           hpc # "build", hpc' = "build", mapped' = list, work' = 0,
           cronjobs' \subseteq Cronjobs \cup {NoCronjob}, hpc # "send",
           method # "GetJobs" => age < Fresh,
           UNCHANGED <<call, cluster, stores, over, age, built, answer, blind, shown, faults>>
    PROVE  IInv'
<1> USE DEF IInv, call, cluster, stores
<1>1. TypeOK'
  <2>1. built = {} /\ DOMAIN answer = {}
    BY DEF ResponseInv
  <2> QED
    BY <2>1, BoundsAssumption DEF TypeOK
<1>2. ClusterInv'
  BY DEF ClusterInv, Over
<1>3. Fresh \in Nat
  BY BoundsAssumption DEF Fresh
<1>4. AgeInv'
  BY <1>3 DEF AgeInv, Handling, TypeOK
<1>5. LastingInv'
  BY DEF LastingInv, Failing, Doomed
<1>6. ResponseInv'
  BY DEF ResponseInv
<1> QED
  BY <1>1, <1>2, <1>4, <1>5, <1>6

LEMMA FindJobsInv == ASSUME IInv, FindJobs \/ FindJobsMappedHit PROVE IInv'
BY ReadList DEF FindJobs, FindJobsMappedHit, IInv, TypeOK

LEMMA FindJobsMappedMissInv == ASSUME IInv, FindJobsMappedMiss PROVE IInv'
<1> USE DEF FindJobsMappedMiss, IInv, call, cluster
<1>1. built = {} /\ answer = <<>> /\ DOMAIN answer = {}
  BY DEF ResponseInv
<1>2. Fresh \in Nat /\ Fresh > 0
  BY BoundsAssumption DEF Fresh
<1>3. TypeOK'
  BY <1>1, <1>2, BoundsAssumption DEF TypeOK
<1>4. ClusterInv'
  BY DEF ClusterInv, Over
<1>5. \A j \in Jobs : jobs[j] # NoJob /\ ~Finished(jobs[j]) => over[j] = 0
  BY DEF ClusterInv, Over
<1>6. AgeInv'
  BY <1>2, <1>5 DEF AgeInv, Handling
<1>7. LastingInv'
  BY DEF LastingInv, ClusterInv, Failing, Doomed
<1>8. ResponseInv'
  BY <1>1 DEF ResponseInv
<1> QED
  BY <1>3, <1>4, <1>6, <1>7, <1>8

LEMMA FindJobsMappedIgnoredInv == ASSUME IInv, FindJobsMappedIgnored PROVE IInv'
<1> USE DEF FindJobsMappedIgnored, IInv, call, cluster, stores
<1>1. built = {} /\ answer = <<>> /\ DOMAIN answer = {}
  BY DEF ResponseInv
<1>2. mapped' \in [Jobs -> Job \cup {NoJob}] /\ \A j \in Jobs : mapped'[j] = NoJob
  BY DEF NoJobs
<1>3. TypeOK'
  BY <1>1, <1>2, FaultBound, BoundsAssumption DEF TypeOK
<1>4. ClusterInv'
  BY DEF ClusterInv, Over
<1>5. AgeInv'
  BY <1>2 DEF AgeInv, Handling
<1>6. LastingInv'
  BY <1>2 DEF LastingInv, Failing, Doomed
<1>7. ResponseInv'
  BY <1>1 DEF ResponseInv
<1> QED
  BY <1>3, <1>4, <1>5, <1>6, <1>7

\* Only jobs that were read are filed.
LEMMA FiledAreRead ==
    ASSUME TypeOK, NEW c, NEW j \in JobsOf(c)
    PROVE  j \in Jobs /\ mapped[j] # NoJob
BY DEF TypeOK, JobsOf, JobsForCronjob, Present

LEMMA BuildJobInv ==
    ASSUME IInv, NEW c \in cronjobs, NEW j \in Jobs, BuildJob(c, j) \/ BuildJobBlind(c, j)
    PROVE  IInv'
<1> USE DEF IInv, call, cluster, stores, clock
<1>1. PICK found : /\ Build(c, j, found)
                   /\ j \in JobsOf(c) /\ hpc = "build"
                   /\ blind' \subseteq Jobs
                   /\ faults' \in 0..MaxFaults
  <2>1. CASE BuildJob(c, j)
    BY <2>1 DEF BuildJob, TypeOK
  <2>2. CASE BuildJobBlind(c, j)
    BY <2>2, FaultBound DEF BuildJobBlind, TypeOK
  <2> QED
    BY <2>1, <2>2
<1>2. UNCHANGED <<call, cluster, stores, clock, hpc, cronjobs, mapped, answer, shown>>
  BY DEF BuildJob, BuildJobBlind
<1>3. PICK r : /\ r = BuildJobResponse(j, mapped[j], found)
               /\ built' = built \cup {[cronjob |-> c, response |-> r]}
  BY <1>1 DEF Build
<1>4. IsMade(r)
  BY <1>1, <1>3, FiledAreRead, ResponseOfJob DEF IsMade
<1>5. TypeOK'
  <2>1. r.name \in Jobs
    BY <1>4 DEF IsMade
  <2>2. \A b \in built' : b.cronjob \in cronjobs' /\ b.response.name \in Jobs
    BY <1>2, <1>3, <2>1 DEF TypeOK
  <2> QED
    BY <1>1, <1>2, <2>2 DEF TypeOK
<1>6. ClusterInv' /\ AgeInv'
  BY <1>2 DEF ClusterInv, Over, AgeInv, Handling
<1>7. LastingInv'
  BY <1>2 DEF LastingInv, Failing, Doomed
<1>8. \A s : IsMade(s) => IsMade(s)'
  BY <1>2 DEF IsMade
<1>9. ResponseInv'
  BY <1>1, <1>2, <1>3, <1>4, <1>8 DEF ResponseInv
<1> QED
  BY <1>5, <1>6, <1>7, <1>9

\* Sorting adds nothing and loses nothing: an answer shows the responses.
LEMMA AnswersAreArranged ==
    ASSUME NEW R, NEW a \in Answers(R)
    PROVE  a.jobs \in Arrangements(R)
<1>1. CASE method = "GetJobs"
  <2>1. PICK all \in Arrangements(R) :
          a = [jobs |-> all, failed |-> FALSE, last |-> NoDuration, current |-> NoDuration]
    BY <1>1 DEF Answers
  <2> QED
    BY <2>1
<1>2. CASE method # "GetJobs"
  <2>1. PICK all \in SortFunc(R), running \in SortFunc({r \in R : r.active > 0}) :
          a = CronJobResponse(all, running)
    BY <1>2 DEF Answers, CronJobResponses
  <2> QED
    BY <2>1 DEF SortFunc, CronJobResponse
<1> QED
  BY <1>1, <1>2

LEMMA AnswersAreResponses ==
    ASSUME NEW R, NEW a \in Answers(R)
    PROVE  {a.jobs[i] : i \in DOMAIN a.jobs} = R
<1>1. a.jobs \in Arrangements(R)
  BY AnswersAreArranged
<1> QED
  BY <1>1 DEF Arrangements

LEMMA JoinInv == ASSUME IInv, Join PROVE IInv'
<1> USE DEF Join, IInv, call, cluster, stores, clock
<1>1. /\ DOMAIN answer' = cronjobs
      /\ \A c \in cronjobs : answer'[c] \in Answers(Responses(c))
  OBVIOUS
<1>2. TypeOK'
  BY <1>1 DEF TypeOK
<1>3. ClusterInv' /\ AgeInv'
  BY DEF ClusterInv, Over, AgeInv, Handling
<1>4. LastingInv'
  BY DEF LastingInv, Failing, Doomed
<1>5. \A c \in cronjobs : \A i \in DOMAIN answer'[c].jobs : answer'[c].jobs[i] \in Responses(c)
  BY <1>1, AnswersAreResponses
<1>6. \A c : \A r \in Responses(c) : IsMade(r)
  BY DEF Responses, ResponseInv
<1>7. \A r : IsMade(r) => IsMade(r)'
  BY DEF IsMade
<1>8. ResponseInv'
  BY <1>5, <1>6, <1>7 DEF ResponseInv, ResponsesOf
<1> QED
  BY <1>2, <1>3, <1>4, <1>8

\* A failure condition that an answer shows, its sources have by then.
LEMMA SendInv == ASSUME IInv, Send PROVE IInv'
<1> USE DEF Send, IInv, call, cluster, stores
<1>1. mapped' \in [Jobs -> Job \cup {NoJob}] /\ \A j \in Jobs : mapped'[j] = NoJob
  BY DEF NoJobs
<1>2. built = {}
  BY DEF ResponseInv
<1>3. TypeOK'
  BY <1>1, <1>2, BoundsAssumption DEF TypeOK, NewlyShown
<1>4. ClusterInv'
  BY DEF ClusterInv, Over
<1>5. AgeInv'
  BY DEF AgeInv, Handling
<1>6. LastingInv'
  <2>1. ASSUME method # "GetJobs", NEW j \in NewlyShown
        PROVE  past[j] # <<>> /\ Doomed(jobs, j) /\ Doomed(list, j)
    <3>1. PICK c \in cronjobs : \E s \in ResponsesOf(c) : s.name = j /\ s.condition
      BY <2>1 DEF NewlyShown
    <3>2. PICK r \in ResponsesOf(c) : r.name = j /\ r.condition /\ IsMade(r)
      BY <3>1 DEF ResponseInv
    <3> QED
      BY <2>1, <3>2 DEF IsMade, LastingInv, Failing
  <2> QED
    BY <1>1, <2>1 DEF LastingInv, Failing, Doomed
<1>7. ResponseInv'
  BY <1>2 DEF ResponseInv
<1> QED
  BY <1>3, <1>4, <1>5, <1>6, <1>7

LEMMA StutterInv == ASSUME IInv, UNCHANGED vars PROVE IInv'
<1>1. UNCHANGED <<call, cluster, stores, clock, handler, faults>>
  BY DEF vars
<1>2. faults' \in 0..MaxFaults /\ listed' \subseteq Cronjobs
      /\ list' \in [Jobs -> Job \cup {NoJob}] /\ list' = list
  BY <1>1 DEF IInv, TypeOK, stores
<1> QED
  BY <1>1, <1>2, WatchStep

LEMMA NextInv == IInv /\ [Next]_vars => IInv'
<1> SUFFICES ASSUME IInv, [Next]_vars PROVE IInv'
  OBVIOUS
<1>1. CASE Cluster
  BY <1>1, ScheduleCronjobInv, CreateJobInv, StartJobInv, StepPodInv, RetryPodInv, EndJobInv,
     DeleteJobInv DEF Cluster
<1>2. CASE Stores
  BY <1>2, HearCronjobInv, HearJobInv, LoseJobsInv, RefreshJobsInv DEF Stores
<1>3. CASE Tick
  BY <1>3, TickInv
<1>4. CASE Handler
  BY <1>4, FindCronjobsInv, FindJobsInv, FindJobsMappedMissInv, BuildJobInv, JoinInv, SendInv
     DEF Handler
<1>5. CASE Failure
  BY <1>5, EndStreamInv, FindCronjobPanicsInv, FindJobsMappedIgnoredInv, BuildJobInv
     DEF Failure
<1>6. CASE UNCHANGED vars
  BY <1>6, StutterInv
<1> QED
  BY <1>1, <1>2, <1>3, <1>4, <1>5, <1>6 DEF Next

-----------------------------------------------------------------------------
(* The theorems.                                                           *)

\* The inductive invariant, with the types in it: a response says of a job what the
\* list says that was read, whatever pods were found; and a list shows no job
\* unfinished that ended before the list was read, nor without a failure condition
\* that an older one had.
THEOREM Invariance == Spec => []IInv
<1> QED
  BY InitInv, NextInv, PTL DEF Spec

\* Every reachable state is well typed, for any names and bounds.
THEOREM Typing == Spec => []TypeOK
<1>1. IInv => TypeOK
  BY DEF IInv
<1> QED
  BY <1>1, Invariance, PTL

\* A failure condition that a client was shown, every later answer of its stream shows
\* as a failure that is over, whichever handlers replace the cached list in between
\* and whatever pods are found (store.go:239-272, sk8l.go:367-398, 1198-1223).
THEOREM FailureLasts == Spec => []FailureIsFinal
<1>1. ASSUME IInv PROVE FailureIsFinal
  <2> SUFFICES ASSUME hpc = "send", method # "GetJobs",
                      NEW c \in cronjobs, NEW r \in ResponsesOf(c), r.name \in shown
               PROVE  r.failed /\ r.duration # "now"
    BY DEF FailureIsFinal
  <2>1. IsMade(r)
    BY <1>1 DEF IInv, ResponseInv
  <2>2. FailureCondition(mapped[r.name])
    BY <1>1, <2>1 DEF IInv, LastingInv, Doomed, IsMade
  <2> QED
    BY <2>1, <2>2 DEF IsMade, Finished
<1> QED
  BY <1>1, Invariance, PTL

\* The duration of a job that ended grows in the answers for less than TTL, the
\* lag of an answer of the API and the time of a pass, together.
THEOREM Ticking == Spec => []TickingIsBounded
<1>1. ASSUME IInv PROVE TickingIsBounded
  <2> SUFFICES ASSUME hpc = "send", method # "GetJobs",
                      NEW c \in cronjobs, NEW r \in ResponsesOf(c), r.duration = "now"
               PROVE  over[r.name] < OverCap
    BY DEF TickingIsBounded
  <2>1. IsMade(r)
    BY <1>1 DEF IInv, ResponseInv
  <2>2. over[r.name] < Fresh + work
    BY <1>1, <2>1 DEF IInv, AgeInv, Handling, IsMade
  <2>3. /\ Fresh \in Nat /\ OverCap = Fresh + MaxWork /\ MaxWork \in Nat
        /\ work \in Nat /\ work <= MaxWork
        /\ over[r.name] \in Nat
    BY <1>1, <2>1, BoundsAssumption DEF IInv, TypeOK, Fresh, OverCap, IsMade
  <2> QED
    BY <2>2, <2>3
<1> QED
  BY <1>1, Invariance, PTL

-----------------------------------------------------------------------------
(* What an answer is made of.                                              *)

LEMMA AnswerInitInv == Init => AnswerInv
BY DEF Init, AnswerInv

\* Steps of others, and stuttering.
LEMMA AnswerFrame ==
    ASSUME AnswerInv,
           UNCHANGED <<method, owners, hpc, cronjobs, mapped, built, answer>>
    PROVE  AnswerInv'
<1>1. \A c : /\ JobsOf(c)' = JobsOf(c)
             /\ Responses(c)' = Responses(c) /\ ResponsesOf(c)' = ResponsesOf(c)
  BY DEF JobsOf, Responses, ResponsesOf
<1>2. \A R : Answers(R)' = Answers(R)
  BY DEF Answers
<1>3. \A R, c : OneOfEach(R, c)' <=> OneOfEach(R, c)
  BY <1>1 DEF OneOfEach
<1> QED
  BY <1>1, <1>2, <1>3, Zenon DEF AnswerInv

\* Nothing is made yet, or any more.
LEMMA AnswerNone ==
    ASSUME built' = {}, hpc' # "send",
           method' = "GetJobs" => cronjobs' \subseteq {NoCronjob}
    PROVE  AnswerInv'
<1>1. \A c : Responses(c)' = {}
  BY DEF Responses
<1>2. \A c : OneOfEach(Responses(c), c)'
  BY <1>1 DEF OneOfEach
<1> QED
  BY <1>2 DEF AnswerInv

LEMMA AnswerBuild ==
    ASSUME TypeOK, AnswerInv, NEW c \in cronjobs, NEW j \in Jobs,
           BuildJob(c, j) \/ BuildJobBlind(c, j)
    PROVE  AnswerInv'
<1>1. PICK found : /\ Build(c, j, found) /\ hpc = "build"
                   /\ j \in JobsOf(c) /\ ~IsBuilt(c, j)
  BY DEF BuildJob, BuildJobBlind
<1>2. /\ UNCHANGED <<method, owners, hpc, cronjobs, mapped, answer>>
      /\ hpc' # "send"
  BY <1>1 DEF BuildJob, BuildJobBlind, call
<1>3. PICK r : /\ r = BuildJobResponse(j, mapped[j], found)
               /\ built' = built \cup {[cronjob |-> c, response |-> r]}
  BY <1>1 DEF Build
<1>4. r.name = j /\ r.created = mapped[j].created
  BY <1>3 DEF BuildJobResponse
<1>5. \A d : JobsOf(d)' = JobsOf(d)
  BY <1>2 DEF JobsOf
<1>6. \A d : Responses(d)' = IF d = c THEN Responses(d) \cup {r} ELSE Responses(d)
  <2> SUFFICES ASSUME NEW d
               PROVE  Responses(d)' = IF d = c THEN Responses(d) \cup {r} ELSE Responses(d)
    OBVIOUS
  <2>1. PICK new : new = [cronjob |-> c, response |-> r]
    OBVIOUS
  <2>2. new.cronjob = c /\ new.response = r /\ built' = built \cup {new}
    BY <1>3, <2>1
  <2> QED
    BY <2>2 DEF Responses
<1>7. \A q \in Responses(c) : q.name # j
  BY <1>1 DEF Responses, IsBuilt
<1>8. ASSUME NEW d \in cronjobs PROVE OneOfEach(Responses(d), d)'
  <2>1. OneOfEach(Responses(d), d)
    BY <1>8 DEF AnswerInv
  <2>2. CASE d # c
    BY <1>2, <1>5, <1>6, <2>1, <2>2 DEF OneOfEach
  <2>3. CASE d = c
    <3> DEFINE R == Responses(d) \cup {r}
    <3>1. \A q \in R : q.name \in JobsOf(d) /\ q.created = mapped[q.name].created
      BY <1>1, <1>4, <2>1, <2>3 DEF OneOfEach
    <3>2. \A q, s \in R : q.name = s.name => q = s
      BY <1>4, <1>7, <2>1, <2>3 DEF OneOfEach
    <3> QED
      BY <1>2, <1>5, <1>6, <2>3, <3>1, <3>2 DEF OneOfEach
  <2> QED
    BY <2>2, <2>3
<1> QED
  BY <1>2, <1>8 DEF AnswerInv

LEMMA AnswerJoin ==
    ASSUME TypeOK, AnswerInv, Join
    PROVE  AnswerInv'
<1>1. /\ UNCHANGED <<method, owners, cronjobs, mapped>> /\ built' = {}
      /\ \A c \in cronjobs : answer'[c] \in Answers(Responses(c))
      /\ \A c \in cronjobs : \A j \in JobsOf(c) : IsBuilt(c, j)
  BY DEF Join, call
<1>2. \A c : JobsOf(c)' = JobsOf(c)
  BY <1>1 DEF JobsOf
<1>3. \A R : Answers(R)' = Answers(R)
  BY <1>1 DEF Answers
<1>4. \A c \in cronjobs : ResponsesOf(c)' = Responses(c)
  <2> SUFFICES ASSUME NEW c \in cronjobs PROVE ResponsesOf(c)' = Responses(c)
    OBVIOUS
  <2>1. ResponsesOf(c)' = {answer'[c].jobs[i] : i \in DOMAIN answer'[c].jobs}
    BY DEF ResponsesOf
  <2>2. PICK R : R = Responses(c)
    OBVIOUS
  <2>3. PICK a \in Answers(R) : a = answer'[c]
    BY <1>1, <2>2
  <2> QED
    BY <2>1, <2>2, <2>3, AnswersAreResponses
<1>5. ASSUME NEW c \in cronjobs
      PROVE  /\ OneOfEach(Responses(c), c)'
             /\ OneOfEach(ResponsesOf(c), c)'
             /\ JobsOf(c)' \subseteq {r.name : r \in ResponsesOf(c)'}
             /\ answer'[c] \in Answers(ResponsesOf(c))'
  <2>1. OneOfEach(Responses(c), c)
    BY DEF AnswerInv
  <2>2. OneOfEach(ResponsesOf(c), c)'
    BY <1>1, <1>2, <1>4, <2>1 DEF OneOfEach
  <2>3. OneOfEach(Responses(c), c)'
    BY <1>1 DEF Responses, OneOfEach
  <2>4. JobsOf(c) \subseteq {r.name : r \in Responses(c)}
    BY <1>1 DEF IsBuilt, Responses
  <2>5. answer'[c] \in Answers(ResponsesOf(c))'
    BY <1>1, <1>4 DEF Answers
  <2> QED
    BY <1>2, <1>4, <2>2, <2>3, <2>4, <2>5
<1> QED
  BY <1>1, <1>5 DEF AnswerInv

LEMMA AnswerNextInv == ASSUME StreamsInv, [Next]_vars PROVE AnswerInv'
<1>1. TypeOK /\ ResponseInv /\ AnswerInv
  BY DEF StreamsInv, IInv
<1>2. CASE Cluster
  BY <1>1, <1>2, AnswerFrame
     DEF Cluster, ScheduleCronjob, DeleteCronjob, CreateJob, StartJob, StepPod, RetryPod,
         CompleteJob, FailJob, DeleteJob, Put, handler, call
<1>3. CASE Stores \/ Tick
  BY <1>1, <1>3, AnswerFrame
     DEF Stores, HearCronjob, ForgetCronjob, HearJob, ForgetJob, LoseJobs, RefreshJobs, Tick,
         call, handler
<1>4. CASE FindCronjobs \/ FindCronjob \/ FindJobs
  BY <1>1, <1>4, AnswerNone DEF FindCronjobs, FindCronjob, FindJobs, call, ResponseInv
<1>5. CASE FindJobsMappedHit \/ FindJobsMappedMiss \/ FindJobsMappedIgnored
  BY <1>1, <1>5, AnswerNone
     DEF FindJobsMappedHit, FindJobsMappedMiss, FindJobsMappedIgnored, call, ResponseInv, AnswerInv
<1>6. CASE \E c \in cronjobs, j \in Jobs : BuildJob(c, j) \/ BuildJobBlind(c, j)
  BY <1>1, <1>6, AnswerBuild
<1>7. CASE Join
  BY <1>1, <1>7, AnswerJoin
<1>8. CASE Send \/ FindCronjobsFails \/ FindJobsFails \/ SendFails
  BY <1>1, <1>8, AnswerNone
     DEF Send, FindCronjobsFails, FindJobsFails, SendFails, EndStream, ResponseInv
<1>9. CASE FindCronjobPanics
  BY <1>1, <1>9, AnswerNone DEF FindCronjobPanics, call, ResponseInv
<1>10. CASE UNCHANGED vars
  BY <1>1, <1>10, AnswerFrame DEF vars, call, handler
<1> QED
  BY <1>2, <1>3, <1>4, <1>5, <1>6, <1>7, <1>8, <1>9, <1>10 DEF Next, Handler, Failure

\* What is known of an answer is known whatever goroutine ends first (sk8l.go:851-907).
THEOREM AnswerInvariance == Spec => []StreamsInv
<1>1. Init => StreamsInv
  BY InitInv, AnswerInitInv DEF StreamsInv
<1>2. StreamsInv /\ [Next]_vars => StreamsInv'
  BY NextInv, AnswerNextInv DEF StreamsInv
<1> QED
  BY <1>1, <1>2, PTL DEF Spec

-----------------------------------------------------------------------------
(* Sorting.                                                                *)

\* The responses of a cronjob are as many as its jobs, at the most.
LEMMA ResponsesFinite ==
    ASSUME NEW R, \A r \in R : r.name \in Jobs, \A r, s \in R : r.name = s.name => r = s
    PROVE  IsFiniteSet(R)
<1> DEFINE f == [r \in R |-> r.name]
<1>1. f \in Injection(R, Jobs)
  BY DEF Injection, IsInjective
<1> QED
  BY <1>1, NamesAssumption, FS_Injection

\* An arrangement has each element once.
LEMMA ArrangementIsInjective ==
    ASSUME NEW R, IsFiniteSet(R), NEW s \in Arrangements(R)
    PROVE  /\ Cardinality(R) \in Nat /\ DOMAIN s = 1..Cardinality(R)
           /\ s \in Seq(R) /\ Len(s) = Cardinality(R)
           /\ \A i, k \in DOMAIN s : s[i] = s[k] => i = k
           /\ R = {s[i] : i \in DOMAIN s}
<1> DEFINE n == Cardinality(R)
<1>1. n \in Nat
  BY FS_CardinalityType
<1> HIDE DEF n
<1>2. s \in [1..n -> R] /\ \A r \in R : \E i \in DOMAIN s : s[i] = r
  BY DEF Arrangements, n
<1>3. IsFiniteSet(1..n) /\ Cardinality(1..n) = n
  BY <1>1, FS_Interval
<1>4. s \in Surjection(1..n, R)
  BY <1>2 DEF Surjection
<1>5. s \in Injection(1..n, R)
  BY <1>3, <1>4, FS_SurjSameCardinalityImpliesInj DEF n
<1>6. \A i, k \in DOMAIN s : s[i] = s[k] => i = k
  BY <1>5 DEF Injection, IsInjective
<1> QED
  BY <1>1, <1>2, <1>6 DEF n

LEMMA Pair ==
    ASSUME NEW a, NEW b, a # b
    PROVE  IsFiniteSet({a, b}) /\ Cardinality({a, b}) = 2
<1>1. {a, b} = {a} \cup {b}
  OBVIOUS
<1>2. IsFiniteSet({a}) /\ Cardinality({a}) = 1
  BY FS_Singleton
<1>3. Cardinality({a} \cup {b}) = Cardinality({a}) + 1 /\ IsFiniteSet({a} \cup {b})
  BY <1>2, FS_AddElement
<1> QED
  BY <1>1, <1>2, <1>3

LEMMA AtMostOne ==
    ASSUME NEW a, NEW S \in SUBSET {a}
    PROVE  Cardinality(S) <= 1
<1>1. S = {} \/ S = {a}
  OBVIOUS
<1>2. Cardinality({}) = 0 /\ Cardinality({a}) = 1
  BY FS_EmptySet, FS_Singleton
<1> QED
  BY <1>1, <1>2

\* The last of a sorted list is the newest, and the last but one is what one other
\* may be newer than.
LEMMA SortedByAge ==
    ASSUME NEW R, IsFiniteSet(R), \A r \in R : r.created \in Nat, R # {},
           NEW s \in SortFunc(R)
    PROVE  /\ s # <<>> /\ Len(s) = Cardinality(R)
           /\ s[Len(s)] \in R
           /\ Cardinality(Later(s[Len(s)], R)) < 1
           /\ 1 <= Cardinality(NotBefore(s[Len(s)], R))
           /\ Len(s) > 2 =>
                /\ s[Len(s) - 1] \in R
                /\ Cardinality(Later(s[Len(s) - 1], R)) < 2
                /\ 2 <= Cardinality(NotBefore(s[Len(s) - 1], R))
<1>1. /\ s \in Arrangements(R)
      /\ \A i, k \in DOMAIN s : i < k => s[i].created <= s[k].created
  BY DEF SortFunc
<1>2. PICK n \in Nat : n = Cardinality(R) /\ n = Len(s)
  BY <1>1, ArrangementIsInjective
<1>3. /\ DOMAIN s = 1..n
      /\ \A i, k \in 1..n : s[i] = s[k] => i = k
      /\ R = {s[i] : i \in 1..n}
  BY <1>1, <1>2, ArrangementIsInjective
<1>4. n >= 1 /\ s # <<>> /\ s[n] \in R
  <2>1. n # 0
    BY <1>2, FS_EmptySet
  <2> QED
    BY <1>2, <1>3, <2>1
<1>5. ASSUME NEW S \in SUBSET R PROVE IsFiniteSet(S) /\ Cardinality(S) \in Nat
  BY FS_Subset, FS_CardinalityType
<1>6. Cardinality(Later(s[n], R)) < 1
  <2>1. \A i \in 1..n : ~(s[i].created > s[n].created)
    BY <1>1, <1>3, <1>4
  <2>2. Later(s[n], R) = {}
    BY <1>3, <2>1 DEF Later
  <2> QED
    BY <2>2, FS_EmptySet
<1>7. 1 <= Cardinality(NotBefore(s[n], R))
  <2>1. s[n] \in NotBefore(s[n], R) /\ NotBefore(s[n], R) \in SUBSET R
    BY <1>4 DEF NotBefore
  <2>2. Cardinality(NotBefore(s[n], R)) # 0
    BY <1>5, <2>1, FS_EmptySet
  <2> QED
    BY <1>5, <2>1, <2>2
<1>8. ASSUME n > 2
      PROVE  /\ s[n - 1] \in R
             /\ Cardinality(Later(s[n - 1], R)) < 2
             /\ 2 <= Cardinality(NotBefore(s[n - 1], R))
  <2>1. n - 1 \in 1..n /\ n \in 1..n /\ n - 1 < n /\ s[n - 1] \in R /\ s[n - 1] # s[n]
    BY <1>3, <1>8
  <2>2. \A i \in 1..n : i # n => ~(s[i].created > s[n - 1].created)
    BY <1>1, <1>3, <2>1
  <2>3. Later(s[n - 1], R) \in SUBSET {s[n]}
    BY <1>3, <2>2 DEF Later
  <2>4. Cardinality(Later(s[n - 1], R)) <= 1
    BY <2>3, AtMostOne
  <2>5. {s[n - 1], s[n]} \in SUBSET NotBefore(s[n - 1], R)
    BY <1>1, <1>3, <1>4, <2>1 DEF NotBefore
  <2>6. Cardinality({s[n - 1], s[n]}) = 2
    BY <2>1, Pair
  <2>7. NotBefore(s[n - 1], R) \in SUBSET R /\ Later(s[n - 1], R) \in SUBSET R
    BY DEF NotBefore, Later
  <2>8. 2 <= Cardinality(NotBefore(s[n - 1], R))
    BY <1>5, <2>5, <2>6, <2>7, FS_Subset
  <2> QED
    BY <1>5, <2>1, <2>4, <2>7, <2>8
<1> QED
  BY <1>2, <1>4, <1>6, <1>7, <1>8

LEMMA NewestDuration ==
    ASSUME NEW R, IsFiniteSet(R), \A r \in R : r.created \in Nat, R # {},
           NEW s \in SortFunc(R)
    PROVE  /\ IsNth(GetLastDuration(s), IF Cardinality(R) > 2 THEN 2 ELSE 1, R)
           /\ IsNth(GetCurrentDuration(s), 1, R)
<1>1. PICK n : n = Len(s)
  OBVIOUS
<1>2. /\ s # <<>> /\ n = Cardinality(R)
      /\ s[n] \in R /\ Cardinality(Later(s[n], R)) < 1 /\ 1 <= Cardinality(NotBefore(s[n], R))
      /\ n > 2 => /\ s[n - 1] \in R /\ Cardinality(Later(s[n - 1], R)) < 2
                  /\ 2 <= Cardinality(NotBefore(s[n - 1], R))
  BY <1>1, SortedByAge
<1>3. GetCurrentDuration(s) = Duration(s[n])
  BY <1>1, <1>2 DEF GetCurrentDuration
<1>4. GetLastDuration(s) = Duration(s[IF n > 2 THEN n - 1 ELSE n])
  BY <1>1, <1>2 DEF GetLastDuration
<1>5. IsNth(Duration(s[n]), 1, R)
  BY <1>2 DEF IsNth
<1>6. n > 2 => IsNth(Duration(s[n - 1]), 2, R)
  BY <1>2 DEF IsNth
<1> QED
  BY <1>2, <1>3, <1>4, <1>5, <1>6

-----------------------------------------------------------------------------
(* The theorems about answers.                                             *)

\* The responses about a cronjob, when an answer is sent.
LEMMA SentResponses ==
    ASSUME StreamsInv, hpc = "send", NEW c \in cronjobs, NEW R, R = ResponsesOf(c)
    PROVE  /\ IsFiniteSet(R)
           /\ \A r \in R : r.created \in Nat /\ r.name \in JobsOf(c)
           /\ \A r, s \in R : r.name = s.name => r = s
           /\ JobsOf(c) \subseteq {r.name : r \in R}
           /\ answer[c] \in Answers(R)
<1>1. /\ TypeOK /\ OneOfEach(R, c)
      /\ JobsOf(c) \subseteq {r.name : r \in R} /\ answer[c] \in Answers(R)
  BY DEF StreamsInv, IInv, AnswerInv
<1>2. \A r \in R : r.name \in JobsOf(c) /\ r.created = mapped[r.name].created
  BY <1>1 DEF OneOfEach
<1>3. \A r \in R : r.name \in Jobs /\ mapped[r.name] \in Job
  BY <1>1, <1>2, FiledAreRead DEF TypeOK
<1>4. \A r \in R : r.created \in Nat
  BY <1>2, <1>3 DEF Job
<1>5. \A r, s \in R : r.name = s.name => r = s
  BY <1>1 DEF OneOfEach
<1> QED
  BY <1>1, <1>2, <1>3, <1>4, <1>5, ResponsesFinite

\* An answer has every job it is about, and each of them once, for any interleaving of
\* the goroutines that build it (sk8l.go:864-890).
THEOREM EveryJobOnce == Spec => []AnswerHasEveryJobOnce
<1>1. ASSUME StreamsInv PROVE AnswerHasEveryJobOnce
  <2> DEFINE Shown(c, j) == {i \in DOMAIN answer[c].jobs : answer[c].jobs[i].name = j}
             Wanted(c, j) == /\ mapped[j] # NoJob
                             /\ \/ \E i \in DOMAIN owners[j] : owners[j][i] = c
                                \/ method = "GetJobs" /\ owners[j] = <<>>
  <2> SUFFICES ASSUME hpc = "send", NEW c \in cronjobs, NEW j \in Jobs
               PROVE  Cardinality(Shown(c, j)) = IF Wanted(c, j) THEN 1 ELSE 0
    BY DEF AnswerHasEveryJobOnce
  <2>1. PICK R : R = ResponsesOf(c)
    OBVIOUS
  <2>2. /\ IsFiniteSet(R)
        /\ \A r \in R : r.name \in JobsOf(c)
        /\ \A r, s \in R : r.name = s.name => r = s
        /\ JobsOf(c) \subseteq {r.name : r \in R}
        /\ answer[c] \in Answers(R)
    BY <1>1, <2>1, SentResponses
  <2>3. PICK all \in Arrangements(R) : all = answer[c].jobs
    BY <2>2, AnswersAreArranged
  <2>4. /\ \A i, k \in DOMAIN all : all[i] = all[k] => i = k
        /\ R = {all[i] : i \in DOMAIN all}
    BY <2>2, ArrangementIsInjective
  <2>5. Wanted(c, j) <=> j \in JobsOf(c)
    <3>1. /\ DOMAIN mapped = Jobs /\ owners[j] \in Seq(STRING \ {NoCronjob})
          /\ method = "GetJobs" => c = NoCronjob
      BY <1>1 DEF StreamsInv, IInv, TypeOK, AnswerInv
    <3>2. \A i \in DOMAIN owners[j] : owners[j][i] # NoCronjob
      BY <3>1
    <3> QED
      BY <3>1, <3>2 DEF JobsOf, JobsForCronjob, Present
  <2>6. CASE j \in JobsOf(c)
    <3>1. PICK i \in DOMAIN all : all[i].name = j
      BY <2>2, <2>4, <2>6
    <3>2. Shown(c, j) = {i}
      BY <2>2, <2>3, <2>4, <3>1
    <3> QED
      BY <2>5, <2>6, <3>2, FS_Singleton
  <2>7. CASE j \notin JobsOf(c)
    <3>1. Shown(c, j) = {}
      BY <2>2, <2>3, <2>4, <2>7
    <3> QED
      BY <2>5, <2>7, <3>1, FS_EmptySet
  <2> QED
    BY <2>6, <2>7
<1> QED
  BY <1>1, AnswerInvariance, PTL

\* The durations of a cronjob are those of its newest jobs, however the jobs were
\* ordered when they were sorted (sk8l.go:891-907, 1172-1196).
THEOREM DurationsByAge == Spec => []DurationsAreByAge
<1>1. ASSUME StreamsInv PROVE DurationsAreByAge
  <2> SUFFICES ASSUME hpc = "send", method # "GetJobs", NEW c \in cronjobs, NEW R, NEW A,
                      R = ResponsesOf(c), A = {r \in R : r.active > 0}
               PROVE  /\ R # {} => IsNth(answer[c].last, IF Cardinality(R) > 2 THEN 2 ELSE 1, R)
                      /\ A # {} => IsNth(answer[c].current, 1, A)
    BY DEF DurationsAreByAge
  <2>1. IsFiniteSet(R) /\ (\A r \in R : r.created \in Nat) /\ answer[c] \in Answers(R)
    BY <1>1, SentResponses
  <2>2. PICK all \in SortFunc(R), running \in SortFunc(A) :
          answer[c] = CronJobResponse(all, running)
    BY <2>1 DEF Answers, CronJobResponses
  <2>3. /\ answer[c].last = GetLastDuration(all)
        /\ answer[c].current = GetCurrentDuration(running)
    BY <2>2 DEF CronJobResponse
  <2>4. IsFiniteSet(A) /\ \A r \in A : r.created \in Nat
    BY <2>1, FS_Subset
  <2>5. R # {} => IsNth(answer[c].last, IF Cardinality(R) > 2 THEN 2 ELSE 1, R)
    BY <2>1, <2>3, NewestDuration
  <2>6. A # {} => IsNth(answer[c].current, 1, A)
    BY <2>3, <2>4, NewestDuration
  <2> QED
    BY <2>5, <2>6
<1> QED
  BY <1>1, AnswerInvariance, PTL
=============================================================================
