------------------------------ MODULE Messages ------------------------------
(***************************************************************************)
(* What a client is told of a job and its pods: the message that           *)
(* buildJobResponse (src/sk8l.go) makes of the API objects with            *)
(* src/internal/mapper, while the job and its pods go on.  JobStatus keeps *)
(* of this what Streams needs; AgreesWithJobStatus checks that it does.    *)
(*                                                                         *)
(* A pointer is a sequence of one or no value, a time a number of seconds  *)
(* (0 is metav1.Time's zero), a formatted time a pointer to a time that is *)
(* not zero ("" is <<>>).  Of fields that are copied, the messages keep    *)
(* those by which parts of a message can disagree, and a few more.         *)
(***************************************************************************)
EXTENDS Integers, FiniteSets, SequencesExt

CONSTANTS Jobs,         \* the jobs of the cronjob: [template, spec], one of which runs
          Debuggers,    \* the ephemeral containers a user may add to a pod
          CronJobSpec,  \* the optional fields of the cronjob's spec
          MaxRestarts,  \* bound on the restarts of a container
          MaxTime       \* bound on the clock

VARIABLES
    job,   \* the stored job: its pod template, its spec and its status
    pods,  \* its pods, as stored
    now    \* the clock of the cluster, and of the process

vars == <<job, pods, now>>

Status == INSTANCE JobStatus

Kinds == {"ephemeral", "init", "main"}

Each(f(_), s) == [i \in DOMAIN s |-> f(s[i])]

\* The values of a sequence at the places P, in their order.
Place(P, k) == CHOOSE i \in P : Cardinality({j \in P : j <= i}) = k
At(s, P) == [k \in 1..Cardinality(P) |-> s[Place(P, k)]]

\* SelectSeq, by the places of what is selected.
Where(s, Test(_)) == At(s, {i \in DOMAIN s : Test(s[i])})

OrZero(pointer, zero) == IF pointer = <<>> THEN zero ELSE pointer[1]

-----------------------------------------------------------------------------
(* The types of the API objects, as far as src/ reads them.                *)

Pointer(S) == [1..0 -> S] \cup [1..1 -> S]

Time == Nat \ {0}

Timestamp == Pointer(Time)

StoredEnvVar == [name : STRING, value : Pointer(STRING)]

StoredContainer ==
    [name : STRING, command : Seq(STRING), env : Seq(StoredEnvVar),
     restartPolicy : Pointer(STRING)]

StoredPodSpec == [containers : [Kinds -> Seq(StoredContainer)], restartPolicy : STRING]

StoredContainerState ==
    [waiting : Pointer([reason : STRING]),
     running : Pointer([startedAt : Time]),
     terminated : Pointer([reason : STRING, startedAt : Time, finishedAt : Time])]

StoredContainerStatus ==
    [name : STRING, state : StoredContainerState, last : StoredContainerState,
     restarts : Nat, started : Pointer(BOOLEAN)]

StoredPod ==
    [spec : StoredPodSpec, phase : STRING, startTime : Timestamp,
     statuses : [Kinds -> Seq(StoredContainerStatus)]]

StoredJobSpec ==
    [parallelism : Pointer(Nat), completions : Pointer(Nat),
     activeDeadlineSeconds : Pointer(Nat), backoffLimit : Pointer(Nat),
     suspend : Pointer(BOOLEAN), completionMode : Pointer(STRING)]

StoredCondition == [type : STRING, status : STRING, lastTransitionTime : Time]

StoredJobStatus ==
    [active : Nat, succeeded : Nat, failed : Nat, ready : Pointer(Nat),
     terminating : Pointer(Nat), startTime : Timestamp, completionTime : Timestamp,
     conditions : Seq(StoredCondition)]

StoredJob ==
    [created : Time, template : StoredPodSpec, spec : StoredJobSpec,
     status : StoredJobStatus]

StoredCronJobSpec ==
    [schedule : STRING, timezone : Pointer(STRING), suspend : Pointer(BOOLEAN),
     successfulJobsHistoryLimit : Pointer(Nat), failedJobsHistoryLimit : Pointer(Nat),
     startingDeadlineSeconds : Pointer(Nat)]

ASSUME BoundsAssumption == MaxRestarts \in Nat /\ MaxTime \in Nat \ {0}

ASSUME ObjectsAssumption ==
    /\ Jobs \subseteq [template : StoredPodSpec, spec : StoredJobSpec]
    /\ Debuggers \subseteq StoredContainer
    /\ CronJobSpec \in StoredCronJobSpec

\* The texts that the code and the cluster write: of TLA+, for the provers.
Texts ==
    {"", "Pending", "Running", "Succeeded", "Failed", "Complete", "FailureTarget",
     "Suspended", "True", "False", "Completed", "Error", "OOMKilled",
     "PodInitializing", "CreateContainerConfigError", "CrashLoopBackOff"}

ASSUME TextsAssumption == Texts \subseteq STRING

-----------------------------------------------------------------------------
(* The types of the messages (src/protos).                                 *)

ContainerStateTerminatedResponse ==
    [reason : STRING, startedAt : Timestamp, finishedAt : Timestamp]

ContainerStateWaitingResponse == [reason : STRING]

ContainerStateRunningResponse == [startedAt : Timestamp]

ContainerStateResponse ==
    [waiting : Pointer(ContainerStateWaitingResponse),
     running : Pointer(ContainerStateRunningResponse),
     terminated : Pointer(ContainerStateTerminatedResponse)]

ContainerStatusResponse ==
    [name : STRING, state : ContainerStateResponse, lastState : ContainerStateResponse,
     restartCount : Nat, started : BOOLEAN]

TerminationReason ==
    [details : ContainerStateTerminatedResponse, container : STRING]

ContainerResponse ==
    [status : ContainerStatusResponse, phase : STRING, reason : Pointer(TerminationReason)]

TerminatedContainers ==
    [containers : [Kinds -> Seq(ContainerResponse)],
     reasons : Pointer(Seq(TerminationReason))]

PodStatusResponse ==
    [phase : STRING, startTime : Timestamp,
     statuses : [Kinds -> Seq(ContainerStatusResponse)]]

EnvVarResponse == [name : STRING, value : STRING]

ContainerSpecResponse ==
    [name : STRING, command : Seq(STRING), env : Seq(EnvVarResponse)]

PodSpecResponse ==
    [containers : [Kinds -> Seq(ContainerSpecResponse)], restartPolicy : STRING]

PodResponse ==
    [spec : PodSpecResponse, status : PodStatusResponse, phase : STRING,
     terminated : TerminatedContainers, failedContainers : TerminatedContainers,
     failed : BOOLEAN, reasons : Seq(TerminationReason), finishedAt : Timestamp]

JobConditionResponse ==
    [type : STRING, status : STRING, lastTransitionTime : Timestamp]

JobStatusResponse ==
    [active : Nat, succeeded : Nat, failed : Nat, startTime : Timestamp,
     completionTime : Timestamp, conditions : Seq(JobConditionResponse), ready : Nat]

JobSpecResponse ==
    [parallelism : Nat, completions : Nat, activeDeadlineSeconds : Nat,
     backoffLimit : Nat, suspend : BOOLEAN, completionMode : STRING]

JobCondition ==
    [type : STRING, status : STRING, lastTransitionTime : Timestamp]

CustomJobStatus ==
    [active : Nat, succeeded : Nat, failed : Nat, terminating : Nat, ready : Nat,
     startTime : Timestamp, completionTime : Timestamp,
     startTimeInS : Nat, completionTimeInS : Nat, conditions : Seq(JobCondition)]

JobResponse ==
    [created : Nat, durationInS : Nat, spec : JobSpecResponse,
     jobStatus : JobStatusResponse, status : CustomJobStatus,
     succeeded : BOOLEAN, failed : BOOLEAN,
     failureCondition : Pointer(JobConditionResponse),
     pods : Seq(PodResponse), reasons : Seq(TerminationReason), sidecar : BOOLEAN]

CronJobSpecResponse ==
    [schedule : STRING, timezone : STRING, suspend : BOOLEAN,
     successfulJobsHistoryLimit : Nat, failedJobsHistoryLimit : Nat,
     startingDeadlineSeconds : Nat]

\* A command: the words of it, which the code joins with blanks.
ContainerCommands == Seq(Seq(STRING))

CronjobResponse ==
    [commands : [Kinds -> ContainerCommands], definition : STRING, created : Nat,
     lastSuccessfulTime : Timestamp, lastScheduleTime : Timestamp, active : BOOLEAN,
     lastDuration : Nat, currentDuration : Nat, jobs : Seq(JobResponse),
     runningJobs : Seq(JobResponse), jobsPods : Seq(PodResponse),
     runningJobsPods : Seq(PodResponse), spec : CronJobSpecResponse, failed : BOOLEAN]

-----------------------------------------------------------------------------
(* The mappers.                                                            *)

TimeToString(t) == IF t = <<0>> THEN <<>> ELSE t

\* Of a pointer, like the mapper: nil to nil.
MapContainerStateTerminated(t) ==
    Each(LAMBDA s : [reason |-> s.reason,
                     startedAt |-> TimeToString(<<s.startedAt>>),
                     finishedAt |-> TimeToString(<<s.finishedAt>>)], t)

MapContainerState(s) ==
    [waiting |-> s.waiting,
     running |-> Each(LAMBDA r : [startedAt |-> TimeToString(<<r.startedAt>>)], s.running),
     terminated |-> MapContainerStateTerminated(s.terminated)]

MapContainerStatus(cs) ==
    [name |-> cs.name,
     state |-> MapContainerState(cs.state),
     lastState |-> MapContainerState(cs.last),
     restartCount |-> cs.restarts,
     started |-> OrZero(cs.started, FALSE)]

MapPodStatus(pod) ==
    [phase |-> pod.phase,
     startTime |-> TimeToString(pod.startTime),
     statuses |-> [kind \in Kinds |-> Each(MapContainerStatus, pod.statuses[kind])]]

\* A value that comes from a config map or a secret (valueFrom) is none.
MapEnvVars(envs) ==
    Each(LAMBDA e : [name |-> e.name, value |-> OrZero(e.value, "")], envs)

MapContainer(c) == [name |-> c.name, command |-> c.command, env |-> MapEnvVars(c.env)]

MapEphemeralContainer(c) == [name |-> c.name, command |-> c.command, env |-> <<>>]

MapPodSpec(spec) ==
    [containers |->
        [kind \in Kinds |->
            Each(LAMBDA c : IF kind = "ephemeral" THEN MapEphemeralContainer(c)
                            ELSE MapContainer(c),
                 spec.containers[kind])],
     restartPolicy |-> spec.restartPolicy]

MapJobCondition(c) ==
    [type |-> c.type, status |-> c.status,
     lastTransitionTime |-> TimeToString(<<c.lastTransitionTime>>)]

MapJobConditions(conditions) == Each(MapJobCondition, conditions)

MapJobStatus(status) ==
    [active |-> status.active, succeeded |-> status.succeeded, failed |-> status.failed,
     startTime |-> TimeToString(status.startTime),
     completionTime |-> TimeToString(status.completionTime),
     conditions |-> MapJobConditions(status.conditions),
     ready |-> OrZero(status.ready, 0)]

MapJobSpec(spec) ==
    [parallelism |-> OrZero(spec.parallelism, 0),
     completions |-> OrZero(spec.completions, 0),
     activeDeadlineSeconds |-> OrZero(spec.activeDeadlineSeconds, 0),
     backoffLimit |-> OrZero(spec.backoffLimit, 0),
     suspend |-> OrZero(spec.suspend, FALSE),
     completionMode |-> OrZero(spec.completionMode, "")]

MapCustomJobConditions(conditions) == Each(MapJobCondition, conditions)

\* With the times that buildJobResponse adds.
MapCustomJobStatus(status) ==
    [active |-> status.active, succeeded |-> status.succeeded, failed |-> status.failed,
     terminating |-> OrZero(status.terminating, 0), ready |-> OrZero(status.ready, 0),
     startTime |-> TimeToString(status.startTime),
     completionTime |-> TimeToString(status.completionTime),
     startTimeInS |-> OrZero(status.startTime, 0),
     completionTimeInS |-> OrZero(status.completionTime, 0),
     conditions |-> MapCustomJobConditions(status.conditions)]

MapCronJobSpec(spec) ==
    [schedule |-> spec.schedule, timezone |-> OrZero(spec.timezone, ""),
     suspend |-> OrZero(spec.suspend, FALSE),
     successfulJobsHistoryLimit |-> OrZero(spec.successfulJobsHistoryLimit, 0),
     failedJobsHistoryLimit |-> OrZero(spec.failedJobsHistoryLimit, 0),
     startingDeadlineSeconds |-> OrZero(spec.startingDeadlineSeconds, 0)]

-----------------------------------------------------------------------------
(* buildJobPodsResponses.                                                  *)

\* What a container's status gives: nothing, a container that has not started or
\* has ended, and for one of the two failures a reason with it.
ContainerResponseOf(pod, cs) ==
    LET reason(details) == <<[details |-> details, container |-> cs.name]>>
    IN  [status |-> MapContainerStatus(cs),
         phase |-> pod.phase,
         reason |->
            IF \E i \in DOMAIN cs.state.waiting :
                    cs.state.waiting[i].reason = "CreateContainerConfigError"
            THEN reason([reason |-> "CreateContainerConfigError", startedAt |-> <<>>,
                         finishedAt |-> TimeToString(pod.startTime)])
            ELSE IF \E i \in DOMAIN cs.state.terminated : cs.state.terminated[i].reason = "Error"
            THEN reason(MapContainerStateTerminated(cs.state.terminated)[1])
            ELSE <<>>]

NotRunning(cs) == cs.state.waiting # <<>> \/ cs.state.terminated # <<>>

CollectTerminatedContainers(pod, kind) ==
    Each(LAMBDA cs : ContainerResponseOf(pod, cs), Where(pod.statuses[kind], NotRunning))

\* Those of them that were given a reason.
CollectFailedContainers(pod, kind) ==
    Where(Each(LAMBDA cs : ContainerResponseOf(pod, cs), pod.statuses[kind]),
          LAMBDA c : c.reason # <<>>)

\* Mutant: the last call's reasons are those of the pod.
TerminationReasonsMutLastKind(pod) ==
    LET of(kind) == Each(LAMBDA c : c.reason[1], CollectFailedContainers(pod, kind))
    IN  of("main")

\* The reasons of all kinds are gathered in one list, in the order of the calls.
TerminationReasons(pod) ==
    LET of(kind) == Each(LAMBDA c : c.reason[1], CollectFailedContainers(pod, kind))
    IN  of("ephemeral") \o of("init") \o of("main")

TerminatedContainersResponse(pod) ==
    [containers |-> [kind \in Kinds |-> CollectTerminatedContainers(pod, kind)],
     reasons |-> <<>>]

FailedContainersResponse(pod) ==
    [containers |-> [kind \in Kinds |-> CollectFailedContainers(pod, kind)],
     reasons |-> <<TerminationReasons(pod)>>]

Latest(times) ==
    IF times = {} THEN <<>> ELSE <<CHOOSE t \in times : \A s \in times : s <= t>>

\* When the last of the main containers failed: one that completed gives no time.
FinishedAt(pod) ==
    LET failed == CollectFailedContainers(pod, "main")
    IN  Latest(UNION {{failed[i].reason[1].details.finishedAt[k] :
                          k \in DOMAIN failed[i].reason[1].details.finishedAt} :
                              i \in DOMAIN failed})

PodResponseOf(pod) ==
    [spec |-> MapPodSpec(pod.spec),
     status |-> MapPodStatus(pod),
     phase |-> pod.phase,
     terminated |-> TerminatedContainersResponse(pod),
     failedContainers |-> FailedContainersResponse(pod),
     failed |-> TerminationReasons(pod) # <<>>,
     reasons |-> TerminationReasons(pod),
     finishedAt |-> FinishedAt(pod)]

BuildJobPodsResponses(stored) == Each(PodResponseOf, stored)

-----------------------------------------------------------------------------
(* buildJobResponse.                                                       *)

\* Mutant: the condition that announces the failure counts as well.
FailureConditionMutTarget(status) ==
    LET failed == Where(status.conditions, LAMBDA c : c.type \in {"Failed", "FailureTarget"})
    IN  IF failed = <<>> THEN <<>> ELSE <<MapJobCondition(failed[1])>>

\* jobFailed: the first condition of the type counts, and so does each pod.
FailureCondition(status) ==
    LET failed == Where(status.conditions, LAMBDA c : c.type = "Failed")
    IN  IF failed = <<>> THEN <<>> ELSE <<MapJobCondition(failed[1])>>

JobFailed(status, responses) ==
    FailureCondition(status) # <<>> \/ \E i \in DOMAIN responses : responses[i].failed

JobWithSidecarContainer(spec) ==
    \E i \in DOMAIN spec.containers["init"] :
        spec.containers["init"][i].restartPolicy = <<"Always">>

\* Mutant: the time of completion is taken without asking whether there is one.
ToDurationInSMutNoCompletion(status, failed) ==
    IF status.startTime = <<>> THEN 0
    ELSE OrZero(status.completionTime, 0) - status.startTime[1]

\* Mutant: a job that failed is measured like one that runs.
ToDurationInSMutNoCondition(status, failed) ==
    IF status.startTime = <<>> THEN 0
    ELSE OrZero(status.completionTime, now) - status.startTime[1]

ToDurationInS(status, failed) ==
    IF status.startTime = <<>> THEN 0
    ELSE LET condition == FailureCondition(status)
             transition == IF condition # <<>> /\ failed THEN condition[1].lastTransitionTime
                           ELSE <<>>
         IN  OrZero(transition, OrZero(status.completionTime, now)) - status.startTime[1]

\* The seconds that the message has for a job and its pods.
DurationInS(stored, found) ==
    ToDurationInS(stored.status, JobFailed(stored.status, BuildJobPodsResponses(found)))

BuildJobResponse(stored, found) ==
    LET responses == BuildJobPodsResponses(found)
        failed == JobFailed(stored.status, responses)
    IN  [created |-> stored.created,
         durationInS |-> DurationInS(stored, found),
         spec |-> MapJobSpec(stored.spec),
         jobStatus |-> MapJobStatus(stored.status),
         status |-> MapCustomJobStatus(stored.status),
         succeeded |-> stored.status.completionTime # <<>>,
         failed |-> failed,
         failureCondition |-> FailureCondition(stored.status),
         pods |-> responses,
         reasons |-> FlattenSeq(Each(LAMBDA r : r.reasons, responses)),
         sidecar |-> JobWithSidecarContainer(stored.template)]

-----------------------------------------------------------------------------
(* cronJobResponse.                                                        *)

\* One command for each container of the template.
BuildCronJobCommand(spec) == [kind \in Kinds |-> Each(LAMBDA c : c.command, spec.containers[kind])]

LastDuration(jobs) ==
    IF jobs = <<>> THEN 0
    ELSE jobs[IF Len(jobs) > 2 THEN Len(jobs) - 1 ELSE Len(jobs)].durationInS

CurrentDuration(running) == IF running = <<>> THEN 0 ELSE running[Len(running)].durationInS

\* Of jobs that are sorted.
BuildCronJobResponse(cronjob, jobs) ==
    LET running == Where(jobs, LAMBDA r : r.status.active > 0)
        podsOf == FlattenSeq(Each(LAMBDA r : r.pods, jobs))
    IN  [commands |-> BuildCronJobCommand(cronjob.template),
         definition |-> cronjob.spec.schedule,
         created |-> cronjob.created,
         lastSuccessfulTime |-> cronjob.lastSuccessfulTime,
         lastScheduleTime |-> cronjob.lastScheduleTime,
         active |-> cronjob.active > 0,
         lastDuration |-> LastDuration(jobs),
         currentDuration |-> CurrentDuration(running),
         jobs |-> jobs,
         runningJobs |-> running,
         jobsPods |-> podsOf,
         runningJobsPods |-> Where(podsOf, LAMBDA p : p.phase = "Running"),
         spec |-> MapCronJobSpec(cronjob.spec),
         failed |-> \E i \in DOMAIN jobs : jobs[i].failed]

Response == BuildJobResponse(job, pods)

\* The cronjob of the job, which has no other.
CronjobMessage ==
    BuildCronJobResponse([template |-> job.template,
                          spec |-> CronJobSpec,
                          created |-> job.created,
                          lastSuccessfulTime |-> job.status.completionTime,
                          lastScheduleTime |-> <<job.created>>,
                          active |-> job.status.active],
                         <<Response>>)

-----------------------------------------------------------------------------
(* The cluster: the job controller and the kubelet, which src/ only sees by *)
(* the objects they leave.                                                 *)

NoState == [waiting |-> <<>>, running |-> <<>>, terminated |-> <<>>]

Waiting(reason) == [NoState EXCEPT !.waiting = <<[reason |-> reason]>>]

NewContainerStatus(c) ==
    [name |-> c.name, state |-> Waiting("PodInitializing"), last |-> NoState,
     restarts |-> 0, started |-> <<>>]

Condition(type, status, time) ==
    [type |-> type, status |-> status, lastTransitionTime |-> time]

HasCondition(type, status) ==
    \E i \in DOMAIN job.status.conditions :
        job.status.conditions[i].type = type /\ job.status.conditions[i].status = status

Finished == HasCondition("Complete", "True") \/ HasCondition("Failed", "True")

Init ==
    \E j \in Jobs :
        /\ job = [created |-> 1,
                  template |-> j.template,
                  spec |-> j.spec,
                  status |-> [active |-> 0, succeeded |-> 0, failed |-> 0,
                              ready |-> <<>>, terminating |-> <<>>,
                              startTime |-> <<>>, completionTime |-> <<>>,
                              conditions |-> <<>>]]
        /\ pods = <<>>
        /\ now = 1

Started == job.status.startTime # <<>>

\* The list that a job is taken from may be seconds old (store.go:125): when the stored
\* job shows what its controller did, it may be a while since.
Since ==
    {time \in job.created..now :
        /\ Started => job.status.startTime[1] <= time
        /\ \A i \in DOMAIN job.status.conditions :
              job.status.conditions[i].lastTransitionTime <= time}

\* Also after a suspension: then the times start anew.
StartJob(time) ==
    /\ ~Started
    /\ job' = [job EXCEPT
                  !.spec.suspend = <<FALSE>>,
                  !.status.startTime = <<time>>,
                  !.status.conditions =
                      Each(LAMBDA c : IF c.type = "Suspended"
                                      THEN Condition(c.type, "False", time) ELSE c, @)]
    /\ UNCHANGED <<pods, now>>

\* A pod that has not ended is deleted.  Bounded: a job is suspended once.
SuspendJob(time) ==
    /\ Started
    /\ job.status.conditions = <<>>
    /\ job' = [job EXCEPT
                  !.spec.suspend = <<TRUE>>,
                  !.status.startTime = <<>>,
                  !.status.active = 0,
                  !.status.conditions = <<Condition("Suspended", "True", time)>>]
    /\ pods' = Where(pods, LAMBDA p : p.phase \in {"Succeeded", "Failed"})
    /\ UNCHANGED now

\* One at a time (parallelism), until one succeeds or the job is given up.
CreatePod ==
    /\ Started
    /\ job.status.active = 0
    /\ job.status.succeeded = 0
    /\ job.status.failed <= OrZero(job.spec.backoffLimit, 0)
    /\ pods' = Append(pods, [spec |-> job.template, phase |-> "Pending", startTime |-> <<>>,
                             statuses |-> [kind \in Kinds |-> <<>>]])
    /\ job' = [job EXCEPT !.status.active = 1]
    /\ UNCHANGED now

AckPod(p) ==
    /\ pods[p].startTime = <<>>
    /\ pods' = [pods EXCEPT ![p] =
                   [pods[p] EXCEPT
                      !.startTime = <<now>>,
                      !.statuses =
                          [kind \in Kinds |-> Each(NewContainerStatus, pods[p].spec.containers[kind])]]]
    /\ UNCHANGED <<job, now>>

Ended(p) == pods[p].phase \in {"Succeeded", "Failed"}

Sidecar(c) == c.restartPolicy = <<"Always">>

Completed(cs) == \E i \in DOMAIN cs.state.terminated : cs.state.terminated[i].reason = "Completed"

IsRunning(cs) == cs.state.running # <<>>

\* The init containers one after the other, a sidecar until it runs, then the rest.
MayStart(p, kind, i) ==
    \A k \in DOMAIN pods[p].statuses["init"] :
        k < i \/ kind # "init" =>
            LET cs == pods[p].statuses["init"][k]
            IN  IF Sidecar(pods[p].spec.containers["init"][k]) THEN IsRunning(cs)
                ELSE Completed(cs)

StartContainer(p, kind, i) ==
    LET cs == pods[p].statuses[kind][i]
    IN  /\ ~Ended(p)
        /\ cs.state.waiting # <<>>
        /\ MayStart(p, kind, i)
        /\ pods' = [pods EXCEPT ![p] =
                       [pods[p] EXCEPT
                          !.phase = IF kind = "main" THEN "Running" ELSE pods[p].phase,
                          !.statuses[kind][i] =
                              [cs EXCEPT
                                 !.started = <<TRUE>>,
                                 !.state = [NoState EXCEPT !.running = <<[startedAt |-> now]>>]]]]
        /\ UNCHANGED <<job, now>>

\* A config map or a secret is missing; it may come to be.
RefuseContainer(p, kind, i) ==
    /\ ~Ended(p)
    /\ pods[p].statuses[kind][i].state = Waiting("PodInitializing")
    /\ MayStart(p, kind, i)
    /\ pods' = [pods EXCEPT ![p].statuses[kind][i].state = Waiting("CreateContainerConfigError")]
    /\ UNCHANGED <<job, now>>

AllMainEnded(p) ==
    \A i \in DOMAIN pods[p].statuses["main"] :
        pods[p].statuses["main"][i].state.terminated # <<>>

\* A sidecar is stopped when the main containers have ended.
EndContainer(p, kind, i, reason) ==
    LET cs == pods[p].statuses[kind][i]
    IN  /\ IsRunning(cs)
        /\ Sidecar(pods[p].spec.containers[kind][i]) => AllMainEnded(p)
        /\ pods' = [pods EXCEPT
                       ![p].statuses[kind][i].state =
                           [NoState EXCEPT
                              !.terminated = <<[reason |-> reason,
                                                startedAt |-> cs.state.running[1].startedAt,
                                                finishedAt |-> now]>>]]
        /\ UNCHANGED <<job, now>>

MayRestart(p, kind, i) ==
    LET cs == pods[p].statuses[kind][i]
    IN  /\ pods[p].spec.restartPolicy = "OnFailure"
        /\ kind # "ephemeral"
        /\ ~Sidecar(pods[p].spec.containers[kind][i])
        /\ cs.state.terminated # <<>>
        /\ ~Completed(cs)
        /\ cs.restarts < MaxRestarts

RestartContainer(p, kind, i) ==
    LET cs == pods[p].statuses[kind][i]
    IN  /\ ~Ended(p)
        /\ MayRestart(p, kind, i)
        /\ pods' = [pods EXCEPT ![p].statuses[kind][i] =
                       [cs EXCEPT !.last = cs.state,
                                  !.state = Waiting("CrashLoopBackOff"),
                                  !.restarts = cs.restarts + 1,
                                  !.started = <<FALSE>>]]
        /\ UNCHANGED <<job, now>>

\* kubectl debug.  Bounded: one in the job's life.
Debug(p, c) ==
    /\ pods[p].phase = "Running"
    /\ \A q \in DOMAIN pods : pods[q].spec.containers["ephemeral"] = <<>>
    /\ pods' = [pods EXCEPT ![p] =
                   [pods[p] EXCEPT !.spec.containers["ephemeral"] = <<c>>,
                                   !.statuses["ephemeral"] = <<NewContainerStatus(c)>>]]
    /\ UNCHANGED <<job, now>>

\* The pod ends by its main containers, or by an init container that failed; the
\* job's controller counts it.
EndPod(p) ==
    LET main == pods[p].statuses["main"]
        init == pods[p].statuses["init"]
        initFailed == \E i \in DOMAIN init :
                         /\ ~Sidecar(pods[p].spec.containers["init"][i])
                         /\ init[i].state.terminated # <<>>
                         /\ ~Completed(init[i])
        succeeded == \A i \in DOMAIN main : Completed(main[i])
    IN  /\ ~Ended(p)
        /\ main # <<>>
        /\ AllMainEnded(p) \/ initFailed
        /\ \A kind \in Kinds : \A i \in DOMAIN pods[p].statuses[kind] :
              ~MayRestart(p, kind, i) /\ ~IsRunning(pods[p].statuses[kind][i])
        /\ pods' = [pods EXCEPT ![p].phase = IF succeeded THEN "Succeeded" ELSE "Failed"]
        /\ job' = [job EXCEPT !.status.active = 0,
                              !.status.succeeded = IF succeeded THEN @ + 1 ELSE @,
                              !.status.failed = IF succeeded THEN @ ELSE @ + 1]
        /\ UNCHANGED now

CompleteJob(time) ==
    /\ job.status.succeeded > 0
    /\ Started
    /\ ~Finished
    /\ job' = [job EXCEPT !.status.completionTime = <<time>>,
                          !.status.conditions = Append(@, Condition("Complete", "True", time))]
    /\ UNCHANGED <<pods, now>>

\* The job is given up after too many pods (backoffLimit), and said to be failed when
\* its pods are gone or have ended.
TargetFailure(time) ==
    /\ Started
    /\ ~HasCondition("FailureTarget", "True")
    /\ job.status.failed > OrZero(job.spec.backoffLimit, 0)
    /\ job' = [job EXCEPT !.status.conditions =
                              Append(@, Condition("FailureTarget", "True", time))]
    /\ UNCHANGED <<pods, now>>

FailJob(time) ==
    /\ HasCondition("FailureTarget", "True")
    /\ ~Finished
    /\ job' = [job EXCEPT !.status.conditions = Append(@, Condition("Failed", "True", time))]
    /\ UNCHANGED <<pods, now>>

Tick ==
    /\ now < MaxTime
    /\ now' = now + 1
    /\ UNCHANGED <<job, pods>>

ContainerStep(p, kind, i) ==
    \/ StartContainer(p, kind, i)
    \/ RefuseContainer(p, kind, i)
    \/ \E reason \in {"Completed", "Error", "OOMKilled"} : EndContainer(p, kind, i, reason)
    \/ RestartContainer(p, kind, i)

PodStep(p) ==
    \/ AckPod(p)
    \/ EndPod(p)
    \/ \E c \in Debuggers : Debug(p, c)
    \/ \E kind \in Kinds : \E i \in DOMAIN pods[p].statuses[kind] : ContainerStep(p, kind, i)

JobStep(time) ==
    \/ StartJob(time)
    \/ SuspendJob(time)
    \/ CompleteJob(time)
    \/ TargetFailure(time)
    \/ FailJob(time)

Next ==
    \/ \E time \in Since : JobStep(time)
    \/ CreatePod
    \/ \E p \in DOMAIN pods : PodStep(p)
    \/ Tick

Spec == Init /\ [][Next]_vars

-----------------------------------------------------------------------------
(* What JobStatus keeps of the same objects.                               *)

\* A running container has no reason; JobStatus does not ask for one.
AbstractStatus(cs) ==
    IF cs.state.waiting # <<>>
    THEN [state |-> "waiting", reason |-> cs.state.waiting[1].reason]
    ELSE IF cs.state.terminated # <<>>
    THEN [state |-> "terminated", reason |-> cs.state.terminated[1].reason]
    ELSE [state |-> "running", reason |-> ""]

AbstractPod(pod) ==
    [phase |-> pod.phase,
     statuses |-> [kind \in Kinds |-> Each(AbstractStatus, pod.statuses[kind])]]

AbstractJob ==
    [created |-> job.created,
     started |-> job.status.startTime # <<>>,
     active |-> job.status.active,
     completed |-> job.status.completionTime # <<>>,
     conditions |-> Each(LAMBDA c : c.type, job.status.conditions)]

AbstractResponse == Status!BuildJobResponse("job", AbstractJob, Each(AbstractPod, pods))

\* The seconds of a duration that JobStatus gives by where it ends.
Seconds(duration) ==
    CASE duration = Status!NoTime -> 0
      [] duration = "now" -> now - job.status.startTime[1]
      [] duration = "completion" -> job.status.completionTime[1] - job.status.startTime[1]
      [] duration = "condition" ->
            Response.failureCondition[1].lastTransitionTime[1] - job.status.startTime[1]

-----------------------------------------------------------------------------
(* Properties.                                                             *)

\* The objects have the types of the API, and every message made of them the type
\* that src/protos gives it, although any optional field may be nil: a count is a
\* number, a time is one or none.
TypeOK ==
    /\ job \in StoredJob
    /\ pods \in Seq(StoredPod)
    /\ now \in 1..MaxTime
    /\ CronjobMessage \in CronjobResponse

\* What ends a job comes after its start, and a job that waits (again) for its start
\* has not ended.  Completion has a time and a condition, or neither.
JobStatusInv(status, time) ==
    LET started == status.startTime # <<>>
        has(type) == \E i \in DOMAIN status.conditions : status.conditions[i].type = type
    IN  /\ started => status.startTime[1] <= time
        /\ (status.completionTime # <<>>) = has("Complete")
        /\ status.completionTime # <<>> => /\ started
                                           /\ status.startTime[1] <= status.completionTime[1]
        /\ \A i \in DOMAIN status.conditions :
              LET c == status.conditions[i]
              IN  c.type \in {"Complete", "FailureTarget", "Failed"} =>
                    /\ c.status = "True"
                    /\ started /\ status.startTime[1] <= c.lastTransitionTime

JobInv == JobStatusInv(job.status, now)

\* A pod has no container before the kubelet gave it a start, and no container has
\* ended that waits.
PodInv(pod) ==
    /\ pod.startTime = <<>> =>
          /\ pod.phase = "Pending"
          /\ \A kind \in Kinds : pod.statuses[kind] = <<>>
    /\ \A kind \in Kinds : \A i \in DOMAIN pod.statuses[kind] :
          LET state == pod.statuses[kind][i].state
          IN  state.waiting = <<>> \/ state.terminated = <<>>

PodsInv == \A p \in DOMAIN pods : PodInv(pods[p])

IInv == TypeOK /\ JobInv /\ PodsInv

\* The message that is built here field by field says of the job and of its cronjob
\* what the few fields of JobStatus say, from which the streams and the metrics are
\* derived: buildJobResponse and cronJobResponse agree with their abstraction.
AgreesWithJobStatus ==
    LET message == CronjobMessage
        response == message.jobs[1]
        abstract == AbstractResponse
    IN  /\ response.succeeded = abstract.succeeded
        /\ response.failed = abstract.failed
        /\ message.failed = abstract.failed
        /\ (response.failureCondition # <<>>) = abstract.condition
        /\ response.durationInS = Seconds(abstract.duration)
        /\ {response.reasons[i].details.reason : i \in DOMAIN response.reasons}
              = abstract.reasons
        /\ {i \in DOMAIN response.pods : response.pods[i].phase = "Running"}
              = abstract.running
        /\ \E summary \in Status!CronJobResponses({abstract}) :
              /\ message.lastDuration = Seconds(summary.last.until)
              /\ message.currentDuration = Seconds(summary.current.until)

FailedStatus(status) ==
    \/ \E i \in DOMAIN status.state.waiting :
          status.state.waiting[i].reason = "CreateContainerConfigError"
    \/ \E i \in DOMAIN status.state.terminated : status.state.terminated[i].reason = "Error"

\* A pod with a finishedAt has a failed main container, and none that ended later: a
\* container that waits for its configuration counts as ended when the pod started.
FinishedAtIsTheLast(pod) ==
    LET failed == pod.failedContainers.containers["main"]
    IN  /\ (pod.finishedAt # <<>>) = (failed # <<>>)
        /\ \A i \in DOMAIN failed :
              LET ended == failed[i].status.state.terminated
              IN  ended # <<>> => ended[1].finishedAt[1] <= pod.finishedAt[1]

\* A pod's message does not contradict itself.  It is failed exactly when a container
\* of any kind is, by the statuses of the same message; each such container has one
\* reason, in the pod's list, in its failed containers and in the job's list, in the
\* same order, and the finish time covers them all.  Three calls append to one list of
\* reasons in terminatedAndFailedContainersResponses, and the times are taken from it.
FailureIsExplained ==
    LET response == Response
        failedOf(pod, kind) == Where(pod.status.statuses[kind], FailedStatus)
        names(pod) == Each(LAMBDA cs : cs.name,
                           failedOf(pod, "ephemeral") \o failedOf(pod, "init")
                               \o failedOf(pod, "main"))
    IN  /\ response.reasons = FlattenSeq(Each(LAMBDA pod : pod.reasons, response.pods))
        /\ \A pod \in Range(response.pods) :
              /\ Each(LAMBDA r : r.container, pod.reasons) = names(pod)
              /\ pod.failed = (names(pod) # <<>>)
              /\ pod.failedContainers.reasons = <<pod.reasons>>
              /\ \A kind \in Kinds :
                    Each(LAMBDA c : c.status, pod.failedContainers.containers[kind])
                        = failedOf(pod, kind)
              /\ FinishedAtIsTheLast(pod)

\* The duration of a job never shrinks before the step that shows its end, which may take it
\* back, to what the job took, and never lengthens it; from then on it stands still,
\* although a failed job has no CompletionTime and toDuration measures such a job up to
\* now.  A suspension starts the job anew.
DurationStandsStill ==
    [][LET before == DurationInS(job, pods)
           after == DurationInS(job, pods)'
       IN  job'.status.startTime = job.status.startTime =>
             IF Finished THEN after = before
             ELSE IF Finished' THEN after <= before
             ELSE after >= before]_vars
=============================================================================
