----------------------------- MODULE JobStatus -----------------------------
(***************************************************************************)
(* What src/sk8l.go makes of a job and its pods: failed or not, succeeded  *)
(* or not, how long it took; and what it makes of a cronjob's jobs.  Pure  *)
(* functions of API objects, of which only what decides is kept:           *)
(*                                                                         *)
(*   job       [created, started, active, completed, conditions]: the time *)
(*             of creation, whether Status.StartTime and CompletionTime    *)
(*             are set, Status.Active, the types of Status.Conditions      *)
(*   pod       [phase, statuses]: Status.Phase and the container statuses  *)
(*             of the ephemeral, init and main containers                  *)
(*   status    [state, reason] of one container                            *)
(*                                                                         *)
(* A duration is given by where it ends (NoTime without a StartTime): a    *)
(* job that is measured up to "now" is one whose duration grows.           *)
(***************************************************************************)
EXTENDS Naturals, Sequences, FiniteSets

ContainerKinds == {"ephemeral", "init", "main"}

NoTime == "none"

-----------------------------------------------------------------------------
(* Pods.                                                                   *)

\* collectTerminatedAndFailedContainers: the two ways to be a failed container.
\* A container that was killed for its memory (OOMKilled) is none.
FailedContainer(status) ==
    \/ status.state = "waiting" /\ status.reason = "CreateContainerConfigError"
    \/ status.state = "terminated" /\ status.reason = "Error"

\* TerminationReasons, over the three kinds of containers.
TerminationReasons(pod) ==
    UNION {{pod.statuses[kind][i].reason :
                i \in {i \in DOMAIN pod.statuses[kind] : FailedContainer(pod.statuses[kind][i])}}
           : kind \in ContainerKinds}

PodResponse(pod) ==
    [phase |-> pod.phase,
     failed |-> TerminationReasons(pod) # {},
     reasons |-> TerminationReasons(pod)]

BuildJobPodsResponses(pods) == [i \in DOMAIN pods |-> PodResponse(pods[i])]

-----------------------------------------------------------------------------
(* Jobs.                                                                   *)

FailureCondition(job) == "Failed" \in {job.conditions[i] : i \in DOMAIN job.conditions}

\* The condition's type counts, whatever its Status; and so does each pod, also
\* one that another pod made up for.
JobFailed(job, responses) ==
    \/ FailureCondition(job)
    \/ \E i \in DOMAIN responses : responses[i].failed

JobSucceeded(job) == job.completed

\* Mutant: the failure condition is not looked at.
ToDurationMutNoCondition(job, failed) ==
    IF ~job.started THEN NoTime ELSE IF job.completed THEN "completion" ELSE "now"

\* toDuration, toDurationInS
ToDuration(job, failed) ==
    CASE ~job.started -> NoTime
      [] job.started /\ failed /\ FailureCondition(job) -> "condition"
      [] job.started /\ ~(failed /\ FailureCondition(job)) ->
            IF job.completed THEN "completion" ELSE "now"

BuildJobResponse(name, job, pods) ==
    LET responses == BuildJobPodsResponses(pods)
        failed == JobFailed(job, responses)
    IN  [name |-> name,
         created |-> job.created,
         active |-> job.active,
         succeeded |-> JobSucceeded(job),
         failed |-> failed,
         condition |-> FailureCondition(job),
         duration |-> ToDuration(job, failed),
         reasons |-> UNION {responses[i].reasons : i \in DOMAIN responses},
         running |-> {i \in DOMAIN responses : responses[i].phase = "Running"}]

-----------------------------------------------------------------------------
(* Cronjobs.                                                               *)

\* FindJobsMapped files a job under the name of each of its owners, of any kind.
JobsForCronjob(jobs, owners, cronjob) ==
    {j \in jobs : \E i \in DOMAIN owners[j] : owners[j][i] = cronjob}

Arrangements(R) == {s \in [1..Cardinality(R) -> R] : \A r \in R : \E i \in DOMAIN s : s[i] = r}

\* Mutant: the responses are left in the order their goroutines ended in.
SortFuncMutUnsorted(R) == Arrangements(R)

\* slices.SortFunc by creation time, of responses in any order: those created in
\* the same second may come out either way.
SortFunc(R) ==
    {s \in Arrangements(R) : \A i, k \in DOMAIN s : i < k => s[i].created <= s[k].created}

Duration(response) == [job |-> response.name, until |-> response.duration]

NoDuration == [job |-> "", until |-> NoTime]

\* The last but one of more than two jobs, and else the last.
GetLastDuration(sorted) ==
    IF sorted = <<>> THEN NoDuration
    ELSE Duration(sorted[IF Len(sorted) > 2 THEN Len(sorted) - 1 ELSE Len(sorted)])

GetCurrentDuration(sorted) ==
    IF sorted = <<>> THEN NoDuration ELSE Duration(sorted[Len(sorted)])

CronJobResponse(all, running) ==
    [jobs |-> all,
     failed |-> \E i \in DOMAIN all : all[i].failed,
     last |-> GetLastDuration(all),
     current |-> GetCurrentDuration(running)]

\* allAndRunningJobsAnPods sorts all jobs and, apart from them, the running ones.
CronJobResponses(R) ==
    {CronJobResponse(all, running) :
        all \in SortFunc(R), running \in SortFunc({r \in R : r.active > 0})}
=============================================================================
