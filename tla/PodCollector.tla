---------------------------- MODULE PodCollector ----------------------------
(***************************************************************************)
(* collectPods of src/sk8l.go and its reader FindJobPodsForJob of          *)
(* src/internal/store/store.go.  The collector appends every version of a  *)
(* pod that it hears of, deleted ones included, to the list of the pod's   *)
(* job ("jobs_pods_for_job_<job>"); the reader shows one version per pod,  *)
(* the last one in the order of the resourceVersion strings.               *)
(***************************************************************************)
EXTENDS WatchLoop

CONSTANTS JobOf,      \* the job-name label of each pod
          RVBase,     \* resourceVersion of the cluster before its first write
          MaxFaults,  \* bound on the number of failing DB operations
          MaxOpens    \* bound on the number of watches: each adds to the lists

ASSUME JobOfAssumption == DOMAIN JobOf = Names
ASSUME BoundsAssumption == RVBase \in Nat /\ MaxFaults \in Nat /\ MaxOpens \in Nat

VARIABLES
    hist,     \* the stored versions of each pod, in list order
    pending,  \* the versions of each pod without a StartTime (history)
    tainted,  \* pods about which a DB fault lost something in this watch (history)
    faults,   \* number of DB faults so far
    opens     \* number of watches opened so far

podVars == <<hist, faults>>

vars == <<clusterVars, loopVars, podVars, pending, tainted, opens>>

TypeOK ==
    /\ ClusterTypeOK
    /\ LoopTypeOK
    /\ hist \in [Names -> Seq(Nat)]
    /\ pending \in [Names -> SUBSET Nat]
    /\ tainted \subseteq Names
    /\ faults \in 0..MaxFaults
    /\ opens \in 0..MaxOpens

Init ==
    /\ ClusterInit
    /\ LoopInit
    /\ hist = [n \in Names |-> <<>>]
    /\ pending = [n \in Names |-> {}]
    /\ tainted = {}
    /\ faults = 0
    /\ opens = 0

-----------------------------------------------------------------------------
(* Pods.                                                                   *)

\* A job's pods have generated names, which are never used again.  The writes
\* that bind a pod to a node are not told apart from its creation.
CreatePod(n) ==
    /\ live[n] = 0 /\ died[n] = 0
    /\ Put(n)
    /\ pending' = [pending EXCEPT ![n] = {rv + 1}]

\* The kubelet sets StartTime with its first write to a pod.
ModifyPod(n) ==
    /\ live[n] # 0
    /\ Put(n)
    /\ UNCHANGED pending

\* The DELETED event has the last state of the pod, started or not.
DeletePod(n) ==
    /\ Delete(n)
    /\ pending' = IF live[n] \in pending[n]
                  THEN [pending EXCEPT ![n] = @ \cup {rv + 1}] ELSE pending

PodNext ==
    \/ \E n \in Names : CreatePod(n) \/ ModifyPod(n) \/ DeletePod(n)
    \/ EndWatch /\ UNCHANGED pending

-----------------------------------------------------------------------------
(* The collector.                                                          *)

DBFault ==
    /\ faults < MaxFaults
    /\ faults' = faults + 1

Open ==
    /\ opens < MaxOpens
    /\ opens' = opens + 1
    /\ OpenWatch
    /\ tainted' = {}
    /\ UNCHANGED <<podVars, pending>>

SkipEvent ==
    /\ chan # <<>>
    /\ Head(chan).type = "ERROR"
    /\ Receive
    /\ UNCHANGED <<podVars, pending, tainted, opens>>

\* Mutant: a DELETED event drops its pod, as it does from the other lists.
HandlePodEventMutDropsDeleted(ev) ==
    hist' = [hist EXCEPT ![ev.name] =
                IF ev.type = "DELETED" THEN <<>> ELSE Append(@, ev.ver)]

\* Whatever is stored of the pod, and whatever the event's type.
UpdateStoredPodList(stored, ev) == Append(stored, ev.ver)

\* The pod is appended to the list of its job, which may be missing.
HandlePodEvent(ev) == hist' = [hist EXCEPT ![ev.name] = UpdateStoredPodList(@, ev)]

ApplyEvent ==
    /\ chan # <<>>
    /\ Head(chan).type # "ERROR"
    /\ HandlePodEvent(Head(chan))
    /\ Receive
    /\ tainted' = tainted \ {Head(chan).name}
    /\ UNCHANGED <<pending, faults, opens>>

\* DB.Update fails, for instance because the list outgrew a transaction.
LoseUpdate ==
    /\ chan # <<>>
    /\ Head(chan).type # "ERROR"
    /\ Receive
    /\ DBFault
    /\ tainted' = tainted \cup {Head(chan).name}
    /\ UNCHANGED <<hist, pending, opens>>

\* txn.Get fails: the event's pod becomes all that the list of its job holds.
ReadFault ==
    /\ chan # <<>>
    /\ LET ev == Head(chan)
           job == {m \in Names : JobOf[m] = JobOf[ev.name]}
       IN /\ ev.type # "ERROR"
          /\ hist' = [m \in Names |-> IF m = ev.name THEN <<ev.ver>>
                                      ELSE IF m \in job THEN <<>> ELSE hist[m]]
          /\ tainted' = (tainted \cup job) \ {ev.name}
    /\ Receive
    /\ DBFault
    /\ UNCHANGED <<pending, opens>>

RestartContainer ==
    /\ RestartProcess
    /\ UNCHANGED <<podVars, pending, tainted, opens>>

ReplacePod ==
    /\ RestartProcess
    /\ hist' = [n \in Names |-> <<>>]
    /\ UNCHANGED <<faults, pending, tainted, opens>>

Next ==
    \/ PodNext /\ UNCHANGED <<loopVars, podVars, tainted, opens>>
    \/ LoopNext /\ UNCHANGED <<podVars, pending, tainted, opens>>
    \/ Open
    \/ SkipEvent
    \/ ApplyEvent
    \/ LoseUpdate
    \/ ReadFault
    \/ RestartContainer
    \/ ReplacePod

Spec == Init /\ [][Next]_vars

-----------------------------------------------------------------------------
(* FindJobPodsForJob.                                                      *)

\* The decimal digits of a number, first digit first.
Numeral[v \in Nat] ==
    IF v < 10 THEN <<v>> ELSE Append(Numeral[v \div 10], v % 10)

\* pod.ResourceVersion, which the API server makes from its own counter.
ResourceVersion(v) == Numeral[RVBase + v]

\* a <= b for strings.
StringLeq(a, b) ==
    \/ Len(a) <= Len(b) /\ \A i \in DOMAIN a : a[i] = b[i]
    \/ \E k \in DOMAIN a \cap DOMAIN b :
         a[k] < b[k] /\ \A i \in 1..(k - 1) : a[i] = b[i]

StoredVersions(n) == {hist[n][i] : i \in DOMAIN hist[n]}

\* The versions with a StartTime.
StartedVersions(n) == StoredVersions(n) \ pending[n]

\* Mutant: the first of the sorted versions instead of the last.
LatestVersionMutFirst(n) ==
    CHOOSE v \in StartedVersions(n) : \A w \in StartedVersions(n) :
        StringLeq(ResourceVersion(v), ResourceVersion(w))

LatestVersion(n) ==
    CHOOSE v \in StartedVersions(n) : \A w \in StartedVersions(n) :
        StringLeq(ResourceVersion(w), ResourceVersion(v))

\* The pods shown for a job: one version of each pod that ever started.
FindJobPodsForJob(job) ==
    {[name |-> n, ver |-> LatestVersion(n)] :
        n \in {m \in Names : JobOf[m] = job /\ StartedVersions(m) # {}}}

Shown(n) == {p.ver : p \in {q \in FindJobPodsForJob(JobOf[n]) : q.name = n}}

-----------------------------------------------------------------------------
(* Properties.                                                             *)

Quiet == watch = "open" /\ chan = <<>>

\* Once the open watch is drained, a started pod that is in the cluster and
\* that no DB fault touched is shown once, in its current version, although
\* every version of it that any watch sent is still in the list.
CaughtUpShowsCurrent ==
    Quiet => \A n \in Names \ tainted :
        live[n] # 0 /\ live[n] \notin pending[n] => Shown(n) = {live[n]}

\* The pods of a finished job outlive it in its list: once the open watch is
\* drained, a started pod that was deleted under that watch is shown in its
\* last state, and one that never started is not shown.
CaughtUpKeepsGone ==
    Quiet => \A n \in Names \ tainted :
        live[n] = 0 /\ died[n] > openRV => Shown(n) = {died[n]} \ pending[n]

\* Of all the stored versions of a started pod the newest is shown.
\* (store_test.go:228-232: of two versions of a pod, the "latest pod".)
LatestPodIsNewest ==
    \A n \in Names : \A v \in StartedVersions(n) : \A w \in Shown(n) : v <= w

-----------------------------------------------------------------------------
(* The inductive invariant of the safety properties.                       *)

\* The last thing that happened to a pod: its name has one life.
Newest(n) == IF live[n] # 0 THEN live[n] ELSE died[n]

\* The positions in chan of the events about an object.
Pending(n) == {i \in DOMAIN chan : chan[i].name = n}

\* What the collector is going to receive of a pod.
SentVersions(n) == {chan[i].ver : i \in Pending(n)}

WatchInv == watch # "none" => pc = "receiving"

EventInv == \A i \in DOMAIN chan : chan[i].type = "ERROR" <=> chan[i].name = NoName

WritesInv ==
    /\ rv <= MaxRV
    /\ \A n \in Names : live[n] <= rv /\ died[n] <= rv
    /\ \A n \in Names : live[n] = 0 \/ died[n] = 0

\* Nothing stored or sent is ahead of its pod.
VersionInv ==
    \A n \in Names : StoredVersions(n) \cup SentVersions(n) \subseteq 1..Newest(n)

\* A pod whose newest version has no StartTime never had one.
PendingInv ==
    \A n \in Names :
        /\ pending[n] \subseteq 1..Newest(n)
        /\ Newest(n) \in pending[n] =>
             StoredVersions(n) \cup SentVersions(n) \subseteq pending[n]

\* While the watch is open, the last event about a pod is of its newest version.
LastEventInv ==
    \A n \in Names : \A i \in Pending(n) :
        \E j \in Pending(n) : i <= j /\ chan[j].ver = Newest(n)

\* The newest version of each pod that this watch knows is stored or on its
\* way, unless a fault lost something of the pod.
SettledInv ==
    \A n \in Names \ tainted :
        live[n] # 0 \/ died[n] > openRV =>
            Newest(n) \in StoredVersions(n) \cup SentVersions(n)

IInv ==
    /\ TypeOK /\ WatchInv /\ EventInv /\ WritesInv /\ VersionInv /\ PendingInv
    /\ watch = "open" => LastEventInv /\ SettledInv
=============================================================================
