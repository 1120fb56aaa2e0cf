--------------------------- MODULE ListCollector ---------------------------
(***************************************************************************)
(* collectCronjobs and collectJobs of src/sk8l.go: the two collectors that *)
(* keep the list of all the objects of a kind under one key of the Badger  *)
(* store ("sk8l_cronjobs", "sk8l_jobs").  Each key has this one writer, so *)
(* a DB.Update is one step.                                                *)
(*                                                                         *)
(* The stored list is a function from names to the versions of the items   *)
(* of that name, in list order: everything the handlers do to an item      *)
(* depends on its name alone.  The order of items of different names is    *)
(* abstracted away.                                                        *)
(***************************************************************************)
EXTENDS WatchLoop

CONSTANTS Kind,       \* "CronJob" or "Job": which of the two collectors
          MaxFaults   \* bound on the number of failing DB operations

ASSUME KindAssumption == Kind \in {"CronJob", "Job"}
ASSUME MaxFaultsAssumption == MaxFaults \in Nat

VARIABLES
    stored,   \* whether the key is in the store
    list,     \* the stored list, by name
    tainted,  \* names whose mirroring a DB fault broke in this watch (history)
    faults    \* number of DB faults so far

storeVars == <<stored, list, faults>>

vars == <<clusterVars, loopVars, storeVars, tainted>>

StoredList == [Names -> Seq(Nat)]

EmptyList == [n \in Names |-> <<>>]

TypeOK ==
    /\ ClusterTypeOK
    /\ LoopTypeOK
    /\ stored \in BOOLEAN
    /\ list \in StoredList
    /\ tainted \subseteq Names
    /\ faults \in 0..MaxFaults

Init ==
    /\ ClusterInit
    /\ LoopInit
    /\ stored = FALSE
    /\ list = EmptyList
    /\ tainted = {}
    /\ faults = 0

-----------------------------------------------------------------------------
(* The handlers, run in one DB.Update for an event about an object.        *)

\* Mutants: nothing is filtered out, all but the object is, MODIFIED, DELETED or a repeated ADDED is
\* not acted on.
FilterListMutKeepsAll(l, n) == l

FilterListMutInverted(l, n) == [EmptyList EXCEPT ![n] = l[n]]

UpdateStoredJobListMutNoModified(l, ev) ==
    CASE ev.type = "ADDED" -> [l EXCEPT ![ev.name] = <<ev.ver>>]
      [] ev.type = "DELETED" -> [l EXCEPT ![ev.name] = <<>>]
      [] OTHER -> l

UpdateStoredJobListMutNoDeleted(l, ev) == [l EXCEPT ![ev.name] = <<ev.ver>>]

UpdateStoredCronjobListMutKeepsOld(l, ev) ==
    CASE ev.type = "ADDED" /\ l[ev.name] # <<>> -> l
      [] ev.type = "DELETED" -> [l EXCEPT ![ev.name] = <<>>]
      [] OTHER -> [l EXCEPT ![ev.name] = <<ev.ver>>]

\* filterCronJobsList, filterStoredJobList
FilterList(l, n) == [l EXCEPT ![n] = <<>>]

OnlyEvent(ev) == [EmptyList EXCEPT ![ev.name] = <<ev.ver>>]

UpdateStoredCronjobList(l, ev) ==
    CASE ev.type \in {"ADDED", "MODIFIED"} ->
            [FilterList(l, ev.name) EXCEPT ![ev.name] = Append(@, ev.ver)]
      [] ev.type = "DELETED" -> FilterList(l, ev.name)
      [] OTHER -> l

UpdateStoredJobList(l, ev) ==
    CASE ev.type \in {"ADDED", "MODIFIED"} ->
            [FilterList(l, ev.name) EXCEPT ![ev.name] = Append(@, ev.ver)]
      [] ev.type = "DELETED" -> FilterList(l, ev.name)
      [] OTHER -> l

StoreEntry(l) ==
    /\ stored' = TRUE
    /\ list' = l

\* The event is stored whatever its type when the key is not there.
HandleCronJobEvent(ev) ==
    IF stored THEN StoreEntry(UpdateStoredCronjobList(list, ev))
              ELSE StoreEntry(OnlyEvent(ev))

HandleJobEvent(ev) ==
    IF stored THEN StoreEntry(UpdateStoredJobList(list, ev))
              ELSE StoreEntry(OnlyEvent(ev))

-----------------------------------------------------------------------------
(* The steps of the collector.                                             *)

DBFault ==
    /\ faults < MaxFaults
    /\ faults' = faults + 1

\* A new watch sends every live object again.
Open ==
    /\ OpenWatch
    /\ tainted' = {}
    /\ UNCHANGED storeVars

\* The type assertion on event.Object fails.
SkipEvent ==
    /\ chan # <<>>
    /\ Head(chan).type = "ERROR"
    /\ Receive
    /\ UNCHANGED <<storeVars, tainted>>

\* A DELETED event repairs nothing: with the key missing the handlers store
\* the object that was deleted.
ApplyEvent ==
    /\ chan # <<>>
    /\ LET ev == Head(chan) IN
         /\ ev.type # "ERROR"
         /\ \/ Kind = "CronJob" /\ HandleCronJobEvent(ev)
            \/ Kind = "Job" /\ HandleJobEvent(ev)
         /\ tainted' = IF ev.type = "DELETED" THEN tainted ELSE tainted \ {ev.name}
    /\ Receive
    /\ UNCHANGED faults

\* Mutant: the event is tried again after the ones that wait.
LoseUpdateMutRequeued ==
    /\ pc = "receiving"
    /\ chan # <<>>
    /\ Head(chan).type # "ERROR"
    /\ chan' = Append(Tail(chan), Head(chan))
    /\ DBFault
    /\ tainted' = tainted \cup {Head(chan).name}
    /\ UNCHANGED <<live, died, rv, watch, openRV, loopVars, stored, list>>

\* DB.Update returns an error (it does not commit, the list is too big for a
\* transaction, it does not decode): the error is logged, the event is gone.
LoseUpdate ==
    /\ chan # <<>>
    /\ Head(chan).type # "ERROR"
    /\ Receive
    /\ DBFault
    /\ tainted' = tainted \cup {Head(chan).name}
    /\ UNCHANGED <<stored, list>>

\* txn.Get fails with another error than ErrKeyNotFound: handleCronJobEvent
\* goes on with a nil item, and the process panics.
ReadFaultCronJob ==
    /\ Kind = "CronJob"
    /\ pc = "receiving"
    /\ chan # <<>>
    /\ Head(chan).type # "ERROR"
    /\ DBFault
    /\ StopWatch
    /\ Goto("down")
    /\ UNCHANGED <<stored, list, tainted>>

\* The same error in handleJobEvent: the event's object replaces the list.
ReadFaultJob ==
    /\ Kind = "Job"
    /\ chan # <<>>
    /\ LET ev == Head(chan) IN
         /\ ev.type # "ERROR"
         /\ StoreEntry(OnlyEvent(ev))
         /\ tainted' = IF ev.type = "DELETED" THEN Names ELSE Names \ {ev.name}
    /\ Receive
    /\ DBFault

\* The container starts again in the same pod: /tmp/badger is still there.
RestartContainer ==
    /\ RestartProcess
    /\ UNCHANGED <<storeVars, tainted>>

\* The pod is replaced: the emptyDir volume of /tmp/badger is a new one.
ReplacePod ==
    /\ RestartProcess
    /\ stored' = FALSE
    /\ list' = EmptyList
    /\ UNCHANGED <<tainted, faults>>

Next ==
    \/ ClusterNext /\ UNCHANGED <<loopVars, storeVars, tainted>>
    \/ LoopNext /\ UNCHANGED <<storeVars, tainted>>
    \/ Open
    \/ SkipEvent
    \/ ApplyEvent
    \/ LoseUpdate
    \/ ReadFaultCronJob
    \/ ReadFaultJob
    \/ RestartContainer
    \/ ReplacePod

Spec == Init /\ [][Next]_vars

\* The goroutine runs whenever it can; a canceled context makes Watch*() fail
\* at once and makes ctx.Done() win the back-off's select sooner or later.
\* The API server accepts a watch eventually when it is asked again and again,
\* and ends every watch some day (its request timeout).
Fairness ==
    /\ SF_vars(Open)
    /\ WF_vars(canceled /\ OpenFails /\ UNCHANGED <<storeVars, tainted>>)
    /\ WF_vars(Retry /\ UNCHANGED <<storeVars, tainted>>)
    /\ SF_vars(StopInBackoff /\ UNCHANGED <<storeVars, tainted>>)
    /\ WF_vars(SkipEvent \/ ApplyEvent)
    /\ WF_vars(WatchEnded /\ UNCHANGED <<storeVars, tainted>>)
    /\ WF_vars(StopReceiving /\ UNCHANGED <<storeVars, tainted>>)
    /\ WF_vars(EndWatch /\ UNCHANGED <<loopVars, storeVars, tainted>>)

LiveSpec == Spec /\ Fairness

-----------------------------------------------------------------------------
(* The readers: FindCronjobs and FindJobs take the list out of the store.  *)

\* Get's ErrKeyNotFound is an empty list; its other errors reach the caller.
FindCronjobs == IF stored THEN list ELSE EmptyList

FindJobs == IF stored THEN list ELSE EmptyList

FindItems == IF Kind = "CronJob" THEN FindCronjobs ELSE FindJobs

ListMirror == INSTANCE Mirror WITH list <- FindItems

-----------------------------------------------------------------------------
(* What holds of the events on their way and the list they are to change:  *)
(* the inductive invariant behind the safety properties.                   *)

Pending(n) == {i \in DOMAIN chan : chan[i].name = n}

IsLast(i, S) == i \in S /\ \A j \in S : j <= i

IsFirst(i, S) == i \in S /\ \A j \in S : i <= j

\* The goroutine has a watch only while it receives from it.
WatchInv ==
    /\ pc # "receiving" => watch = "none"
    /\ watch = "none" => chan = <<>>

\* An event is about an object unless it reports an error.
EventInv ==
    \A i \in DOMAIN chan : chan[i].type = "ERROR" <=> chan[i].name = NoName

ListInv ==
    /\ ~stored => list = EmptyList
    /\ \A n \in Names : Len(list[n]) <= 1

\* No version is ahead of the cluster.
RVInv ==
    /\ openRV <= rv
    /\ \A n \in Names : live[n] <= rv /\ died[n] <= rv
    /\ \A n \in Names : list[n] # <<>> => Head(list[n]) <= rv
    /\ \A i \in DOMAIN chan : chan[i].ver <= rv

\* Of one object, the list is behind the events and they are in order.
OrderInv ==
    \A n \in Names :
        /\ \A i, j \in Pending(n) : i < j => chan[i].ver <= chan[j].ver
        /\ list[n] # <<>> => \A i \in Pending(n) : Head(list[n]) <= chan[i].ver
        /\ live[n] # 0 => \A i \in Pending(n) : chan[i].ver <= live[n]
        /\ live[n] # 0 /\ list[n] # <<>> => Head(list[n]) <= live[n]

\* The last event on its way about an object says what became of it.
LastEventInv ==
    \A n \in Names : \A i \in Pending(n) : IsLast(i, Pending(n)) =>
        IF live[n] = 0 THEN chan[i].type = "DELETED"
                       ELSE /\ chan[i].type \in {"ADDED", "MODIFIED"}
                            /\ chan[i].ver = live[n]

\* An object with no event on its way, and no DB fault, has its place already.
SettledInv ==
    \A n \in Names \ tainted : Pending(n) = {} =>
        IF live[n] = 0 THEN list[n] # <<>> => died[n] <= openRV
                       ELSE list[n] = <<live[n]>>

\* A deletion is not the first that the collector hears of an object while the
\* key is missing, unless a DB fault swallowed what came before.
FirstEventInv ==
    ~stored => \A n \in Names \ tainted : \A i \in Pending(n) :
        IsFirst(i, Pending(n)) => chan[i].type # "DELETED"

IInv ==
    /\ TypeOK
    /\ WatchInv
    /\ EventInv
    /\ ListInv
    /\ RVInv
    /\ OrderInv
    /\ watch = "open" => LastEventInv /\ SettledInv /\ FirstEventInv

-----------------------------------------------------------------------------
(* Properties.                                                             *)

\* The collector has received everything its open watch sent.
Quiet == watch = "open" /\ chan = <<>>

\* No two items of the stored list have the same name, in whatever order
\* watches are opened again and their ADDED events repeat what is stored.
NoDuplicateEntries == \A n \in Names : Len(list[n]) <= 1

\* Once every event of the open watch is handled, a live object that no DB
\* fault touched is in the list exactly once, and in its current version.
CaughtUpIsCurrent ==
    Quiet => \A n \in LiveNames \ tainted : list[n] = <<live[n]>>

\* Once every event of the open watch is handled, the objects that are in the
\* list and not in the cluster are only those deleted before that watch was
\* opened, for which no DELETED event was received, or touched by a fault.
LingerOnlyIfMissed ==
    Quiet => \A n \in Names \ tainted :
        live[n] = 0 /\ list[n] # <<>> => died[n] <= openRV

\* No step replaces an item of the list by an older version of that object:
\* not the replay of a new watch, not a fault, not a restart.
StoreNeverGoesBack ==
    [][\A n \in Names :
          list[n] # <<>> /\ list'[n] # <<>> => Head(list[n]) <= Head(list'[n])]_vars

\* What FindCronjobs and FindJobs return is a mirror of the cluster: any step of
\* the collector, a watch that starts over and a failing DB.Update included,
\* brings one object forward, drops one that was deleted, or loses the list.
ImplementsMirror == ListMirror!Spec

\* The collector never gives up on its watch before it is canceled or its
\* process is gone: it has one open again and again.
KeepsWatching ==
    []<>(watch = "open" \/ canceled \/ pc = "down")

\* metricsCancel() ends the goroutine wherever it is in its loop.
CancelStops == canceled ~> pc \in {"stopped", "down"}

\* If watches are drained again and again, every live object ends up in the
\* list in its current version, also after DB faults: the next watch repeats
\* what a failed DB.Update lost.
LiveObjectsEventuallyStored ==
    []<>Quiet => \A n \in Names : <>[](live[n] # 0 => list[n] = <<live[n]>>)

\* README.md: sk8l_[NAMESPACE]_registered_cronjobs_total is "Total registered
\* cronjobs" and the overview is of "your cronjobs running in a namespace": an
\* object that is gone from the cluster leaves the list some day.
GoneObjectsEventuallyDropped ==
    []<>Quiet => \A n \in Names : <>[](live[n] = 0 => list[n] = <<>>)
=============================================================================
