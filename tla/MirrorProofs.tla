---------------------------- MODULE MirrorProofs ----------------------------
(***************************************************************************)
(* ListCollector implements Mirror: what a reader is given by FindCronjobs *)
(* and FindJobs is a mirror of the cluster, for every set of names, any    *)
(* number of writes, faults and restarts, and both collectors.             *)
(***************************************************************************)
EXTENDS ListCollectorProofs

\* The last thing that happened to an object: Newest of Mirror.
Newest(n) == IF live[n] > died[n] THEN live[n] ELSE died[n]

\* No item and no event is ahead of its own object (RVInv only says: of the
\* cluster), and a DELETED event is not ahead of the deletion.
VersionInv ==
    /\ \A n \in Names : list[n] # <<>> => Head(list[n]) \in 1..Newest(n)
    /\ \A n \in Names : \A i \in Pending(n) :
         /\ chan[i].ver \in 1..Newest(n)
         /\ chan[i].type = "DELETED" => chan[i].ver <= died[n]

MirrorInv == IInv /\ VersionInv

LEMMA NewestType ==
  ASSUME TypeOK, NEW n \in Names
  PROVE  /\ live[n] \in Nat /\ died[n] \in Nat
         /\ Newest(n) \in Nat /\ live[n] <= Newest(n) /\ died[n] <= Newest(n)
  BY DEF TypeOK, ClusterTypeOK, Newest

(***************************************************************************)
(* VersionInv is inductive, relative to IInv.                              *)
(***************************************************************************)

\* A write to an object puts everything that is known of it behind it.
LEMMA PublishVersions ==
  ASSUME MirrorInv, NEW n \in Names, NEW e \in Event,
         e.name = n, e.ver \in 1..(Newest(n)'), e.type = "DELETED" => e.ver <= died'[n],
         Publish(e), UNCHANGED list,
         \A m \in Names : /\ Newest(m) <= Newest(m)' /\ died[m] <= died'[m]
                          /\ Newest(m)' \in Nat /\ died'[m] \in Nat
  PROVE  VersionInv'
<1>1. TypeOK
  BY DEF MirrorInv, IInv
<1>2. \A m \in Names : /\ died[m] \in Nat /\ Newest(m) \in Nat
                       /\ list[m] # <<>> => Head(list[m]) \in Nat
  BY <1>1, NewestType, VersionTypes
<1>3. ASSUME NEW m \in Names, list'[m] # <<>> PROVE Head(list'[m]) \in 1..(Newest(m)')
  BY <1>2, <1>3 DEF MirrorInv, VersionInv
<1>4. ASSUME NEW m \in Names, NEW i \in Pending(m)'
      PROVE  /\ chan'[i].ver \in 1..(Newest(m)')
             /\ chan'[i].type = "DELETED" => chan'[i].ver <= died'[m]
  <2>1. CASE i \in Pending(m) /\ chan'[i] = chan[i]
    BY <1>1, <1>2, <2>1, VersionTypes DEF MirrorInv, VersionInv
  <2>2. CASE chan'[i] = e /\ m = n
    BY <2>2
  <2> QED
    BY <1>1, <1>4, <2>1, <2>2, PublishPending
<1> QED
  BY <1>3, <1>4 DEF VersionInv

LEMMA PutVersions ==
  ASSUME MirrorInv, NEW n \in Names, Put(n), UNCHANGED list
  PROVE  VersionInv'
<1> DEFINE e == [type |-> IF live[n] = 0 THEN "ADDED" ELSE "MODIFIED",
                 name |-> n, ver |-> rv + 1]
<1>1. TypeOK /\ rv \in Nat /\ live \in [Names -> Nat] /\ died \in [Names -> Nat]
  BY DEF MirrorInv, IInv, TypeOK, ClusterTypeOK
<1>2. live' = [live EXCEPT ![n] = rv + 1] /\ died' = died /\ Publish(e)
  BY DEF Put
<1>3. e \in Event /\ e.name = n /\ e.ver = rv + 1 /\ e.type # "DELETED"
  BY <1>1 DEF Event, EventTypes
<1>4. \A m \in Names : live[m] <= rv /\ died[m] <= rv
  BY DEF MirrorInv, IInv, RVInv
<1>5. \A m \in Names : /\ Newest(m) <= Newest(m)' /\ died[m] <= died'[m]
                       /\ Newest(m)' \in Nat /\ died'[m] \in Nat
  BY <1>1, <1>2, <1>4 DEF Newest
<1>6. Newest(n)' = rv + 1
  BY <1>1, <1>2, <1>4 DEF Newest
<1>7. e.ver \in 1..(Newest(n)')
  BY <1>1, <1>3, <1>6
<1> HIDE DEF e
<1> QED
  BY <1>2, <1>3, <1>5, <1>7, PublishVersions

LEMMA DeleteVersions ==
  ASSUME MirrorInv, NEW n \in Names, Delete(n), UNCHANGED list
  PROVE  VersionInv'
<1> DEFINE e == [type |-> "DELETED", name |-> n, ver |-> rv + 1]
<1>1. TypeOK /\ rv \in Nat /\ live \in [Names -> Nat] /\ died \in [Names -> Nat]
  BY DEF MirrorInv, IInv, TypeOK, ClusterTypeOK
<1>2. /\ live' = [live EXCEPT ![n] = 0] /\ died' = [died EXCEPT ![n] = rv + 1]
      /\ Publish(e)
  BY DEF Delete
<1>3. e \in Event /\ e.name = n /\ e.ver = rv + 1
  BY <1>1 DEF Event, EventTypes
<1>4. \A m \in Names : live[m] <= rv /\ died[m] <= rv
  BY DEF MirrorInv, IInv, RVInv
<1>5. \A m \in Names : /\ Newest(m) <= Newest(m)' /\ died[m] <= died'[m]
                       /\ Newest(m)' \in Nat /\ died'[m] \in Nat
  BY <1>1, <1>2, <1>4 DEF Newest
<1>6. Newest(n)' = rv + 1 /\ died'[n] = rv + 1
  BY <1>1, <1>2, <1>4 DEF Newest
<1>7. e.ver \in 1..(Newest(n)') /\ e.ver <= died'[n]
  BY <1>1, <1>3, <1>6
<1> HIDE DEF e
<1> QED
  BY <1>2, <1>3, <1>5, <1>7, PublishVersions

\* Nothing is added to the list, and the channel keeps some of its events.
LEMMA FewerVersions ==
  ASSUME MirrorInv, UNCHANGED <<live, died>>,
         \A n \in Names : list'[n] = list[n] \/ list'[n] = <<>>,
         \A n \in Names : \A i \in Pending(n)' : \E j \in Pending(n) : chan'[i] = chan[j]
  PROVE  VersionInv'
<1>1. \A n : Newest(n)' = Newest(n)
  BY DEF Newest
<1>2. ASSUME NEW n \in Names, list'[n] # <<>> PROVE Head(list'[n]) \in 1..(Newest(n)')
  BY <1>1, <1>2 DEF MirrorInv, VersionInv
<1>3. ASSUME NEW n \in Names, NEW i \in Pending(n)'
      PROVE  /\ chan'[i].ver \in 1..(Newest(n)')
             /\ chan'[i].type = "DELETED" => chan'[i].ver <= died'[n]
  <2>1. PICK j \in Pending(n) : chan'[i] = chan[j]
    OBVIOUS
  <2> QED
    BY <1>1, <2>1 DEF MirrorInv, VersionInv
<1> QED
  BY <1>2, <1>3 DEF VersionInv

\* Taking an event about an object, which its list entry then may show.
LEMMA ReceiveVersions ==
  ASSUME MirrorInv, Receive, NEW ev, ev = Head(chan), ev.name \in Names,
         \A m \in Names \ {ev.name} : list'[m] \in {list[m], <<>>},
         list'[ev.name] \in {list[ev.name], <<>>, <<ev.ver>>}
  PROVE  VersionInv'
<1>1. TypeOK /\ TakeEvent /\ UNCHANGED <<live, died>>
  BY ReceiveUnchanged DEF MirrorInv, IInv
<1>2. 1 \in Pending(ev.name) /\ chan[1] = ev
  BY <1>1, TakeHead, TakeShifts
<1>3. ev.ver \in 1..Newest(ev.name)
  BY <1>2 DEF MirrorInv, VersionInv
<1>4. \A n : Newest(n)' = Newest(n)
  BY <1>1 DEF Newest
<1>5. ASSUME NEW n \in Names, list'[n] # <<>> PROVE Head(list'[n]) \in 1..(Newest(n)')
  <2>1. CASE list'[n] = list[n]
    BY <1>4, <1>5, <2>1 DEF MirrorInv, VersionInv
  <2>2. CASE n = ev.name /\ list'[n] = <<ev.ver>>
    <3>1. Head(<<ev.ver>>) = ev.ver
      OBVIOUS
    <3> QED
      BY <1>3, <1>4, <2>2, <3>1
  <2> QED
    BY <1>5, <2>1, <2>2
<1>6. ASSUME NEW n \in Names, NEW i \in Pending(n)'
      PROVE  /\ chan'[i].ver \in 1..(Newest(n)')
             /\ chan'[i].type = "DELETED" => chan'[i].ver <= died'[n]
  <2>1. i + 1 \in Pending(n) /\ chan'[i] = chan[i + 1]
    BY <1>1, TakeFirstLast
  <2> QED
    BY <1>1, <1>4, <2>1 DEF MirrorInv, VersionInv
<1> QED
  BY <1>5, <1>6 DEF VersionInv

LEMMA OpenVersions == ASSUME MirrorInv, Open PROVE VersionInv'
<1>1. PICK order \in Orderings(LiveNames) : chan' = SyntheticAdded(order)
  BY DEF Open, OpenWatch, StartWatch
<1>2. UNCHANGED <<live, died, rv, list>> /\ TypeOK
  BY DEF Open, OpenWatch, StartWatch, storeVars, MirrorInv, IInv
<1>3. \A i \in DOMAIN chan' : /\ chan'[i].name \in LiveNames
                              /\ chan'[i].type = "ADDED"
                              /\ chan'[i].ver = live[chan'[i].name]
  BY <1>1 DEF Orderings, SyntheticAdded
<1>4. \A n \in LiveNames : live[n] \in 1..Newest(n)
  BY <1>2 DEF LiveNames, Newest, TypeOK, ClusterTypeOK
<1>5. \A n : Newest(n)' = Newest(n)
  BY <1>2 DEF Newest
<1>6. ASSUME NEW n \in Names, NEW i \in Pending(n)'
      PROVE  chan'[i].ver \in 1..(Newest(n)') /\ chan'[i].type # "DELETED"
  BY <1>3, <1>4, <1>5 DEF Pending
<1>7. \A n \in Names : list'[n] # <<>> => Head(list'[n]) \in 1..(Newest(n)')
  BY <1>2, <1>5 DEF MirrorInv, VersionInv
<1> QED
  BY <1>6, <1>7 DEF VersionInv

\* The watch ends: what is left of its events was there before.
LEMMA EndWatchPending ==
  ASSUME TypeOK, EndWatch, NEW n \in Names, NEW i \in Pending(n)'
  PROVE  i \in Pending(n) /\ chan'[i] = chan[i]
<1>1. PICK k \in 0..Len(chan) :
         chan' \in {SubSeq(chan, 1, k), Append(SubSeq(chan, 1, k), ErrorEvent)}
  BY DEF EndWatch
<1> DEFINE s == SubSeq(chan, 1, k)
<1>2. chan \in Seq(Event) /\ Len(chan) \in Nat
  BY DEF TypeOK, ClusterTypeOK
<1>3. s \in Seq(Event) /\ Len(s) = k /\ \A j \in 1..k : s[j] = chan[j]
  BY <1>1, <1>2, SubSeqProperties
<1>4. ErrorEvent \in Event /\ ErrorEvent.name = NoName
  BY DEF ErrorEvent, Event, EventTypes
<1> HIDE DEF s
<1>5. \A j \in DOMAIN chan' : chan'[j].name # NoName => j \in 1..k /\ chan'[j] = s[j]
  <2>1. CASE chan' = s
    BY <1>1, <1>3, <2>1
  <2>2. CASE chan' = Append(s, ErrorEvent)
    BY <1>1, <1>3, <1>4, <2>2
  <2> QED
    BY <1>1, <2>1, <2>2 DEF s
<1> QED
  BY <1>1, <1>2, <1>3, <1>5, NamesAssumption DEF Pending

(***************************************************************************)
(* What the steps that take an event do to the list.                       *)
(***************************************************************************)

\* ApplyEvent: the event's object is forgotten, or has its version.
LEMMA ApplyValue ==
  ASSUME MirrorInv, ApplyEvent, NEW ev, ev = Head(chan)
  PROVE  /\ ev \in Event /\ ev.name \in Names /\ ev.ver \in Nat
         /\ Receive /\ stored' = TRUE
         /\ list' \in StoredList
         /\ \A m \in Names \ {ev.name} : list'[m] = list[m]
         /\ \/ ev.type = "DELETED" /\ list'[ev.name] = <<>>
            \/ list'[ev.name] = <<ev.ver>>
<1>1. Receive /\ TakeEvent /\ ev.type # "ERROR"
  BY ReceiveUnchanged DEF ApplyEvent
<1>2. ev \in Event /\ ev.name \in Names /\ ev.ver \in Nat /\ list \in StoredList
  BY <1>1, HeadName, TakeShifts DEF MirrorInv, IInv, TypeOK
<1>3. /\ stored' = TRUE
      /\ \/ ~stored /\ list' = OnlyEvent(ev)
         \/ list' = UpdateStoredCronjobList(list, ev)
         \/ list' = UpdateStoredJobList(list, ev)
  BY DEF ApplyEvent, HandleCronJobEvent, HandleJobEvent, StoreEntry
<1>4. CASE ~stored /\ list' = OnlyEvent(ev)
  <2>1. \A m \in Names : list[m] = <<>>
    BY <1>4 DEF MirrorInv, IInv, ListInv, EmptyList
  <2> QED
    BY <1>1, <1>2, <1>3, <1>4, <2>1, OnlyEventValue
<1>5. CASE list' = UpdateStoredCronjobList(list, ev) \/ list' = UpdateStoredJobList(list, ev)
  <2>1. PICK u : u = list' /\ (u = UpdateStoredCronjobList(list, ev)
                                \/ u = UpdateStoredJobList(list, ev))
    BY <1>5
  <2>2. /\ list' \in StoredList
        /\ list'[ev.name] = IF ev.type = "DELETED" THEN <<>> ELSE <<ev.ver>>
        /\ \A m \in Names \ {ev.name} : list'[m] = list[m]
    BY <1>1, <1>2, <2>1, UpdateValue
  <2> QED
    BY <1>1, <1>2, <1>3, <2>2
<1> QED
  BY <1>3, <1>4, <1>5

\* ReadFaultJob: the event's object is all that is left.
LEMMA ReadFaultValue ==
  ASSUME MirrorInv, ReadFaultJob, NEW ev, ev = Head(chan)
  PROVE  /\ ev \in Event /\ ev.name \in Names /\ ev.ver \in Nat
         /\ Receive /\ stored' = TRUE
         /\ list' = [EmptyList EXCEPT ![ev.name] = <<ev.ver>>]
         /\ list'[ev.name] = <<ev.ver>>
         /\ \A m \in Names \ {ev.name} : list'[m] = <<>>
<1>1. Receive /\ TakeEvent /\ ev.type # "ERROR"
  BY ReceiveUnchanged DEF ReadFaultJob
<1>2. ev \in Event /\ ev.name \in Names /\ ev.ver \in Nat
  BY <1>1, HeadName, TakeShifts DEF MirrorInv, IInv, TypeOK
<1>3. stored' = TRUE /\ list' = OnlyEvent(ev)
  BY DEF ReadFaultJob, StoreEntry
<1> QED
  BY <1>1, <1>2, <1>3, OnlyEventValue DEF OnlyEvent

LEMMA NextMirrorInv == MirrorInv /\ [Next]_vars => MirrorInv'
<1> SUFFICES ASSUME MirrorInv, [Next]_vars PROVE VersionInv'
  BY NextInv DEF MirrorInv
<1>1. ASSUME UNCHANGED <<live, died, list>>, chan' = <<>> \/ chan' = chan PROVE VersionInv'
  <2>1. \A n \in Names : \A i \in Pending(n)' : i \in Pending(n) /\ chan'[i] = chan[i]
    BY <1>1 DEF Pending
  <2> QED
    BY <1>1, <2>1, FewerVersions
<1>2. CASE ClusterNext /\ UNCHANGED <<loopVars, storeVars, tainted>>
  <2>1. UNCHANGED list
    BY <1>2 DEF storeVars
  <2>2. CASE EndWatch
    <3>1. UNCHANGED <<live, died>> /\ TypeOK
      BY <2>2 DEF EndWatch, MirrorInv, IInv
    <3> QED
      BY <2>1, <2>2, <3>1, EndWatchPending, FewerVersions
  <2> QED
    BY <1>2, <2>1, <2>2, PutVersions, DeleteVersions DEF ClusterNext
<1>3. CASE LoopNext /\ UNCHANGED <<storeVars, tainted>>
  <2>1. UNCHANGED <<live, died, list>> /\ (chan' = <<>> \/ chan' = chan)
    BY <1>3 DEF LoopNext, OpenFails, Retry, StopInBackoff, WatchEnded, StopReceiving,
                Cancel, Crash, StopWatch, clusterVars, storeVars
  <2> QED
    BY <1>1, <2>1
<1>4. CASE Open
  BY <1>4, OpenVersions
<1>5. CASE SkipEvent \/ LoseUpdate
  <2>1. Receive /\ UNCHANGED list
    BY <1>5 DEF SkipEvent, LoseUpdate, storeVars
  <2>2. TakeEvent /\ UNCHANGED <<live, died>> /\ TypeOK
    BY <2>1, ReceiveUnchanged DEF MirrorInv, IInv
  <2>3. \A n \in Names : \A i \in Pending(n)' : i + 1 \in Pending(n) /\ chan'[i] = chan[i + 1]
    BY <2>2, TakeFirstLast
  <2> QED
    BY <2>1, <2>2, <2>3, FewerVersions
<1>6. CASE ApplyEvent
  BY <1>6, ApplyValue, ReceiveVersions
<1>7. CASE ReadFaultJob
  BY <1>7, ReadFaultValue, ReceiveVersions
<1>8. CASE ReadFaultCronJob \/ RestartContainer
  <2>1. UNCHANGED <<live, died, list>> /\ (chan' = <<>> \/ chan' = chan)
    BY <1>8 DEF ReadFaultCronJob, RestartContainer, RestartProcess, StopWatch,
                clusterVars, storeVars
  <2> QED
    BY <1>1, <2>1
<1>9. CASE ReplacePod
  <2>1. UNCHANGED <<live, died, chan>> /\ \A n \in Names : list'[n] = <<>>
    BY <1>9 DEF ReplacePod, RestartProcess, clusterVars, EmptyList
  <2>2. \A n \in Names : Pending(n)' = Pending(n)
    BY <2>1 DEF Pending
  <2> QED
    BY <2>1, <2>2, FewerVersions
<1>10. CASE UNCHANGED vars
  <2>1. UNCHANGED <<live, died, list, chan>>
    BY <1>10 DEF vars, clusterVars, storeVars
  <2> QED
    BY <1>1, <2>1
<1> QED
  BY <1>2, <1>3, <1>4, <1>5, <1>6, <1>7, <1>8, <1>9, <1>10 DEF Next

LEMMA MirrorInvariance == Spec => []MirrorInv
<1>1. Init => MirrorInv
  BY InitInv DEF Init, ClusterInit, EmptyList, Pending, MirrorInv, VersionInv
<1> QED
  BY <1>1, NextMirrorInv, PTL DEF Spec

(***************************************************************************)
(* Every step of the collector is one of the mirror, or changes nothing    *)
(* that the mirror has.                                                    *)
(***************************************************************************)

\* The list of a missing key is empty in any case.
LEMMA FindItemsIsList ==
  /\ MirrorInv => FindItems = list
  /\ MirrorInv' => FindItems' = list'
  BY DEF MirrorInv, IInv, ListInv, FindItems, FindCronjobs, FindJobs

\* In the terms of Mirror: one object is heard of.
LEMMA HearStep ==
  ASSUME MirrorInv, MirrorInv', Receive, NEW ev, ev = Head(chan),
         ev.name \in Names, list \in StoredList, list' \in StoredList
  PROVE  /\ ev.ver \in 1..ListMirror!Newest(ev.name)
         /\ list[ev.name] # <<>> => Head(list[ev.name]) <= ev.ver
         /\ ev.type = "DELETED" => ev.ver <= died[ev.name]
<1>1. TypeOK /\ TakeEvent
  BY ReceiveUnchanged DEF MirrorInv, IInv
<1>2. 1 \in Pending(ev.name) /\ chan[1] = ev
  BY <1>1, TakeHead, TakeShifts
<1> QED
  BY <1>2 DEF MirrorInv, VersionInv, IInv, OrderInv, Newest, ListMirror!Newest

LEMMA ApplyIsMirror ==
  ASSUME MirrorInv, MirrorInv', ApplyEvent
  PROVE  [ListMirror!Next]_(ListMirror!vars)
<1> DEFINE ev == Head(chan)
<1>1. /\ ev.name \in Names /\ ev.ver \in Nat /\ Receive
      /\ list \in StoredList /\ list' \in StoredList
      /\ \A m \in Names \ {ev.name} : list'[m] = list[m]
      /\ \/ ev.type = "DELETED" /\ list'[ev.name] = <<>>
         \/ list'[ev.name] = <<ev.ver>>
  BY ApplyValue DEF MirrorInv, IInv, TypeOK
<1>2. UNCHANGED <<live, died, rv>> /\ FindItems = list /\ FindItems' = list'
  BY <1>1, ReceiveUnchanged, FindItemsIsList
<1>3. /\ ev.ver \in 1..ListMirror!Newest(ev.name)
      /\ list[ev.name] # <<>> => Head(list[ev.name]) <= ev.ver
      /\ ev.type = "DELETED" => ev.ver <= died[ev.name]
  BY <1>1, HearStep
<1> HIDE DEF ev
<1>4. list' = [list EXCEPT ![ev.name] = list'[ev.name]]
  BY <1>1 DEF StoredList
<1>5. CASE list'[ev.name] = <<ev.ver>>
  <2>1. ListMirror!Hear(ev.name)
    BY <1>2, <1>3, <1>4, <1>5 DEF ListMirror!Hear
  <2> QED
    BY <1>1, <2>1 DEF ListMirror!Next
<1>6. CASE ev.type = "DELETED" /\ list'[ev.name] = <<>> /\ list[ev.name] # <<>>
  <2>1. Head(list[ev.name]) \in Nat /\ died[ev.name] \in Nat
    BY <1>1, <1>6, VersionTypes DEF MirrorInv, IInv, TypeOK, ClusterTypeOK
  <2>2. Head(list[ev.name]) <= died[ev.name]
    BY <1>1, <1>3, <1>6, <2>1
  <2>3. ListMirror!Forget(ev.name)
    BY <1>2, <1>4, <1>6, <2>2 DEF ListMirror!Forget
  <2> QED
    BY <1>1, <2>3 DEF ListMirror!Next
<1>7. CASE list'[ev.name] = <<>> /\ list[ev.name] = <<>>
  <2>1. list' = list
    BY <1>1, <1>4, <1>7 DEF StoredList
  <2> QED
    BY <1>2, <2>1 DEF ListMirror!vars
<1> QED
  BY <1>1, <1>5, <1>6, <1>7

LEMMA ReadFaultIsMirror ==
  ASSUME MirrorInv, MirrorInv', ReadFaultJob
  PROVE  [ListMirror!Next]_(ListMirror!vars)
<1> DEFINE ev == Head(chan)
<1>1. /\ ev.name \in Names /\ Receive
      /\ list' = [EmptyList EXCEPT ![ev.name] = <<ev.ver>>]
  BY ReadFaultValue
<1>2. list \in StoredList /\ list' \in StoredList
  BY DEF MirrorInv, IInv, TypeOK
<1>3. UNCHANGED <<live, died, rv>> /\ FindItems = list /\ FindItems' = list'
  BY <1>1, ReceiveUnchanged, FindItemsIsList
<1>4. /\ ev.ver \in 1..ListMirror!Newest(ev.name)
      /\ list[ev.name] # <<>> => Head(list[ev.name]) <= ev.ver
  BY <1>1, <1>2, HearStep
<1> HIDE DEF ev
<1>5. ListMirror!Lose
  BY <1>1, <1>3, <1>4 DEF ListMirror!Lose, ListMirror!Nothing, EmptyList
<1> QED
  BY <1>5 DEF ListMirror!Next

LEMMA StepIsMirror ==
  MirrorInv /\ MirrorInv' /\ [Next]_vars => [ListMirror!Next]_(ListMirror!vars)
<1> SUFFICES ASSUME MirrorInv, MirrorInv', [Next]_vars
             PROVE  [ListMirror!Next]_(ListMirror!vars)
  OBVIOUS
<1>1. FindItems = list /\ FindItems' = list'
  BY FindItemsIsList
<1>2. CASE ClusterNext /\ UNCHANGED <<loopVars, storeVars, tainted>>
  <2>1. ASSUME NEW n \in Names, Put(n) PROVE ListMirror!Put(n)
    BY <1>1, <1>2, <2>1 DEF Put, ListMirror!Put, storeVars
  <2>2. ASSUME NEW n \in Names, Delete(n) PROVE ListMirror!Delete(n)
    BY <1>1, <1>2, <2>2 DEF Delete, ListMirror!Delete, storeVars
  <2>3. CASE EndWatch
    BY <1>1, <1>2, <2>3 DEF EndWatch, storeVars, ListMirror!vars
  <2> QED
    BY <1>2, <2>1, <2>2, <2>3 DEF ClusterNext, ListMirror!Next
<1>3. CASE UNCHANGED <<live, died, rv, list>>
  BY <1>1, <1>3 DEF ListMirror!vars
<1>4. CASE LoopNext /\ UNCHANGED <<storeVars, tainted>>
  BY <1>3, <1>4 DEF LoopNext, OpenFails, Retry, StopInBackoff, WatchEnded, StopReceiving,
                    Cancel, Crash, StopWatch, clusterVars, storeVars
<1>5. CASE Open
  BY <1>3, <1>5 DEF Open, OpenWatch, StartWatch, storeVars
<1>6. CASE SkipEvent \/ LoseUpdate
  <2>1. Receive /\ UNCHANGED list
    BY <1>6 DEF SkipEvent, LoseUpdate, storeVars
  <2> QED
    BY <1>3, <2>1, ReceiveUnchanged
<1>7. CASE ReadFaultCronJob \/ RestartContainer
  BY <1>3, <1>7 DEF ReadFaultCronJob, RestartContainer, RestartProcess, StopWatch,
                    clusterVars, storeVars
<1>8. CASE ReplacePod
  BY <1>1, <1>8 DEF ReplacePod, RestartProcess, clusterVars, EmptyList,
                    ListMirror!Next, ListMirror!Lose, ListMirror!Nothing
<1>9. CASE UNCHANGED vars
  BY <1>3, <1>9 DEF vars, clusterVars, storeVars
<1> QED
  BY <1>2, <1>4, <1>5, <1>6, <1>7, <1>8, <1>9, ApplyIsMirror, ReadFaultIsMirror DEF Next

\* collectCronjobs and collectJobs, with all that can happen to them, keep the
\* promise that Mirror makes to FindCronjobs and FindJobs.
THEOREM Implements == Spec => ImplementsMirror
<1>1. Init => ListMirror!Init
  BY DEF Init, ClusterInit, FindItems, FindCronjobs, FindJobs, EmptyList,
         ListMirror!Init, ListMirror!Nothing
<1> QED
  BY <1>1, StepIsMirror, MirrorInvariance, PTL DEF Spec, ImplementsMirror, ListMirror!Spec
=============================================================================
