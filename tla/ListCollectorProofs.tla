------------------------ MODULE ListCollectorProofs ------------------------
(***************************************************************************)
(* Proofs about collectCronjobs and collectJobs, for every set of names,   *)
(* any number of writes to the cluster, DB faults and restarts.  IInv is   *)
(* inductive; the safety properties of ListCollector follow from it.       *)
(***************************************************************************)
EXTENDS ListCollector, TLAPS, FiniteSetTheorems, SequenceTheorems

(***************************************************************************)
(* The channel.                                                            *)
(***************************************************************************)

LEMMA PendingDef ==
  ASSUME TypeOK, NEW n, NEW i
  PROVE  i \in Pending(n) <=> i \in 1..Len(chan) /\ chan[i].name = n
  BY DEF TypeOK, ClusterTypeOK, Pending

\* Taking an event shifts the ones that wait.
LEMMA TakeShifts ==
  ASSUME TypeOK, TakeEvent
  PROVE  /\ chan' \in Seq(Event)
         /\ DOMAIN chan' = 1..(Len(chan) - 1)
         /\ Len(chan) \in Nat \ {0}
         /\ \A i \in DOMAIN chan' : chan'[i] = chan[i + 1]
         /\ Head(chan) = chan[1]
         /\ Head(chan) \in Event
  BY DEF TypeOK, ClusterTypeOK, TakeEvent

LEMMA TakePending ==
  ASSUME TypeOK, TakeEvent, NEW n, NEW i
  PROVE  i \in Pending(n)' <=> i \in Nat \ {0} /\ i + 1 \in Pending(n)
<1>1. i \in Pending(n)' <=> i \in 1..(Len(chan) - 1) /\ chan[i + 1].name = n
  BY TakeShifts DEF Pending
<1>2. i \in Nat \ {0} => (i + 1 \in Pending(n) <=>
                            i + 1 \in 1..Len(chan) /\ chan[i + 1].name = n)
  BY DEF Pending, TypeOK, ClusterTypeOK
<1>3. Len(chan) \in Nat
  BY DEF TypeOK, ClusterTypeOK
<1> QED
  BY <1>1, <1>2, <1>3

\* The positions of an object's first and last event shift along.
LEMMA TakeFirstLast ==
  ASSUME TypeOK, TakeEvent, NEW n, NEW i \in Pending(n)'
  PROVE  /\ i \in Nat \ {0}
         /\ i + 1 \in Pending(n)
         /\ chan'[i] = chan[i + 1]
         /\ IsLast(i, Pending(n)') => IsLast(i + 1, Pending(n))
         /\ chan[1].name # n /\ IsFirst(i, Pending(n)') => IsFirst(i + 1, Pending(n))
<1>1. i \in Nat \ {0} /\ i + 1 \in Pending(n)
  BY TakePending
<1>2. chan'[i] = chan[i + 1]
  BY TakeShifts DEF Pending
<1>3. \A j \in Pending(n) : j = 1 \/ (j \in Nat /\ j - 1 \in Pending(n)')
  <2> SUFFICES ASSUME NEW j \in Pending(n), j # 1
               PROVE  j \in Nat /\ j - 1 \in Pending(n)'
    OBVIOUS
  <2>1. j \in 1..Len(chan) /\ Len(chan) \in Nat
    BY DEF Pending, TypeOK, ClusterTypeOK
  <2>2. j - 1 \in Nat \ {0} /\ (j - 1) + 1 = j
    BY <2>1
  <2> QED
    BY <2>1, <2>2, TakePending
<1>4. ASSUME IsLast(i, Pending(n)') PROVE IsLast(i + 1, Pending(n))
  BY <1>1, <1>3, <1>4 DEF IsLast
<1>5. ASSUME chan[1].name # n, IsFirst(i, Pending(n)') PROVE IsFirst(i + 1, Pending(n))
  <2>1. 1 \notin Pending(n)
    BY <1>5 DEF Pending
  <2> QED
    BY <1>1, <1>3, <1>5, <2>1 DEF IsFirst
<1> QED
  BY <1>1, <1>2, <1>4, <1>5

\* The object of the event that is taken: the event was its first, and also its
\* last one when nothing about it waits any more.
LEMMA TakeHead ==
  ASSUME TypeOK, TakeEvent, NEW n, n = Head(chan).name
  PROVE  /\ 1 \in Pending(n)
         /\ IsFirst(1, Pending(n))
         /\ Pending(n)' = {} => IsLast(1, Pending(n))
         /\ \A m : m # n /\ Pending(m)' = {} => Pending(m) = {}
<1>1. Len(chan) \in Nat \ {0} /\ Head(chan) = chan[1] /\ DOMAIN chan = 1..Len(chan)
  BY TakeShifts DEF TypeOK, ClusterTypeOK
<1>2. 1 \in Pending(n)
  BY <1>1 DEF Pending
<1>3. IsFirst(1, Pending(n))
  BY <1>1, <1>2 DEF Pending, IsFirst
<1>4. \A m : \A j \in Pending(m) : j # 1 => j - 1 \in Pending(m)'
  <2> SUFFICES ASSUME NEW m, NEW j \in Pending(m), j # 1 PROVE j - 1 \in Pending(m)'
    OBVIOUS
  <2>1. j \in 1..Len(chan)
    BY <1>1 DEF Pending
  <2>2. j - 1 \in Nat \ {0} /\ (j - 1) + 1 = j
    BY <1>1, <2>1
  <2> QED
    BY <2>2, TakePending
<1>5. Pending(n)' = {} => IsLast(1, Pending(n))
  BY <1>2, <1>4 DEF IsLast
<1>6. ASSUME NEW m, m # n, Pending(m)' = {} PROVE Pending(m) = {}
  <2>1. 1 \notin Pending(m)
    BY <1>1, <1>6 DEF Pending
  <2> QED
    BY <1>4, <1>6, <2>1
<1> QED
  BY <1>2, <1>3, <1>5, <1>6

(***************************************************************************)
(* Handling an event about an object.                                      *)
(***************************************************************************)

\* What ApplyEvent, LoseUpdate and ReadFaultJob have in common: the other
\* objects keep their items or lose them to a fault, and the event's object
\* has its place when no fault touches it.
Handled(ev) ==
    /\ stored' \in BOOLEAN
    /\ list' \in StoredList
    /\ tainted' \subseteq Names
    /\ faults' \in 0..MaxFaults
    /\ \A m \in Names \ {ev.name} :
         \/ list'[m] = list[m] /\ (m \in tainted' <=> m \in tainted)
         \/ list'[m] = <<>> /\ m \in tainted'
    /\ list'[ev.name] \in {list[ev.name], <<>>, <<ev.ver>>}
    /\ watch = "open" /\ ev.name \notin tainted' =>
         list'[ev.name] = IF ev.type = "DELETED" THEN <<>> ELSE <<ev.ver>>
    /\ ~stored' => ~stored /\ list' = list /\ ev.name \in tainted'

LEMMA ReceiveUnchanged ==
  ASSUME Receive
  PROVE  /\ TakeEvent
         /\ pc = "receiving"
         /\ UNCHANGED <<live, died, rv, watch, openRV, pc, canceled, restarts>>
  BY DEF Receive, TakeEvent, loopVars

LEMMA HeadName ==
  ASSUME IInv, TakeEvent, Head(chan).type # "ERROR"
  PROVE  Head(chan).name \in Names /\ Head(chan).ver \in Nat
<1>1. Head(chan).name # NoName
  BY TakeShifts DEF IInv, EventInv, TypeOK, ClusterTypeOK
<1> QED
  BY <1>1, TakeShifts DEF IInv, Event

LEMMA ReceiveTypeOK ==
  ASSUME TypeOK, Receive, stored' \in BOOLEAN, list' \in StoredList,
         tainted' \subseteq Names, faults' \in 0..MaxFaults
  PROVE  TypeOK'
  BY ReceiveUnchanged, TakeShifts DEF TypeOK, ClusterTypeOK, LoopTypeOK

LEMMA ReceiveEventInv ==
  ASSUME IInv, Receive
  PROVE  WatchInv' /\ EventInv' /\ (\A i \in DOMAIN chan' : chan'[i].ver <= rv')
<1>1. \A i \in DOMAIN chan' : i + 1 \in DOMAIN chan /\ chan'[i] = chan[i + 1]
  BY ReceiveUnchanged, TakeShifts DEF IInv, TypeOK, ClusterTypeOK
<1>2. chan # <<>>
  BY ReceiveUnchanged DEF TakeEvent
<1>3. WatchInv'
  BY <1>2, ReceiveUnchanged DEF IInv, WatchInv
<1> QED
  BY <1>1, <1>3, ReceiveUnchanged DEF IInv, EventInv, RVInv

LEMMA HandledListInv ==
  ASSUME IInv, Receive, Head(chan).type # "ERROR", Handled(Head(chan))
  PROVE  ListInv'
<1>1. \A n \in Names : list'[n] \in {list[n], <<>>, <<Head(chan).ver>>}
  BY DEF Handled
<1>2. Len(<<>>) = 0 /\ Len(<<Head(chan).ver>>) = 1
  OBVIOUS
<1>3. ASSUME NEW n \in Names PROVE Len(list'[n]) <= 1
  <2>1. CASE list'[n] = list[n]
    BY <2>1 DEF IInv, ListInv
  <2>2. CASE list'[n] = <<>>
    BY <1>2, <2>2
  <2>3. CASE list'[n] = <<Head(chan).ver>>
    BY <1>2, <2>3
  <2> QED
    BY <1>1, <2>1, <2>2, <2>3
<1> QED
  BY <1>3 DEF IInv, ListInv, Handled

LEMMA HandledRVInv ==
  ASSUME IInv, Receive, Head(chan).type # "ERROR", Handled(Head(chan))
  PROVE  RVInv'
<1>1. TakeEvent /\ Head(chan).ver <= rv
  BY ReceiveUnchanged, TakeShifts DEF IInv, TypeOK, ClusterTypeOK, RVInv
<1>2. \A n \in Names : list'[n] # <<>> => Head(list'[n]) <= rv
  <2> SUFFICES ASSUME NEW n \in Names, list'[n] # <<>> PROVE Head(list'[n]) <= rv
    OBVIOUS
  <2>1. list'[n] \in {list[n], <<Head(chan).ver>>}
    BY DEF Handled
  <2>2. Head(<<Head(chan).ver>>) = Head(chan).ver
    OBVIOUS
  <2> QED
    BY <1>1, <2>1, <2>2 DEF IInv, RVInv
<1> QED
  BY <1>2, ReceiveUnchanged, ReceiveEventInv DEF IInv, RVInv

LEMMA HandledOrderInv ==
  ASSUME IInv, Receive, Head(chan).type # "ERROR", Handled(Head(chan))
  PROVE  OrderInv'
<1> DEFINE ver == Head(chan).ver
<1>1. TakeEvent /\ TypeOK /\ UNCHANGED live
  BY ReceiveUnchanged DEF IInv
<1>2. \A n \in Names : \A i \in Pending(n)' :
        i \in Nat \ {0} /\ i + 1 \in Pending(n) /\ chan'[i] = chan[i + 1]
  BY <1>1, TakeFirstLast
<1>3. \A n \in Names : 1 \in Pending(n) => chan[1].ver = ver /\ n = Head(chan).name
  BY <1>1, TakeShifts DEF Pending
<1>4. Head(<<ver>>) = ver /\ <<ver>> # <<>>
  OBVIOUS
<1>5. SUFFICES ASSUME NEW n \in Names
               PROVE  /\ \A i, j \in Pending(n)' : i < j => chan'[i].ver <= chan'[j].ver
                      /\ list'[n] # <<>> => \A i \in Pending(n)' : Head(list'[n]) <= chan'[i].ver
                      /\ live[n] # 0 => \A i \in Pending(n)' : chan'[i].ver <= live[n]
                      /\ live[n] # 0 /\ list'[n] # <<>> => Head(list'[n]) <= live[n]
  BY <1>1 DEF OrderInv
<1>6. \A i, j \in Pending(n)' : i < j => chan'[i].ver <= chan'[j].ver
  BY <1>2 DEF IInv, OrderInv
<1>7. live[n] # 0 => \A i \in Pending(n)' : chan'[i].ver <= live[n]
  BY <1>2 DEF IInv, OrderInv
<1>8. CASE list'[n] \in {list[n], <<>>}
  BY <1>2, <1>6, <1>7, <1>8 DEF IInv, OrderInv
<1>9. CASE n = Head(chan).name /\ list'[n] = <<ver>>
  <2>1. 1 \in Pending(n)
    BY <1>1, <1>9, TakeHead
  <2>2. \A i \in Pending(n)' : ver <= chan'[i].ver
    BY <1>2, <1>3, <2>1 DEF IInv, OrderInv
  <2>3. live[n] # 0 => ver <= live[n]
    BY <1>3, <2>1 DEF IInv, OrderInv
  <2> QED
    BY <1>4, <1>6, <1>7, <1>9, <2>2, <2>3
<1> QED
  BY <1>8, <1>9 DEF Handled

LEMMA ReceiveLastEventInv ==
  ASSUME IInv, Receive, watch = "open"
  PROVE  LastEventInv'
<1>1. TakeEvent /\ TypeOK /\ UNCHANGED live
  BY ReceiveUnchanged DEF IInv
<1> QED
  BY <1>1, TakeFirstLast DEF IInv, LastEventInv

LEMMA HandledSettledInv ==
  ASSUME IInv, Receive, Head(chan).type # "ERROR", Handled(Head(chan)), watch = "open"
  PROVE  SettledInv'
<1>1. TakeEvent /\ TypeOK /\ UNCHANGED <<live, died, openRV>>
  BY ReceiveUnchanged DEF IInv
<1>2. SUFFICES ASSUME NEW n \in Names \ tainted', Pending(n)' = {}
               PROVE  IF live[n] = 0 THEN list'[n] # <<>> => died[n] <= openRV
                                     ELSE list'[n] = <<live[n]>>
  BY <1>1 DEF SettledInv
<1>3. CASE n = Head(chan).name
  <2>1. IsLast(1, Pending(n)) /\ 1 \in Pending(n) /\ chan[1] = Head(chan)
    BY <1>1, <1>2, <1>3, TakeHead, TakeShifts
  <2>2. IF live[n] = 0 THEN Head(chan).type = "DELETED"
                       ELSE /\ Head(chan).type \in {"ADDED", "MODIFIED"}
                            /\ Head(chan).ver = live[n]
    BY <2>1 DEF IInv, LastEventInv
  <2> QED
    BY <1>3, <2>2 DEF Handled
<1>4. CASE n # Head(chan).name
  <2>1. Pending(n) = {}
    BY <1>1, <1>2, <1>4, TakeHead
  <2>2. list'[n] = list[n] /\ n \notin tainted
    BY <1>2, <1>4 DEF Handled
  <2> QED
    BY <2>1, <2>2 DEF IInv, SettledInv
<1> QED
  BY <1>3, <1>4

LEMMA HandledFirstEventInv ==
  ASSUME IInv, Receive, Head(chan).type # "ERROR", Handled(Head(chan)), watch = "open"
  PROVE  FirstEventInv'
<1>1. TakeEvent /\ TypeOK
  BY ReceiveUnchanged DEF IInv
<1>2. SUFFICES ASSUME ~stored', NEW n \in Names \ tainted', NEW i \in Pending(n)',
                      IsFirst(i, Pending(n)')
               PROVE  chan'[i].type # "DELETED"
  BY DEF FirstEventInv
<1>3. ~stored /\ Head(chan).name \in tainted' /\ n # Head(chan).name
  BY <1>2 DEF Handled
<1>4. n \notin tainted /\ chan[1].name # n
  BY <1>1, <1>2, <1>3, TakeShifts DEF Handled
<1> QED
  BY <1>1, <1>2, <1>3, <1>4, TakeFirstLast DEF IInv, FirstEventInv

LEMMA HandledInv ==
  ASSUME IInv, Receive, Head(chan).type # "ERROR", Handled(Head(chan))
  PROVE  IInv'
<1>1. TypeOK'
  BY ReceiveTypeOK DEF IInv, Handled
<1>2. WatchInv' /\ EventInv' /\ ListInv' /\ RVInv' /\ OrderInv'
  BY ReceiveEventInv, HandledListInv, HandledRVInv, HandledOrderInv
<1>3. watch' = "open" => LastEventInv' /\ SettledInv' /\ FirstEventInv'
  BY ReceiveUnchanged, ReceiveLastEventInv, HandledSettledInv, HandledFirstEventInv
<1> QED
  BY <1>1, <1>2, <1>3 DEF IInv

(***************************************************************************)
(* The steps that take an event.                                           *)
(***************************************************************************)

LEMMA OnlyEventValue ==
  ASSUME NEW ev, ev.name \in Names, ev.ver \in Nat
  PROVE  /\ OnlyEvent(ev) \in StoredList
         /\ OnlyEvent(ev)[ev.name] = <<ev.ver>>
         /\ \A m \in Names \ {ev.name} : OnlyEvent(ev)[m] = <<>>
<1>1. EmptyList \in StoredList /\ \A m \in Names : EmptyList[m] = <<>>
  BY DEF EmptyList, StoredList
<1>2. <<ev.ver>> \in Seq(Nat)
  OBVIOUS
<1> QED
  BY <1>1, <1>2 DEF OnlyEvent, StoredList

\* Both update functions do the same with the types an object's event can have.
LEMMA UpdateValue ==
  ASSUME NEW l \in StoredList, NEW ev \in Event, ev.name \in Names, ev.type # "ERROR",
         NEW u, u = UpdateStoredCronjobList(l, ev) \/ u = UpdateStoredJobList(l, ev)
  PROVE  /\ u \in StoredList
         /\ u[ev.name] = IF ev.type = "DELETED" THEN <<>> ELSE <<ev.ver>>
         /\ \A m \in Names \ {ev.name} : u[m] = l[m]
<1>1. ev.type \in {"ADDED", "MODIFIED", "DELETED"} /\ ev.ver \in Nat
  BY DEF Event, EventTypes
<1>2. Append(<<>>, ev.ver) = <<ev.ver>> /\ <<ev.ver>> \in Seq(Nat) /\ <<>> \in Seq(Nat)
  BY <1>1
<1>3. CASE ev.type = "DELETED"
  <2>1. u = FilterList(l, ev.name)
    BY <1>3 DEF UpdateStoredCronjobList, UpdateStoredJobList
  <2>2. /\ FilterList(l, ev.name) \in StoredList
        /\ FilterList(l, ev.name)[ev.name] = <<>>
        /\ \A m \in Names \ {ev.name} : FilterList(l, ev.name)[m] = l[m]
    BY <1>2 DEF FilterList, StoredList
  <2> QED
    BY <1>3, <2>1, <2>2
<1>4. CASE ev.type \in {"ADDED", "MODIFIED"}
  <2>1. u = [FilterList(l, ev.name) EXCEPT ![ev.name] = Append(@, ev.ver)]
    BY <1>4 DEF UpdateStoredCronjobList, UpdateStoredJobList
  <2>2. FilterList(l, ev.name) \in StoredList /\ FilterList(l, ev.name)[ev.name] = <<>>
    BY <1>2 DEF FilterList, StoredList
  <2>3. u = [FilterList(l, ev.name) EXCEPT ![ev.name] = <<ev.ver>>]
    BY <1>2, <2>1, <2>2
  <2> QED
    BY <1>2, <1>4, <2>2, <2>3 DEF FilterList, StoredList
<1> QED
  BY <1>1, <1>3, <1>4

LEMMA SkipInv == ASSUME IInv, SkipEvent PROVE IInv'
<1>1. Receive /\ Head(chan).type = "ERROR" /\ UNCHANGED <<stored, list, faults, tainted>>
  BY DEF SkipEvent, storeVars
<1>2. TakeEvent /\ TypeOK /\ UNCHANGED <<live, died, rv, watch, openRV>>
  BY <1>1, ReceiveUnchanged DEF IInv
<1>3. chan[1].name = NoName
  BY <1>1, <1>2, TakeShifts DEF IInv, EventInv, TypeOK, ClusterTypeOK
<1>4. \A n \in Names : n # chan[1].name
  BY <1>3, NamesAssumption
<1>5. \A n \in Names : Pending(n)' = {} => Pending(n) = {}
  BY <1>2, <1>4, TakeHead, TakeShifts
<1>6. \A n \in Names : \A i \in Pending(n)' :
         /\ i \in Nat \ {0} /\ i + 1 \in Pending(n) /\ chan'[i] = chan[i + 1]
         /\ IsFirst(i, Pending(n)') => IsFirst(i + 1, Pending(n))
  BY <1>2, <1>4, TakeFirstLast
<1>7. TypeOK'
  BY <1>1, ReceiveTypeOK DEF IInv, TypeOK
<1>8. WatchInv' /\ EventInv' /\ (\A i \in DOMAIN chan' : chan'[i].ver <= rv')
  BY <1>1, ReceiveEventInv
<1>9. ListInv' /\ RVInv'
  BY <1>1, <1>2, <1>8 DEF IInv, ListInv, RVInv
<1>10. OrderInv'
  BY <1>1, <1>2, <1>6 DEF IInv, OrderInv
<1>11. watch' = "open" => LastEventInv'
  BY <1>1, <1>2, ReceiveLastEventInv
<1>12. watch' = "open" => SettledInv'
  BY <1>1, <1>2, <1>5 DEF IInv, SettledInv
<1>13. watch' = "open" => FirstEventInv'
  BY <1>1, <1>2, <1>6 DEF IInv, FirstEventInv
<1> QED
  BY <1>7, <1>8, <1>9, <1>10, <1>11, <1>12, <1>13 DEF IInv

LEMMA ApplyInv == ASSUME IInv, ApplyEvent PROVE IInv'
<1> DEFINE ev == Head(chan)
<1>1. Receive /\ TakeEvent /\ ev.type # "ERROR" /\ faults' = faults
  BY ReceiveUnchanged DEF ApplyEvent
<1>2. ev \in Event /\ ev.name \in Names /\ ev.ver \in Nat
  BY <1>1, HeadName, TakeShifts DEF IInv
<1>3. tainted' = IF ev.type = "DELETED" THEN tainted ELSE tainted \ {ev.name}
  BY DEF ApplyEvent
<1>4. stored' = TRUE
  BY DEF ApplyEvent, HandleCronJobEvent, HandleJobEvent, StoreEntry
<1>5. TypeOK /\ list \in StoredList /\ faults \in 0..MaxFaults /\ tainted \subseteq Names
  BY DEF IInv, TypeOK
<1>6. CASE stored
  <2>1. list' = UpdateStoredCronjobList(list, ev) \/ list' = UpdateStoredJobList(list, ev)
    BY <1>6 DEF ApplyEvent, HandleCronJobEvent, HandleJobEvent, StoreEntry
  <2>2. /\ list' \in StoredList
        /\ list'[ev.name] = IF ev.type = "DELETED" THEN <<>> ELSE <<ev.ver>>
        /\ \A m \in Names \ {ev.name} : list'[m] = list[m]
    BY <1>1, <1>2, <1>5, <2>1, UpdateValue
  <2>3. Handled(ev)
    BY <1>1, <1>2, <1>3, <1>4, <1>5, <2>2 DEF Handled
  <2> QED
    BY <1>1, <2>3, HandledInv
<1>7. CASE ~stored
  <2>1. list' = OnlyEvent(ev)
    BY <1>7 DEF ApplyEvent, HandleCronJobEvent, HandleJobEvent, StoreEntry
  <2>2. /\ list' \in StoredList
        /\ list'[ev.name] = <<ev.ver>>
        /\ \A m \in Names \ {ev.name} : list'[m] = <<>>
    BY <1>2, <2>1, OnlyEventValue
  <2>3. \A m \in Names : list[m] = <<>>
    BY <1>7 DEF IInv, ListInv, EmptyList
  <2>4. watch = "open" /\ ev.type = "DELETED" => ev.name \in tainted
    <3>1. 1 \in Pending(ev.name) /\ IsFirst(1, Pending(ev.name)) /\ chan[1] = ev
      BY <1>1, <1>5, TakeHead, TakeShifts
    <3> QED
      BY <1>2, <1>7, <3>1 DEF IInv, FirstEventInv
  <2>5. Handled(ev)
    BY <1>1, <1>2, <1>3, <1>4, <1>5, <2>2, <2>3, <2>4 DEF Handled
  <2> QED
    BY <1>1, <2>5, HandledInv
<1> QED
  BY <1>6, <1>7

LEMMA LoseInv == ASSUME IInv, LoseUpdate PROVE IInv'
<1> DEFINE ev == Head(chan)
<1>1. Receive /\ TakeEvent /\ ev.type # "ERROR" /\ UNCHANGED <<stored, list>>
  BY ReceiveUnchanged DEF LoseUpdate
<1>2. ev.name \in Names /\ tainted' = tainted \cup {ev.name} /\ faults' \in 0..MaxFaults
  BY <1>1, HeadName, MaxFaultsAssumption DEF LoseUpdate, DBFault, IInv, TypeOK
<1>3. Handled(ev)
  BY <1>1, <1>2 DEF Handled, IInv, TypeOK
<1> QED
  BY <1>1, <1>3, HandledInv

LEMMA ReadFaultJobInv == ASSUME IInv, ReadFaultJob PROVE IInv'
<1> DEFINE ev == Head(chan)
<1>1. Receive /\ TakeEvent /\ ev.type # "ERROR" /\ stored' = TRUE /\ list' = OnlyEvent(ev)
  BY ReceiveUnchanged DEF ReadFaultJob, StoreEntry
<1>2. ev.name \in Names /\ ev.ver \in Nat /\ faults' \in 0..MaxFaults
  BY <1>1, HeadName, MaxFaultsAssumption DEF ReadFaultJob, DBFault, IInv, TypeOK
<1>3. tainted' = IF ev.type = "DELETED" THEN Names ELSE Names \ {ev.name}
  BY DEF ReadFaultJob
<1>4. Handled(ev)
  BY <1>1, <1>2, <1>3, OnlyEventValue DEF Handled
<1> QED
  BY <1>1, <1>4, HandledInv

(***************************************************************************)
(* The other steps of the collector.                                       *)
(***************************************************************************)

\* A watch that is gone leaves the list as it is, or empties it.
LEMMA NoWatchInv ==
  ASSUME IInv, TypeOK', UNCHANGED <<live, died, rv, openRV>>,
         watch' = "none", chan' = <<>>,
         \/ UNCHANGED <<stored, list>>
         \/ stored' = FALSE /\ list' = EmptyList
  PROVE  IInv'
<1>1. DOMAIN chan' = {} /\ \A n : Pending(n)' = {}
  BY DEF Pending
<1>2. WatchInv' /\ EventInv'
  BY <1>1 DEF WatchInv, EventInv
<1>3. Len(<<>>) = 0 /\ \A n \in Names : EmptyList[n] = <<>>
  BY DEF EmptyList
<1>4. ListInv'
  <2>1. ASSUME stored' = FALSE, list' = EmptyList PROVE ListInv'
    BY <1>3, <2>1 DEF ListInv
  <2> QED
    BY <2>1 DEF IInv, ListInv
<1>5. RVInv'
  BY <1>1, <1>3 DEF IInv, RVInv
<1>6. OrderInv'
  BY <1>1, <1>3 DEF IInv, OrderInv
<1> QED
  BY <1>2, <1>4, <1>5, <1>6 DEF IInv

LEMMA CloseInv ==
  ASSUME IInv, StopWatch, UNCHANGED <<stored, list, tainted, canceled, restarts>>,
         pc' \in LoopStates, faults' \in 0..MaxFaults
  PROVE  IInv'
<1>1. TypeOK'
  BY DEF IInv, TypeOK, ClusterTypeOK, LoopTypeOK, StopWatch
<1> QED
  BY <1>1, NoWatchInv DEF StopWatch

\* Nothing but the loop's own state changes.
LEMMA QuietInv ==
  ASSUME IInv, UNCHANGED clusterVars, UNCHANGED <<stored, list, tainted, faults>>,
         TypeOK', pc' # "receiving" => watch = "none"
  PROVE  IInv'
<1>1. \A n : Pending(n)' = Pending(n)
  BY DEF Pending, clusterVars
<1>2. WatchInv' /\ EventInv' /\ ListInv' /\ RVInv'
  BY DEF IInv, WatchInv, EventInv, ListInv, RVInv, clusterVars
<1>3. OrderInv'
  BY <1>1 DEF IInv, OrderInv, clusterVars
<1>4. watch' = "open" => LastEventInv' /\ SettledInv' /\ FirstEventInv'
  BY <1>1 DEF IInv, LastEventInv, SettledInv, FirstEventInv, clusterVars
<1> QED
  BY <1>2, <1>3, <1>4 DEF IInv

LEMMA LoopInv ==
  ASSUME IInv, LoopNext, UNCHANGED <<storeVars, tainted>>
  PROVE  IInv'
<1> USE DEF storeVars
<1>1. CASE OpenFails \/ Retry \/ StopInBackoff
  <2>1. /\ pc # "receiving" /\ pc' \in LoopStates \ {"receiving"}
        /\ UNCHANGED clusterVars /\ UNCHANGED <<canceled, restarts>>
    BY <1>1 DEF OpenFails, Retry, StopInBackoff, Goto, LoopStates
  <2>2. TypeOK' /\ watch = "none"
    BY <2>1 DEF IInv, TypeOK, ClusterTypeOK, LoopTypeOK, clusterVars, WatchInv
  <2> QED
    BY <2>1, <2>2, QuietInv
<1>2. CASE Cancel
  <2>1. TypeOK'
    BY <1>2 DEF Cancel, IInv, TypeOK, ClusterTypeOK, LoopTypeOK, clusterVars
  <2> QED
    BY <1>2, <2>1, QuietInv DEF Cancel, IInv, WatchInv
<1>3. CASE WatchEnded \/ StopReceiving \/ Crash
  <2>1. StopWatch /\ pc' \in LoopStates /\ UNCHANGED <<canceled, restarts>>
    BY <1>3 DEF WatchEnded, StopReceiving, Crash, Goto, LoopStates
  <2> QED
    BY <2>1, CloseInv DEF IInv, TypeOK
<1> QED
  BY <1>1, <1>2, <1>3 DEF LoopNext

LEMMA ReadFaultCronJobInv == ASSUME IInv, ReadFaultCronJob PROVE IInv'
<1>1. faults' \in 0..MaxFaults
  BY MaxFaultsAssumption DEF ReadFaultCronJob, DBFault, IInv, TypeOK
<1> QED
  BY <1>1, CloseInv DEF ReadFaultCronJob, Goto, LoopStates

LEMMA RestartInv ==
  ASSUME IInv, RestartContainer \/ ReplacePod
  PROVE  IInv'
<1>1. watch = "none" /\ chan = <<>> /\ UNCHANGED clusterVars
  BY DEF RestartContainer, ReplacePod, RestartProcess, IInv, WatchInv
<1>2. EmptyList \in StoredList
  BY DEF EmptyList, StoredList
<1>3. restarts' \in 0..MaxRestarts /\ pc' \in LoopStates /\ canceled' \in BOOLEAN
  <2>1. /\ pc' = "opening" /\ canceled' = FALSE
        /\ restarts < MaxRestarts /\ restarts' = restarts + 1
    BY DEF RestartContainer, ReplacePod, RestartProcess
  <2>2. restarts' \in 0..MaxRestarts
    BY <2>1, MaxRestartsAssumption DEF IInv, TypeOK, LoopTypeOK
  <2> QED
    BY <2>1, <2>2 DEF LoopStates
<1>4. TypeOK'
  BY <1>1, <1>2, <1>3
  DEF RestartContainer, ReplacePod, storeVars, clusterVars, IInv, TypeOK,
      ClusterTypeOK, LoopTypeOK
<1> QED
  BY <1>1, <1>4, NoWatchInv DEF RestartContainer, ReplacePod, storeVars, clusterVars

\* A new watch has one or more ADDED events for each live object, no other.
LEMMA OpenInv == ASSUME IInv, Open PROVE IInv'
<1>1. PICK order \in Orderings(LiveNames) : chan' = SyntheticAdded(order)
  BY DEF Open, OpenWatch, StartWatch
<1>2. /\ watch' = "open" /\ openRV' = rv /\ UNCHANGED <<live, died, rv>>
      /\ pc' = "receiving" /\ UNCHANGED <<canceled, restarts>>
      /\ tainted' = {} /\ UNCHANGED <<stored, list, faults>>
  BY DEF Open, OpenWatch, StartWatch, Goto, storeVars
<1>3. Cardinality(LiveNames) \in Nat
  BY NamesAssumption, FS_Subset, FS_CardinalityType DEF LiveNames
<1>4. /\ DOMAIN chan' = 1..Cardinality(LiveNames)
      /\ order \in [1..Cardinality(LiveNames) -> LiveNames]
      /\ \A i \in DOMAIN chan' :
           chan'[i] = [type |-> "ADDED", name |-> order[i], ver |-> live[order[i]]]
  BY <1>1 DEF Orderings, SyntheticAdded
<1>5. \A n \in LiveNames : \E i \in DOMAIN chan' : chan'[i].name = n
  BY <1>1, <1>4 DEF Orderings
<1>6. \A i \in DOMAIN chan' :
         /\ chan'[i] \in Event
         /\ chan'[i].type = "ADDED"
         /\ chan'[i].name \in LiveNames
         /\ chan'[i].ver = live[chan'[i].name]
  BY <1>4 DEF Event, EventTypes, LiveNames, IInv, TypeOK, ClusterTypeOK
<1>7. chan' \in Seq(Event)
  <2>1. chan' = [i \in 1..Cardinality(LiveNames) |-> chan'[i]]
    BY <1>1, <1>4 DEF SyntheticAdded
  <2> QED
    BY <1>3, <1>4, <1>6, <2>1
<1>8. \A n : \A i \in Pending(n)' :
        n \in LiveNames /\ chan'[i].type = "ADDED" /\ chan'[i].ver = live[n]
  BY <1>6 DEF Pending
<1>9. \A n \in LiveNames : Pending(n)' # {}
  BY <1>5 DEF Pending
<1>10. TypeOK'
  BY <1>2, <1>7 DEF IInv, TypeOK, ClusterTypeOK, LoopTypeOK, LoopStates
<1>11. WatchInv' /\ ListInv'
  BY <1>2 DEF IInv, WatchInv, ListInv
<1>12. EventInv'
  BY <1>6, NamesAssumption DEF EventInv, LiveNames
<1>13. RVInv'
  BY <1>2, <1>6 DEF IInv, TypeOK, ClusterTypeOK, RVInv, LiveNames
<1>14. OrderInv'
  BY <1>2, <1>8 DEF IInv, TypeOK, ClusterTypeOK, OrderInv, LiveNames
<1>15. LastEventInv'
  BY <1>2, <1>8 DEF LastEventInv, LiveNames
<1>16. SettledInv'
  BY <1>2, <1>9 DEF IInv, RVInv, SettledInv, LiveNames
<1>17. FirstEventInv'
  BY <1>8 DEF FirstEventInv
<1> QED
  BY <1>10, <1>11, <1>12, <1>13, <1>14, <1>15, <1>16, <1>17 DEF IInv

(***************************************************************************)
(* The cluster changes, or ends the watch.                                 *)
(***************************************************************************)

LEMMA VersionTypes ==
  ASSUME TypeOK
  PROVE  /\ \A i \in DOMAIN chan : i \in Nat /\ chan[i].ver \in Nat
         /\ \A m : \A i \in Pending(m) : i \in Nat /\ chan[i].ver \in Nat
         /\ \A m \in Names : list[m] # <<>> => Head(list[m]) \in Nat
<1>1. Len(chan) \in Nat /\ DOMAIN chan = 1..Len(chan)
  BY DEF TypeOK, ClusterTypeOK
<1>2. \A i \in DOMAIN chan : i \in Nat /\ chan[i].ver \in Nat
  <2> SUFFICES ASSUME NEW i \in DOMAIN chan PROVE i \in Nat /\ chan[i].ver \in Nat
    OBVIOUS
  <2>1. i \in Nat /\ chan[i] \in Event
    BY <1>1 DEF TypeOK, ClusterTypeOK
  <2> QED
    BY <2>1 DEF Event
<1>3. ASSUME NEW m \in Names, list[m] # <<>> PROVE Head(list[m]) \in Nat
  <2>1. list[m] \in Seq(Nat)
    BY DEF TypeOK, StoredList
  <2> QED
    BY <1>3, <2>1
<1> QED
  BY <1>2, <1>3 DEF Pending

\* A cluster write when no watch is open reaches the collector by the next one.
LEMMA PublishPending ==
  ASSUME TypeOK, NEW e \in Event, Publish(e)
  PROVE  /\ chan' \in Seq(Event)
         /\ \A i \in DOMAIN chan' :
              \/ i \in DOMAIN chan /\ chan'[i] = chan[i]
              \/ watch = "open" /\ i = Len(chan) + 1 /\ chan'[i] = e
         /\ \A n : n # e.name => Pending(n)' = Pending(n)
         /\ \A n : \A i \in Pending(n)' :
              \/ i \in Pending(n) /\ i <= Len(chan) /\ chan'[i] = chan[i]
              \/ watch = "open" /\ i = Len(chan) + 1 /\ chan'[i] = e /\ n = e.name
         /\ watch = "open" =>
              Len(chan) + 1 \in Pending(e.name)' /\ chan'[Len(chan) + 1] = e
         /\ Pending(e.name) \subseteq Pending(e.name)'
<1>1. CASE watch # "open"
  BY <1>1 DEF TypeOK, ClusterTypeOK, Publish, Pending
<1>2. CASE watch = "open"
  <2>1. /\ chan' = Append(chan, e) /\ chan' \in Seq(Event) /\ Len(chan) \in Nat
        /\ DOMAIN chan' = 1..(Len(chan) + 1) /\ DOMAIN chan = 1..Len(chan)
        /\ \A i \in 1..Len(chan) : chan'[i] = chan[i]
        /\ chan'[Len(chan) + 1] = e
    BY <1>2 DEF TypeOK, ClusterTypeOK, Publish
  <2> QED
    BY <1>2, <2>1 DEF Pending
<1> QED
  BY <1>1, <1>2

LEMMA PutInv ==
  ASSUME IInv, NEW n \in Names, Put(n), UNCHANGED <<loopVars, storeVars, tainted>>
  PROVE  IInv'
<1> DEFINE e == [type |-> IF live[n] = 0 THEN "ADDED" ELSE "MODIFIED",
                 name |-> n, ver |-> rv + 1]
<1>1. /\ rv \in Nat /\ rv' = rv + 1 /\ live' = [live EXCEPT ![n] = rv + 1]
      /\ UNCHANGED <<died, watch, openRV>> /\ Publish(e) /\ TypeOK
  BY DEF Put, IInv, TypeOK, ClusterTypeOK
<1>2. e \in Event /\ e.name = n /\ e.ver = rv + 1 /\ e.type \in {"ADDED", "MODIFIED"}
  BY <1>1 DEF Event, EventTypes
<1> HIDE DEF e
<1>3. UNCHANGED <<pc, canceled, restarts, stored, list, faults, tainted>>
  BY DEF loopVars, storeVars
<1>4. TypeOK'
  BY <1>1, <1>2, <1>3, PublishPending DEF TypeOK, ClusterTypeOK, LoopTypeOK
<1>5. n # NoName
  BY NamesAssumption
<1>6. WatchInv' /\ EventInv' /\ ListInv'
  <2>1. WatchInv'
    BY <1>1, <1>3 DEF IInv, WatchInv, Publish
  <2>2. EventInv'
    BY <1>1, <1>2, <1>5, PublishPending DEF IInv, EventInv
  <2> QED
    BY <1>3, <2>1, <2>2 DEF IInv, ListInv
<1>7. live \in [Names -> Nat] /\ died \in [Names -> Nat] /\ openRV \in Nat /\ Len(chan) \in Nat
  BY DEF IInv, TypeOK, ClusterTypeOK
<1>8. \A m \in Names : /\ list[m] # <<>> => Head(list[m]) \in Nat
                       /\ \A i \in Pending(m) : chan[i].ver \in Nat
  BY <1>1, VersionTypes
<1>9. \A m \in Names : \A i \in Pending(m) : chan[i].ver <= rv
  BY DEF IInv, RVInv, Pending
<1>10. \A i \in DOMAIN chan' : chan'[i].ver <= rv'
  <2>1. \A i \in DOMAIN chan : chan[i].ver \in Nat /\ chan[i].ver <= rv
    BY <1>1, VersionTypes DEF IInv, RVInv
  <2> QED
    BY <1>1, <1>2, <2>1, PublishPending
<1>11. RVInv'
  BY <1>1, <1>3, <1>7, <1>8, <1>10 DEF IInv, RVInv
<1>12. OrderInv'
  <2>1. SUFFICES ASSUME NEW m \in Names
                 PROVE  /\ \A i, j \in Pending(m)' : i < j => chan'[i].ver <= chan'[j].ver
                        /\ list[m] # <<>> => \A i \in Pending(m)' : Head(list[m]) <= chan'[i].ver
                        /\ live'[m] # 0 => \A i \in Pending(m)' : chan'[i].ver <= live'[m]
                        /\ live'[m] # 0 /\ list[m] # <<>> => Head(list[m]) <= live'[m]
    BY <1>3 DEF OrderInv
  <2>2. CASE m = n
    <3>1. live'[m] = rv + 1
      BY <1>1, <1>7, <2>2
    <3>2. \A i \in Pending(m)' :
            \/ i \in Pending(m) /\ i <= Len(chan) /\ chan'[i] = chan[i]
            \/ i = Len(chan) + 1 /\ chan'[i].ver = rv + 1
      BY <1>1, <1>2, PublishPending
    <3>3. list[m] # <<>> => Head(list[m]) <= rv
      BY DEF IInv, RVInv
    <3>4. \A i \in Pending(m) : i \in Nat
      BY <1>1, VersionTypes
    <3>5. \A i \in Pending(m)' : chan'[i].ver \in Nat /\ chan'[i].ver <= rv + 1
      BY <1>1, <1>8, <1>9, <3>2
    <3>6. ASSUME NEW i \in Pending(m)', NEW j \in Pending(m)', i < j
          PROVE  chan'[i].ver <= chan'[j].ver
      <4>1. CASE chan'[j].ver = rv + 1
        BY <3>5, <4>1
      <4>2. CASE j \in Pending(m) /\ j <= Len(chan) /\ chan'[j] = chan[j]
        <5>1. i \in Pending(m) /\ chan'[i] = chan[i]
          BY <1>7, <3>2, <3>4, <3>6, <4>2
        <5> QED
          BY <3>6, <4>2, <5>1 DEF IInv, OrderInv
      <4> QED
        BY <3>2, <4>1, <4>2
    <3>7. list[m] # <<>> => \A i \in Pending(m)' : Head(list[m]) <= chan'[i].ver
      BY <1>1, <1>8, <3>2, <3>3 DEF IInv, OrderInv
    <3> QED
      BY <1>1, <1>8, <3>1, <3>3, <3>5, <3>6, <3>7
  <2>3. CASE m # n
    BY <1>1, <1>2, <1>7, <2>3, PublishPending DEF IInv, OrderInv
  <2> QED
    BY <2>2, <2>3
<1>13. ASSUME watch' = "open" PROVE LastEventInv' /\ SettledInv' /\ FirstEventInv'
  <2>1. /\ watch = "open" /\ LastEventInv /\ SettledInv /\ FirstEventInv
        /\ live'[n] = rv + 1
        /\ \A m \in Names : m # n => live'[m] = live[m]
    BY <1>1, <1>7, <1>13 DEF IInv
  <2>2. /\ Len(chan) + 1 \in Pending(n)' /\ chan'[Len(chan) + 1] = e
        /\ \A m \in Names : \A i \in Pending(m)' :
             \/ i \in Pending(m) /\ i <= Len(chan) /\ chan'[i] = chan[i]
             \/ i = Len(chan) + 1 /\ chan'[i] = e /\ m = n
        /\ \A m \in Names : m # n => Pending(m)' = Pending(m)
        /\ Pending(n) \subseteq Pending(n)'
    BY <1>1, <1>2, <2>1, PublishPending
  <2>3. LastEventInv'
    <3>1. SUFFICES ASSUME NEW m \in Names, NEW i \in Pending(m)', IsLast(i, Pending(m)')
                   PROVE  IF live'[m] = 0 THEN chan'[i].type = "DELETED"
                                          ELSE /\ chan'[i].type \in {"ADDED", "MODIFIED"}
                                               /\ chan'[i].ver = live'[m]
      BY DEF LastEventInv
    <3>2. CASE m = n
      <4>1. i = Len(chan) + 1
        BY <1>7, <2>2, <3>1, <3>2 DEF IsLast, Pending, IInv, TypeOK, ClusterTypeOK
      <4> QED
        BY <1>1, <1>2, <2>1, <2>2, <3>2, <4>1
    <3>3. CASE m # n
      <4>1. Pending(m)' = Pending(m) /\ chan'[i] = chan[i]
        BY <2>2, <3>3
      <4>2. IsLast(i, Pending(m))
        BY <3>1, <4>1
      <4> QED
        BY <2>1, <3>3, <4>1, <4>2 DEF LastEventInv
    <3> QED
      BY <3>2, <3>3
  <2>4. SettledInv'
    BY <1>1, <1>3, <2>1, <2>2 DEF SettledInv
  <2>5. FirstEventInv'
    <3>1. SUFFICES ASSUME ~stored, NEW m \in Names \ tainted, NEW i \in Pending(m)',
                          IsFirst(i, Pending(m)')
                   PROVE  chan'[i].type # "DELETED"
      BY <1>3 DEF FirstEventInv
    <3>2. CASE chan'[i] = e
      BY <1>2, <3>2
    <3>3. CASE i \in Pending(m) /\ chan'[i] = chan[i]
      <4>1. Pending(m) \subseteq Pending(m)'
        BY <2>2
      <4>2. IsFirst(i, Pending(m))
        BY <3>1, <3>3, <4>1 DEF IsFirst
      <4> QED
        BY <2>1, <3>1, <3>3, <4>2 DEF FirstEventInv
    <3> QED
      BY <2>2, <3>2, <3>3
  <2> QED
    BY <2>3, <2>4, <2>5
<1> QED
  BY <1>4, <1>6, <1>11, <1>12, <1>13 DEF IInv

LEMMA DeleteInv ==
  ASSUME IInv, NEW n \in Names, Delete(n), UNCHANGED <<loopVars, storeVars, tainted>>
  PROVE  IInv'
<1> DEFINE e == [type |-> "DELETED", name |-> n, ver |-> rv + 1]
<1>1. /\ rv \in Nat /\ rv' = rv + 1 /\ live[n] # 0
      /\ live' = [live EXCEPT ![n] = 0] /\ died' = [died EXCEPT ![n] = rv + 1]
      /\ UNCHANGED <<watch, openRV>> /\ Publish(e) /\ TypeOK
  BY DEF Delete, IInv, TypeOK, ClusterTypeOK
<1>2. e \in Event /\ e.name = n /\ e.ver = rv + 1 /\ e.type = "DELETED"
  BY <1>1 DEF Event, EventTypes
<1> HIDE DEF e
<1>3. UNCHANGED <<pc, canceled, restarts, stored, list, faults, tainted>>
  BY DEF loopVars, storeVars
<1>4. live \in [Names -> Nat] /\ died \in [Names -> Nat] /\ openRV \in Nat /\ Len(chan) \in Nat
  BY DEF IInv, TypeOK, ClusterTypeOK
<1>5. /\ live' \in [Names -> Nat] /\ live'[n] = 0
      /\ \A m \in Names : m # n => live'[m] = live[m] /\ died'[m] = died[m]
      /\ died' \in [Names -> Nat] /\ died'[n] = rv + 1
  BY <1>1, <1>4
<1>6. TypeOK'
  BY <1>1, <1>2, <1>3, <1>5, PublishPending DEF TypeOK, ClusterTypeOK, LoopTypeOK
<1>7. WatchInv' /\ EventInv' /\ ListInv'
  <2>1. WatchInv'
    BY <1>1, <1>3 DEF IInv, WatchInv, Publish
  <2>2. EventInv'
    BY <1>1, <1>2, NamesAssumption, PublishPending DEF IInv, EventInv
  <2> QED
    BY <1>3, <2>1, <2>2 DEF IInv, ListInv
<1>8. RVInv'
  <2>1. \A i \in DOMAIN chan : chan[i].ver \in Nat /\ chan[i].ver <= rv
    BY <1>1, VersionTypes DEF IInv, RVInv
  <2>2. \A i \in DOMAIN chan' : chan'[i].ver <= rv'
    BY <1>1, <1>2, <2>1, PublishPending
  <2>3. \A m \in Names : list[m] # <<>> => Head(list[m]) \in Nat
    BY <1>1, VersionTypes
  <2>4. \A m \in Names : live'[m] <= rv' /\ died'[m] <= rv'
    BY <1>1, <1>4, <1>5 DEF IInv, RVInv
  <2> QED
    BY <1>1, <1>3, <1>4, <2>2, <2>3, <2>4 DEF IInv, RVInv
<1>9. OrderInv'
  <2>1. SUFFICES ASSUME NEW m \in Names
                 PROVE  /\ \A i, j \in Pending(m)' : i < j => chan'[i].ver <= chan'[j].ver
                        /\ list[m] # <<>> => \A i \in Pending(m)' : Head(list[m]) <= chan'[i].ver
                        /\ live'[m] # 0 => \A i \in Pending(m)' : chan'[i].ver <= live'[m]
                        /\ live'[m] # 0 /\ list[m] # <<>> => Head(list[m]) <= live'[m]
    BY <1>3 DEF OrderInv
  <2>2. \A i \in Pending(m) : i \in Nat /\ chan[i].ver \in Nat /\ chan[i].ver <= rv
    BY <1>1, VersionTypes DEF IInv, RVInv, Pending
  <2>3. \A i \in Pending(m)' :
          \/ i \in Pending(m) /\ i <= Len(chan) /\ chan'[i] = chan[i]
          \/ i = Len(chan) + 1 /\ chan'[i].ver = rv + 1 /\ m = n
    BY <1>1, <1>2, PublishPending
  <2>4. ASSUME NEW i \in Pending(m)', NEW j \in Pending(m)', i < j
        PROVE  chan'[i].ver <= chan'[j].ver
    <3>1. CASE chan'[j].ver = rv + 1
      BY <1>1, <2>2, <2>3, <3>1
    <3>2. CASE j \in Pending(m) /\ j <= Len(chan) /\ chan'[j] = chan[j]
      <4>1. i \in Pending(m) /\ chan'[i] = chan[i]
        BY <1>4, <2>2, <2>3, <2>4, <3>2
      <4> QED
        BY <2>4, <3>2, <4>1 DEF IInv, OrderInv
    <3> QED
      BY <2>3, <3>1, <3>2
  <2>5. list[m] # <<>> => Head(list[m]) \in Nat /\ Head(list[m]) <= rv
    BY <1>1, VersionTypes DEF IInv, RVInv
  <2>6. list[m] # <<>> => \A i \in Pending(m)' : Head(list[m]) <= chan'[i].ver
    BY <1>1, <2>3, <2>5 DEF IInv, OrderInv
  <2>7. live'[m] # 0 => m # n /\ live'[m] = live[m]
    BY <1>5
  <2>8. live'[m] # 0 => \A i \in Pending(m)' : chan'[i].ver <= live'[m]
    BY <2>3, <2>7 DEF IInv, OrderInv
  <2> QED
    BY <2>4, <2>6, <2>7, <2>8 DEF IInv, OrderInv
<1>10. ASSUME watch' = "open" PROVE LastEventInv' /\ SettledInv' /\ FirstEventInv'
  <2>1. watch = "open" /\ LastEventInv /\ SettledInv /\ FirstEventInv
    BY <1>1, <1>10 DEF IInv
  <2>2. /\ Len(chan) + 1 \in Pending(n)' /\ chan'[Len(chan) + 1] = e
        /\ \A m \in Names : \A i \in Pending(m)' :
             \/ i \in Pending(m) /\ i <= Len(chan) /\ chan'[i] = chan[i]
             \/ i = Len(chan) + 1 /\ chan'[i] = e /\ m = n
        /\ \A m \in Names : m # n => Pending(m)' = Pending(m)
        /\ Pending(n) \subseteq Pending(n)'
    BY <1>1, <1>2, <2>1, PublishPending
  <2>3. LastEventInv'
    <3>1. SUFFICES ASSUME NEW m \in Names, NEW i \in Pending(m)', IsLast(i, Pending(m)')
                   PROVE  IF live'[m] = 0 THEN chan'[i].type = "DELETED"
                                          ELSE /\ chan'[i].type \in {"ADDED", "MODIFIED"}
                                               /\ chan'[i].ver = live'[m]
      BY DEF LastEventInv
    <3>2. CASE m = n
      <4>1. i = Len(chan) + 1
        BY <1>1, <1>4, <2>2, <3>1, <3>2, VersionTypes DEF IsLast
      <4> QED
        BY <1>2, <1>5, <2>2, <3>2, <4>1
    <3>3. CASE m # n
      <4>1. Pending(m)' = Pending(m) /\ chan'[i] = chan[i]
        BY <2>2, <3>3
      <4>2. IsLast(i, Pending(m))
        BY <3>1, <4>1
      <4> QED
        BY <1>5, <2>1, <3>3, <4>1, <4>2 DEF LastEventInv
    <3> QED
      BY <3>2, <3>3
  <2>4. SettledInv'
    BY <1>1, <1>3, <1>5, <2>1, <2>2 DEF SettledInv
  <2>5. FirstEventInv'
    <3>1. SUFFICES ASSUME ~stored, NEW m \in Names \ tainted, NEW i \in Pending(m)',
                          IsFirst(i, Pending(m)')
                   PROVE  chan'[i].type # "DELETED"
      BY <1>3 DEF FirstEventInv
    <3>2. list[m] = <<>> /\ <<>> # <<live[m]>>
      BY <3>1 DEF IInv, ListInv, EmptyList
    <3>3. ASSUME m = n PROVE Pending(m) # {}
      BY <1>1, <2>1, <3>1, <3>2, <3>3 DEF SettledInv
    <3>4. Pending(m) \subseteq Pending(m)' /\ \A j \in Pending(m) : j \in Nat /\ j < Len(chan) + 1
      BY <1>4, <2>2 DEF Pending, IInv, TypeOK, ClusterTypeOK
    <3>5. i \in Pending(m) /\ chan'[i] = chan[i]
      BY <1>4, <2>2, <3>1, <3>3, <3>4 DEF IsFirst
    <3>6. IsFirst(i, Pending(m))
      BY <3>1, <3>4, <3>5 DEF IsFirst
    <3> QED
      BY <2>1, <3>1, <3>5, <3>6 DEF FirstEventInv
  <2> QED
    BY <2>3, <2>4, <2>5
<1> QED
  BY <1>6, <1>7, <1>8, <1>9, <1>10 DEF IInv

\* What is left of the channel when the watch ends is a part of it, in order.
LEMMA EndWatchInv ==
  ASSUME IInv, EndWatch, UNCHANGED <<loopVars, storeVars, tainted>>
  PROVE  IInv'
<1>1. /\ watch = "open" /\ watch' = "ended" /\ UNCHANGED <<live, died, rv, openRV>>
      /\ UNCHANGED <<pc, canceled, restarts, stored, list, faults, tainted>>
      /\ TypeOK /\ chan \in Seq(Event) /\ Len(chan) \in Nat /\ rv \in Nat
  BY DEF EndWatch, loopVars, storeVars, IInv, TypeOK, ClusterTypeOK
<1>2. PICK k \in 0..Len(chan) :
         chan' \in {SubSeq(chan, 1, k), Append(SubSeq(chan, 1, k), ErrorEvent)}
  BY DEF EndWatch
<1>3. /\ SubSeq(chan, 1, k) \in Seq(Event) /\ Len(SubSeq(chan, 1, k)) = k
      /\ DOMAIN SubSeq(chan, 1, k) = 1..k
      /\ \A i \in 1..k : SubSeq(chan, 1, k)[i] = chan[i]
  BY <1>1, <1>2, SubSeqProperties
<1>4. ErrorEvent \in Event /\ ErrorEvent.type = "ERROR" /\ ErrorEvent.name = NoName
                           /\ ErrorEvent.ver = 0
  BY DEF ErrorEvent, Event, EventTypes
<1>5. /\ chan' \in Seq(Event)
      /\ \A i \in DOMAIN chan' : \/ i \in DOMAIN chan /\ chan'[i] = chan[i]
                                \/ chan'[i] = ErrorEvent
  <2> DEFINE s == SubSeq(chan, 1, k)
  <2>1. CASE chan' = s
    BY <1>1, <1>2, <1>3, <2>1
  <2>2. CASE chan' = Append(s, ErrorEvent)
    <3> HIDE DEF s
    <3>1. s \in Seq(Event) /\ Len(s) = k /\ \A i \in 1..k : s[i] = chan[i]
      BY <1>3 DEF s
    <3>2. /\ chan' \in Seq(Event) /\ DOMAIN chan' = 1..(k + 1)
          /\ chan'[k + 1] = ErrorEvent /\ \A i \in 1..k : chan'[i] = s[i]
      BY <1>2, <1>4, <2>2, <3>1
    <3> QED
      BY <1>1, <1>2, <3>1, <3>2
  <2> QED
    BY <1>2, <2>1, <2>2
<1>6. \A n \in Names : \A i \in Pending(n)' : i \in Pending(n) /\ chan'[i] = chan[i]
  BY <1>4, <1>5, NamesAssumption DEF Pending
<1>7. TypeOK'
  BY <1>1, <1>5 DEF TypeOK, ClusterTypeOK, LoopTypeOK
<1>8. WatchInv' /\ ListInv'
  BY <1>1 DEF IInv, WatchInv, ListInv
<1>9. EventInv'
  BY <1>4, <1>5 DEF IInv, EventInv
<1>10. RVInv'
  BY <1>1, <1>4, <1>5 DEF IInv, RVInv
<1>11. OrderInv'
  BY <1>1, <1>6 DEF IInv, OrderInv
<1> QED
  BY <1>1, <1>7, <1>8, <1>9, <1>10, <1>11 DEF IInv

(***************************************************************************)
(* The theorems.                                                           *)
(***************************************************************************)

LEMMA InitInv == Init => IInv
<1> SUFFICES ASSUME Init PROVE IInv
  OBVIOUS
<1>1. chan = <<>> /\ DOMAIN chan = {} /\ \A n : Pending(n) = {}
  BY DEF Init, ClusterInit, Pending
<1>2. EmptyList \in StoredList /\ \A n \in Names : EmptyList[n] = <<>>
  BY DEF EmptyList, StoredList
<1>3. TypeOK
  <2>1. ClusterTypeOK
    BY DEF Init, ClusterInit, ClusterTypeOK
  <2>2. LoopTypeOK
    <3>1. pc = "opening" /\ canceled = FALSE /\ restarts = 0
      BY DEF Init, LoopInit
    <3>2. restarts \in 0..MaxRestarts
      BY <3>1, MaxRestartsAssumption
    <3> QED
      BY <3>1, <3>2 DEF LoopTypeOK, LoopStates
  <2>3. faults \in 0..MaxFaults
    BY MaxFaultsAssumption DEF Init
  <2> QED
    BY <1>2, <2>1, <2>2, <2>3 DEF Init, TypeOK
<1>4. WatchInv /\ EventInv /\ RVInv /\ OrderInv
  BY <1>1, <1>2
  DEF Init, ClusterInit, LoopInit, WatchInv, EventInv, RVInv, OrderInv
<1>5. ListInv
  <2>1. Len(<<>>) = 0
    OBVIOUS
  <2> QED
    BY <1>2, <2>1 DEF Init, ListInv
<1> QED
  BY <1>3, <1>4, <1>5 DEF IInv, Init, ClusterInit

LEMMA NextInv == IInv /\ [Next]_vars => IInv'
<1> SUFFICES ASSUME IInv, [Next]_vars PROVE IInv'
  OBVIOUS
<1>1. CASE ClusterNext /\ UNCHANGED <<loopVars, storeVars, tainted>>
  BY <1>1, PutInv, DeleteInv, EndWatchInv DEF ClusterNext
<1>2. CASE LoopNext /\ UNCHANGED <<storeVars, tainted>>
  BY <1>2, LoopInv
<1>3. CASE Open
  BY <1>3, OpenInv
<1>4. CASE SkipEvent \/ ApplyEvent \/ LoseUpdate
  BY <1>4, SkipInv, ApplyInv, LoseInv
<1>5. CASE ReadFaultCronJob \/ ReadFaultJob
  BY <1>5, ReadFaultCronJobInv, ReadFaultJobInv
<1>6. CASE RestartContainer \/ ReplacePod
  BY <1>6, RestartInv
<1>7. CASE UNCHANGED vars
  <2>1. /\ UNCHANGED clusterVars /\ UNCHANGED <<stored, list, tainted, faults>>
        /\ UNCHANGED <<pc, canceled, restarts>>
    BY <1>7 DEF vars, loopVars, storeVars
  <2>2. TypeOK' /\ (pc' # "receiving" => watch = "none")
    BY <2>1 DEF IInv, TypeOK, ClusterTypeOK, LoopTypeOK, WatchInv, clusterVars
  <2> QED
    BY <2>1, <2>2, QuietInv
<1> QED
  BY <1>1, <1>2, <1>3, <1>4, <1>5, <1>6, <1>7 DEF Next

\* The events on their way and the stored list fit together in every state.
THEOREM Invariance == Spec => []IInv
  BY InitInv, NextInv, PTL DEF Spec

\* No name is twice in the list (filterCronJobsList, filterStoredJobList).
THEOREM NoDuplicates == Spec => []NoDuplicateEntries
<1>1. IInv => NoDuplicateEntries
  BY DEF IInv, ListInv, NoDuplicateEntries
<1> QED
  BY <1>1, Invariance, PTL

\* When its open watch is drained, the collector has every live object that no
\* DB fault touched, in its current version.
THEOREM CaughtUp == Spec => []CaughtUpIsCurrent
<1>1. IInv => CaughtUpIsCurrent
  <2> SUFFICES ASSUME IInv, Quiet, NEW n \in LiveNames \ tainted
               PROVE  list[n] = <<live[n]>>
    BY DEF CaughtUpIsCurrent
  <2>1. Pending(n) = {}
    BY DEF Quiet, Pending
  <2> QED
    BY <2>1 DEF IInv, Quiet, SettledInv, LiveNames
<1> QED
  BY <1>1, Invariance, PTL

\* The objects that linger in the list are those whose deletion no watch saw.
THEOREM Lingering == Spec => []LingerOnlyIfMissed
<1>1. IInv => LingerOnlyIfMissed
  <2> SUFFICES ASSUME IInv, Quiet, NEW n \in Names \ tainted, live[n] = 0, list[n] # <<>>
               PROVE  died[n] <= openRV
    BY DEF LingerOnlyIfMissed
  <2>1. Pending(n) = {}
    BY DEF Quiet, Pending
  <2> QED
    BY <2>1 DEF IInv, Quiet, SettledInv
<1> QED
  BY <1>1, Invariance, PTL

\* An item of the list is never replaced by an older version of its object.
THEOREM StoreMonotonic == Spec => StoreNeverGoesBack
<1> DEFINE Forward == \A n \in Names :
              list[n] # <<>> /\ list'[n] # <<>> => Head(list[n]) <= Head(list'[n])
<1>1. ASSUME IInv, NEW ev \in Event, ev = Head(chan), ev.type # "ERROR", Receive,
             \A n \in Names \ {ev.name} : list'[n] \in {list[n], <<>>},
             list'[ev.name] \in {<<>>, <<ev.ver>>}
      PROVE  Forward
  <2> SUFFICES ASSUME NEW n \in Names, list[n] # <<>>, list'[n] # <<>>
               PROVE  Head(list[n]) <= Head(list'[n])
    OBVIOUS
  <2>1. Head(list[n]) \in Nat
    BY <1>1, VersionTypes DEF IInv
  <2>2. CASE n # ev.name
    BY <1>1, <2>1, <2>2
  <2>3. CASE n = ev.name
    <3>1. 1 \in Pending(n) /\ chan[1] = ev
      BY <1>1, <2>3, ReceiveUnchanged, TakeHead, TakeShifts DEF IInv
    <3>2. Head(list[n]) <= ev.ver
      BY <1>1, <3>1 DEF IInv, OrderInv
    <3>3. list'[n] = <<ev.ver>> /\ Head(<<ev.ver>>) = ev.ver
      BY <1>1, <2>3
    <3> QED
      BY <3>2, <3>3
  <2> QED
    BY <2>2, <2>3
<1>2. ASSUME IInv, UNCHANGED list PROVE Forward
  <2>1. \A n \in Names : list[n] # <<>> => Head(list[n]) \in Nat
    BY <1>2, VersionTypes DEF IInv
  <2> QED
    BY <1>2, <2>1
<1>3. ASSUME IInv, ApplyEvent \/ ReadFaultJob PROVE Forward
  <2> DEFINE ev == Head(chan)
  <2>1. Receive /\ TakeEvent /\ ev.type # "ERROR"
    BY <1>3, ReceiveUnchanged DEF ApplyEvent, ReadFaultJob
  <2>2. ev \in Event /\ ev.name \in Names /\ ev.ver \in Nat /\ list \in StoredList
    BY <1>3, <2>1, HeadName, TakeShifts DEF IInv, TypeOK
  <2>3. \/ list' = OnlyEvent(ev)
        \/ list' = UpdateStoredCronjobList(list, ev)
        \/ list' = UpdateStoredJobList(list, ev)
    BY <1>3 DEF ApplyEvent, ReadFaultJob, HandleCronJobEvent, HandleJobEvent, StoreEntry
  <2>4. /\ \A n \in Names \ {ev.name} : list'[n] \in {list[n], <<>>}
        /\ list'[ev.name] \in {<<>>, <<ev.ver>>}
    <3>1. CASE list' = OnlyEvent(ev)
      BY <2>2, <3>1, OnlyEventValue
    <3>2. CASE \/ list' = UpdateStoredCronjobList(list, ev)
               \/ list' = UpdateStoredJobList(list, ev)
      <4>1. /\ list'[ev.name] = IF ev.type = "DELETED" THEN <<>> ELSE <<ev.ver>>
            /\ \A m \in Names \ {ev.name} : list'[m] = list[m]
        BY <2>1, <2>2, <3>2, UpdateValue
      <4> QED
        BY <4>1
    <3> QED
      BY <2>3, <3>1, <3>2
  <2> HIDE DEF Forward
  <2> QED
    BY <1>1, <1>3, <2>1, <2>2, <2>4
<1>4. IInv /\ [Next]_vars => [Forward]_vars
  <2> SUFFICES ASSUME IInv, Next PROVE Forward
    OBVIOUS
  <2>1. CASE ApplyEvent \/ ReadFaultJob
    BY <1>3, <2>1
  <2>2. CASE ReplacePod
    BY <2>2 DEF ReplacePod, EmptyList
  <2>3. CASE UNCHANGED list
    BY <1>2, <2>3
  <2> QED
    BY <2>1, <2>2, <2>3
    DEF Next, storeVars, Open, SkipEvent, LoseUpdate, ReadFaultCronJob, RestartContainer
<1> QED
  BY <1>4, Invariance, PTL DEF Spec, StoreNeverGoesBack
=============================================================================
