---------------------------- MODULE ClusterWatch ----------------------------
(***************************************************************************)
(* The part of the Kubernetes API server that sk8l depends on: the objects *)
(* of one kind in the watched namespace and the watch that one collector   *)
(* keeps on them.  EXTERNAL code, modelled from the way the collectors of  *)
(* src/sk8l.go and the client of src/internal/k8s/k8s.go use it.           *)
(*                                                                         *)
(* An object is abstracted to its name and its resourceVersion, which is   *)
(* all that the collectors and their readers can tell two states of it     *)
(* apart by.  Every write takes the next resourceVersion of the cluster.   *)
(***************************************************************************)
EXTENDS Naturals, Sequences, FiniteSets

CONSTANTS Names,   \* the names that objects of this kind can take
          NoName,  \* the name in a watch event that carries no such object
          MaxRV    \* bound on the number of writes to the cluster

ASSUME NamesAssumption == Names # {} /\ IsFiniteSet(Names) /\ NoName \notin Names
ASSUME MaxRVAssumption == MaxRV \in Nat

VARIABLES
    live,    \* resourceVersion of each object in the cluster, 0 when absent
    died,    \* resourceVersion of the last deletion of each name (history)
    rv,      \* the cluster's current resourceVersion
    watch,   \* the collector's watch: "none", "open" or "ended"
    openRV,  \* rv when the current watch was opened (history)
    chan     \* events sent on the watch and not yet received

clusterVars == <<live, died, rv, watch, openRV, chan>>

EventTypes == {"ADDED", "MODIFIED", "DELETED", "ERROR"}

Event == [type : EventTypes, name : Names \cup {NoName}, ver : Nat]

\* What the server sends when it gives a watch up (410 Gone, a broken body):
\* event.Object is then a *metav1.Status.
ErrorEvent == [type |-> "ERROR", name |-> NoName, ver |-> 0]

LiveNames == {n \in Names : live[n] # 0}

ClusterTypeOK ==
    /\ live \in [Names -> Nat]
    /\ died \in [Names -> Nat]
    /\ rv \in Nat
    /\ watch \in {"none", "open", "ended"}
    /\ openRV \in Nat
    /\ chan \in Seq(Event)

ClusterInit ==
    /\ live = [n \in Names |-> 0]
    /\ died = [n \in Names |-> 0]
    /\ rv = 0
    /\ watch = "none"
    /\ openRV = 0
    /\ chan = <<>>

-----------------------------------------------------------------------------

Publish(e) ==
    chan' = IF watch = "open" THEN Append(chan, e) ELSE chan

\* An object is created, or an existing one is written to.
Put(n) ==
    /\ rv < MaxRV
    /\ rv' = rv + 1
    /\ live' = [live EXCEPT ![n] = rv + 1]
    /\ Publish([type |-> IF live[n] = 0 THEN "ADDED" ELSE "MODIFIED",
                name |-> n, ver |-> rv + 1])
    /\ UNCHANGED <<died, watch, openRV>>

Delete(n) ==
    /\ rv < MaxRV
    /\ live[n] # 0
    /\ rv' = rv + 1
    /\ live' = [live EXCEPT ![n] = 0]
    /\ died' = [died EXCEPT ![n] = rv + 1]
    /\ Publish([type |-> "DELETED", name |-> n, ver |-> rv + 1])
    /\ UNCHANGED <<watch, openRV>>

\* The connection ends, by the server's watch timeout or by a failure: the
\* last events in flight are lost, and an ERROR event may come before the end.
EndWatch ==
    /\ watch = "open"
    /\ watch' = "ended"
    /\ \E k \in 0..Len(chan) :
         chan' \in {SubSeq(chan, 1, k), Append(SubSeq(chan, 1, k), ErrorEvent)}
    /\ UNCHANGED <<live, died, rv, openRV>>

-----------------------------------------------------------------------------

\* All the ways to list the elements of the finite set S, each of them once.
Orderings(S) ==
    {s \in [1..Cardinality(S) -> S] : \A x \in S : \E i \in DOMAIN s : s[i] = x}

SyntheticAdded(order) ==
    [i \in DOMAIN order |->
        [type |-> "ADDED", name |-> order[i], ver |-> live[order[i]]]]

\* Mutant: the watch resumes from the current resourceVersion.
StartWatchMutFromNow ==
    /\ watch' = "open"
    /\ openRV' = rv
    /\ chan' = <<>>
    /\ UNCHANGED <<live, died, rv>>

\* The server accepts a watch without a resourceVersion (the ListOptions of
\* the collectors are empty): it starts with an ADDED event for each object.
StartWatch ==
    /\ watch' = "open"
    /\ openRV' = rv
    /\ \E order \in Orderings(LiveNames) : chan' = SyntheticAdded(order)
    /\ UNCHANGED <<live, died, rv>>

\* The watch is closed by its reader, or is gone with it.
StopWatch ==
    /\ watch' = "none"
    /\ chan' = <<>>
    /\ UNCHANGED <<live, died, rv, openRV>>

\* The reader takes the next event.
TakeEvent ==
    /\ chan # <<>>
    /\ chan' = Tail(chan)
    /\ UNCHANGED <<live, died, rv, watch, openRV>>

ClusterNext ==
    \/ \E n \in Names : Put(n) \/ Delete(n)
    \/ EndWatch
=============================================================================
