------------------------------- MODULE Mirror -------------------------------
(***************************************************************************)
(* What the list of cronjobs, or of jobs, promises to those who read it    *)
(* (FindCronjobs, FindJobs of src/internal/store/store.go): a mirror of    *)
(* the cluster that may lag behind, lose everything at once and keep what  *)
(* is gone, and does nothing else.  ListCollector implements it: there are *)
(* no watches, events, faults or keys here.                                *)
(***************************************************************************)
EXTENDS Naturals, Sequences

CONSTANT Names   \* the names that objects of this kind can take

VARIABLES
    live,  \* resourceVersion of each object in the cluster, 0 when absent
    died,  \* resourceVersion of the last deletion of each name
    rv,    \* the cluster's current resourceVersion
    list   \* what a reader is given: the versions listed under each name

vars == <<live, died, rv, list>>

Nothing == [n \in Names |-> <<>>]

\* The last thing that happened to an object.
Newest(n) == IF live[n] > died[n] THEN live[n] ELSE died[n]

Init ==
    /\ live = [n \in Names |-> 0]
    /\ died = [n \in Names |-> 0]
    /\ rv = 0
    /\ list = Nothing

Put(n) ==
    /\ rv' = rv + 1
    /\ live' = [live EXCEPT ![n] = rv + 1]
    /\ UNCHANGED <<died, list>>

Delete(n) ==
    /\ live[n] # 0
    /\ rv' = rv + 1
    /\ live' = [live EXCEPT ![n] = 0]
    /\ died' = [died EXCEPT ![n] = rv + 1]
    /\ UNCHANGED list

\* One object's item is brought forward, never past what happened to it.
Hear(n) ==
    /\ \E v \in 1..Newest(n) :
         /\ list[n] # <<>> => Head(list[n]) <= v
         /\ list' = [list EXCEPT ![n] = <<v>>]
    /\ UNCHANGED <<live, died, rv>>

\* One object's item leaves because the object it shows was deleted.
Forget(n) ==
    /\ list[n] # <<>>
    /\ Head(list[n]) <= died[n]
    /\ list' = [list EXCEPT ![n] = <<>>]
    /\ UNCHANGED <<live, died, rv>>

\* Everything is lost, but for one object that is just heard of.
Lose ==
    /\ \/ list' = Nothing
       \/ \E n \in Names : \E v \in 1..Newest(n) :
            /\ list[n] # <<>> => Head(list[n]) <= v
            /\ list' = [Nothing EXCEPT ![n] = <<v>>]
    /\ UNCHANGED <<live, died, rv>>

Next ==
    \/ \E n \in Names : Put(n) \/ Delete(n) \/ Hear(n) \/ Forget(n)
    \/ Lose

Spec == Init /\ [][Next]_vars
=============================================================================
