----------------------------- MODULE WatchLoop -----------------------------
(***************************************************************************)
(* The control loop that collectCronjobs, collectJobs and collectPods of   *)
(* src/sk8l.go share: open a watch, back off for 5s when that fails,       *)
(* receive its events until its channel is closed, open it again; return   *)
(* when the context is canceled.  What is done with an event is left to    *)
(* the modules that extend this one (ListCollector, PodCollector).         *)
(***************************************************************************)
EXTENDS ClusterWatch

CONSTANT MaxRestarts   \* bound on the number of times the process starts again

ASSUME MaxRestartsAssumption == MaxRestarts \in Nat

VARIABLES
    pc,        \* where the collector's goroutine is
    canceled,  \* whether metricsCancel() was called
    restarts   \* number of restarts so far

loopVars == <<pc, canceled, restarts>>

LoopStates == {"opening", "backoff", "receiving", "stopped", "down"}

LoopTypeOK ==
    /\ pc \in LoopStates
    /\ canceled \in BOOLEAN
    /\ restarts \in 0..MaxRestarts

LoopInit ==
    /\ pc = "opening"
    /\ canceled = FALSE
    /\ restarts = 0

Goto(label) == pc' = label /\ UNCHANGED <<canceled, restarts>>

\* Watch*() succeeds; with a canceled context the client refuses the call.
OpenWatch ==
    /\ pc = "opening"
    /\ ~canceled
    /\ StartWatch
    /\ Goto("receiving")

\* Watch*() returns an error, with or without a canceled context.
OpenFails ==
    /\ pc = "opening"
    /\ Goto("backoff")
    /\ UNCHANGED clusterVars

\* Mutants: the back-off's cases swap continue and return.
RetryMutReturns ==
    /\ pc = "backoff"
    /\ Goto("stopped")
    /\ UNCHANGED clusterVars

StopInBackoffMutContinues ==
    /\ pc = "backoff"
    /\ canceled
    /\ Goto("opening")
    /\ UNCHANGED clusterVars

\* case <-time.After(5 * time.Second)
Retry ==
    /\ pc = "backoff"
    /\ Goto("opening")
    /\ UNCHANGED clusterVars

\* case <-ctx.Done() of the back-off
StopInBackoff ==
    /\ pc = "backoff"
    /\ canceled
    /\ Goto("stopped")
    /\ UNCHANGED clusterVars

\* case event, more := <-x.ResultChan() with more = TRUE
Receive ==
    /\ pc = "receiving"
    /\ TakeEvent
    /\ UNCHANGED loopVars

\* The same case with more = FALSE: the watch is opened again at once.
WatchEnded ==
    /\ pc = "receiving"
    /\ watch = "ended"
    /\ chan = <<>>
    /\ StopWatch
    /\ Goto("opening")

\* case <-ctx.Done() while receiving, also when events are waiting: select
\* chooses among the ready cases at random.
StopReceiving ==
    /\ pc = "receiving"
    /\ canceled
    /\ StopWatch
    /\ Goto("stopped")

\* shutdownServers() calls metricsCancel().
Cancel ==
    /\ pc \notin {"stopped", "down"}
    /\ ~canceled
    /\ canceled' = TRUE
    /\ UNCHANGED <<pc, restarts>>
    /\ UNCHANGED clusterVars

\* The process ends (a panic, an OOM kill, a node that goes away, or the end
\* of main after a shutdown).
Crash ==
    /\ pc # "down"
    /\ StopWatch
    /\ Goto("down")

\* The kubelet starts the container again: main() calls Run() afresh.
RestartProcess ==
    /\ pc = "down"
    /\ restarts < MaxRestarts
    /\ restarts' = restarts + 1
    /\ pc' = "opening"
    /\ canceled' = FALSE
    /\ UNCHANGED clusterVars

\* The steps of the loop that neither open a watch nor take an event from it.
LoopNext ==
    \/ OpenFails
    \/ Retry
    \/ StopInBackoff
    \/ WatchEnded
    \/ StopReceiving
    \/ Cancel
    \/ Crash
=============================================================================
