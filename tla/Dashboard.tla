----------------------------- MODULE Dashboard -----------------------------
(***************************************************************************)
(* GetDashboardAnnotations (src/sk8l.go) and the generator of panels that  *)
(* it calls (src/internal/dashboard/dashboards.go), composed with the      *)
(* recorder that fills metricsNamesMap meanwhile.                          *)
(*                                                                         *)
(* A dashboard is made of three passes over the map, each of them a        *)
(* sync.Map.Range, which is no snapshot: it visits every name that is in   *)
(* the map when it begins and any of those that are stored before it ends. *)
(* The panels are abstracted to the sanitized names of the cronjobs whose  *)
(* metrics they query; those of the totals, which are registered when the  *)
(* process starts, are left out.  Requests share nothing but the map: one  *)
(* is enough.                                                              *)
(***************************************************************************)
EXTENDS Metrics

VARIABLES
    pass,    \* the pass of the request, "idle" without a request, or "replied"
    lower,   \* the names in the map when the pass began
    panels,  \* the panels made so far
    asked    \* the failure metrics that were registered at the request (history)

dashboardVars == <<pass, lower, panels, asked>>

allVars == <<vars, dashboardVars>>

NoPanels == [timeline |-> {}, history |-> {}, rows |-> {}]

\* The cronjobs for which a scrape shows a metric.
Registered(metric) == {desc[2] : desc \in {d \in registry : d[1] = metric}}

DashboardInit ==
    /\ Init
    /\ pass = "idle"
    /\ lower = {}
    /\ panels = NoPanels
    /\ asked = {}

-----------------------------------------------------------------------------

\* What a Range that began with the names in lower may have visited by now.
Visited == {lower \cup more : more \in SUBSET (names \ lower)}

\* GetDashboardAnnotations: GeneratePanels, the totals of the namespace (which
\* are not made of the map), and the first pass begins.
GeneratePanels ==
    /\ pass = "idle"
    /\ pass' = "timelines"
    /\ lower' = names
    /\ panels' = NoPanels
    /\ asked' = Registered("failure_total")

\* Mutant: the callback of the Range returns false, and ends it.
AllStateTimelinesMutFirstOnly ==
    /\ pass = "timelines"
    /\ \E V \in Visited : V # {} /\ \E n \in V : panels' = [panels EXCEPT !.timeline = {n}]
    /\ pass' = "history"
    /\ lower' = names
    /\ UNCHANGED asked

\* collectFailureTargets of the "status timeline", and the next pass begins.
AllStateTimelines ==
    /\ pass = "timelines"
    /\ \E V \in Visited : panels' = [panels EXCEPT !.timeline = V]
    /\ pass' = "history"
    /\ lower' = names
    /\ UNCHANGED asked

\* The same of the "status history".
AllStatusHistory ==
    /\ pass = "history"
    /\ \E V \in Visited : panels' = [panels EXCEPT !.history = V]
    /\ pass' = "rows"
    /\ lower' = names
    /\ UNCHANGED asked

\* Only the name that is visited first makes a row; its panels query what the
\* variable ${cronjob} chooses, but for the durations, which are those of this
\* cronjob whatever is chosen.
GenerateCronJobRowPanels ==
    /\ pass = "rows"
    /\ \E V \in Visited :
         IF V = {} THEN panels' = panels
                   ELSE \E first \in V : panels' = [panels EXCEPT !.rows = {first}]
    /\ pass' = "replied"
    /\ lower' = {}
    /\ UNCHANGED asked

ForgetRequest ==
    /\ pass' = "idle"
    /\ lower' = {}
    /\ panels' = NoPanels
    /\ asked' = {}

\* The client has its dashboard.
Reply ==
    /\ pass = "replied"
    /\ ForgetRequest

Request ==
    \/ GeneratePanels
    \/ AllStateTimelines
    \/ AllStatusHistory
    \/ GenerateCronJobRowPanels
    \/ Reply

\* The end of the process is the end of the request.
DashboardNext ==
    \/ Request /\ UNCHANGED vars
    \/ RecorderNext /\ UNCHANGED dashboardVars
    \/ Restart /\ ForgetRequest

DashboardSpec == DashboardInit /\ [][DashboardNext]_allVars

-----------------------------------------------------------------------------
(* What the passes know of the map, and the map of the registry: an        *)
(* inductive invariant, together with IInv.                                *)

\* Each pass visits at least what the ones before it did.
PassInv ==
    /\ asked \subseteq names /\ lower \subseteq names
    /\ panels \in [timeline : SUBSET names, history : SUBSET names, rows : SUBSET names]
    /\ pass = "timelines" => asked \subseteq lower
    /\ pass \in {"history", "rows", "replied"} => asked \subseteq panels.timeline
    /\ pass \in {"rows", "replied"} => asked \subseteq panels.history
    /\ pass \in {"history", "rows"} => panels.timeline \subseteq lower
    /\ pass = "replied" /\ panels.timeline # {} => panels.rows # {}

\* Only the cronjob that is being recorded has a name and no failure gauge yet, and
\* its completion gauge comes first.
RecordedInv ==
    /\ names \subseteq Registered("failure_total") \cup
           (IF pc \in {"jobs", "failures"} THEN {MetricName[Head(todo)]} ELSE {})
    /\ Registered("failure_total") \subseteq Registered("completion_total")
    /\ pc = "failures" => MetricName[Head(todo)] \in Registered("completion_total")

DashboardInv == PassInv /\ RecordedInv

-----------------------------------------------------------------------------
(* Properties.                                                             *)

\* A dashboard has every failure metric that a scrape showed when it was asked
\* for: in both panels over all cronjobs, and it has the rows of a cronjob, for
\* any names that the recorder stores between and during the three passes.
DashboardCoversRegistered ==
    pass = "replied" =>
        /\ asked \subseteq panels.timeline \cap panels.history
        /\ panels.timeline # {} => panels.rows # {}

\* Once the recorder is done with a response, the panels over all cronjobs query only
\* failure metrics that are registered, and the cronjob of the rows has its failure
\* and its completion metric.  Its duration metric, which the rows query by name, is
\* registered if its cronjob has a job in the response; for a cronjob that never had
\* one they query what nobody exports.
DashboardQueriesRegistered ==
    Between =>
        /\ panels.timeline \cup panels.history \subseteq Registered("failure_total")
        /\ panels.rows \subseteq Registered("failure_total") \cap Registered("completion_total")
        /\ \A e \in DOMAIN response.jobs :
             MetricName[e[1]] \in panels.rows =>
                 MetricName[e[1]] \in Registered("duration_seconds")
=============================================================================
