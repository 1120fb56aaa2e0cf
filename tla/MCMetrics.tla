------------------------------ MODULE MCMetrics ------------------------------
(***************************************************************************)
(* Constants of the TLC runs of Metrics: b-c and b.c share their metrics;  *)
(* b-c owns two jobs, one of them together with b.c.                       *)
(***************************************************************************)
EXTENDS Metrics, TLC

MCCronjobs == {"b-c", "b.c", "d"}
MCSeenLists == {<<"b-c", "b.c">>, <<"b.c", "d">>, <<"d">>}
MCOwners == ("own" :> {"b-c"}) @@ ("shared" :> {"b-c", "b.c"})
MCMetricName == ("b-c" :> "b_c") @@ ("b.c" :> "b_c") @@ ("d" :> "d")
MCSeenStatuses == {{"active"}, {"active", "failed"}, {"completed"}}
==============================================================================
