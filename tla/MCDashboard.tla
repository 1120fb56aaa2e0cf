----------------------------- MODULE MCDashboard -----------------------------
(* The TLC run of the recorder and a dashboard request, with the constants   *)
(* of MCMetrics.                                                             *)
EXTENDS Dashboard, MCMetrics
==============================================================================
