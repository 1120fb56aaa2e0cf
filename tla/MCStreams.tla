----------------------------- MODULE MCStreams -----------------------------
(***************************************************************************)
(* Constants of the TLC run of Streams: j1 and j2 are in the history, j3   *)
(* is created during the call, in the second of j2.  GetCronjobs answers   *)
(* about c, which owns j3, and d, which owns j1 together with an x that is *)
(* not listed; nobody owns j2.  For GetCronjob all jobs are c's, for       *)
(* GetCronjobPods only j3 is, and for GetJobs j2 and j3 have no owner.     *)
(***************************************************************************)
EXTENDS Streams, TLC

OwnedBy(a, b, c) == ("j1" :> a) @@ ("j2" :> b) @@ ("j3" :> c)

MCScenarios ==
    {<<"GetCronjobs", OwnedBy(<<"d", "x">>, <<>>, <<"c">>), {"d"}>>,
     <<"GetCronjob", OwnedBy(<<"c">>, <<"c">>, <<"c">>), {}>>,
     <<"GetCronjobPods", OwnedBy(<<"d">>, <<"d">>, <<"c">>), {}>>,
     <<"GetJobs", OwnedBy(<<"c">>, <<"c">>, <<>>), {}>>}

MCCreatedAt == ("j1" :> 1) @@ ("j2" :> 2) @@ ("j3" :> 2)

MCPodStates ==
    [m \in Methods |-> {Running, Crashed, Done} \cup
                          IF m = "GetCronjobPods" THEN {Exited} ELSE {}]
=============================================================================
