----------------------------- MODULE MCMessages -----------------------------
(***************************************************************************)
(* A job whose pods have an init container, a sidecar and a main           *)
(* container, or two main containers, on small bounds.                     *)
(***************************************************************************)
EXTENDS Messages

Container(name, restart) ==
    [name |-> name, command |-> <<name, "run">>,
     env |-> <<[name |-> "MODE", value |-> <<"fast">>], [name |-> "KEY", value |-> <<>>]>>,
     restartPolicy |-> restart]

WithSidecar ==
    [containers |-> [ephemeral |-> <<>>,
                     init |-> <<Container("proxy", <<"Always">>)>>,
                     main |-> <<Container("work", <<>>)>>],
     restartPolicy |-> "Never"]

WithInit ==
    [containers |-> [ephemeral |-> <<>>,
                     init |-> <<Container("fetch", <<>>)>>,
                     main |-> <<Container("work", <<>>)>>],
     restartPolicy |-> "OnFailure"]

TwoMain ==
    [containers |-> [ephemeral |-> <<>>,
                     init |-> <<>>,
                     main |-> <<Container("work", <<>>), Container("ship", <<>>)>>],
     restartPolicy |-> "Never"]

OneMain ==
    [containers |-> [ephemeral |-> <<>>,
                     init |-> <<>>,
                     main |-> <<Container("work", <<>>)>>],
     restartPolicy |-> "Never"]

JobSpec(backoffLimit) ==
    [parallelism |-> <<1>>, completions |-> <<1>>, activeDeadlineSeconds |-> <<>>,
     backoffLimit |-> backoffLimit, suspend |-> <<>>, completionMode |-> <<"NonIndexed">>]

\* A job of two pods has one container: the others are given up with their pod.
JobsOfMC ==
    [template : {WithSidecar, WithInit, TwoMain}, spec : {JobSpec(<<0>>)}]
        \cup [template : {OneMain}, spec : {JobSpec(<<1>>)}]

DebuggersOfMC == {Container("debug", <<>>)}

CronJobSpecOfMC ==
    [schedule |-> "* * * * *", timezone |-> <<>>, suspend |-> <<FALSE>>,
     successfulJobsHistoryLimit |-> <<3>>, failedJobsHistoryLimit |-> <<>>,
     startingDeadlineSeconds |-> <<>>]
=============================================================================
