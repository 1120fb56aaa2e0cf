--------------------------- MODULE MCPodCollector ---------------------------
(***************************************************************************)
(* Instances of PodCollector for TLC: two pods of one job.  With RVBase =  *)
(* 17 all the resourceVersions of a run have two digits, with a carry from *)
(* 19 to 20; with RVBase = 7 the third write takes the cluster from 9 to   *)
(* 10.                                                                     *)
(***************************************************************************)
EXTENDS PodCollector, TLC

CONSTANT Job

MCJobOf == [n \in Names |-> Job]

\* The pods of one job are alike.
NamesSymmetry == Permutations(Names)
=============================================================================
