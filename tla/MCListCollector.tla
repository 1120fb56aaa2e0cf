-------------------------- MODULE MCListCollector --------------------------
(***************************************************************************)
(* Instances of ListCollector for TLC.  Two names are enough for one       *)
(* object's events to overtake or displace those of another, and MaxRV = 4 *)
(* writes for one of them to be created, modified, deleted and created     *)
(* again while the other one exists.                                       *)
(***************************************************************************)
EXTENDS ListCollector, TLC

\* The collector treats all names alike.
NamesSymmetry == Permutations(Names)
=============================================================================
