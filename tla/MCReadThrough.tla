--------------------------- MODULE MCReadThrough ---------------------------
(***************************************************************************)
(* Instances of ReadThrough for TLC.  Three readers: one whose snapshot is *)
(* overtaken by the commit of the second while the third gets a hit on it. *)
(***************************************************************************)
EXTENDS ReadThrough, TLC

\* GetAndStore treats its callers alike.
ReadersSymmetry == Permutations(Readers)
=============================================================================
