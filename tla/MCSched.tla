------------------------------ MODULE MCSched ------------------------------
(***************************************************************************)
(* Instances of Sched for TLC.  Processes of a kind are interchangeable,   *)
(* and so are progs, in the safety runs.                                   *)
(***************************************************************************)
EXTENDS Sched, TLC

Symmetry == Permutations(VProcs) \cup Permutations(KProcs) \cup Permutations(Progs)
=============================================================================
