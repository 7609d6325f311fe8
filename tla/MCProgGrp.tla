------------------------------ MODULE MCProgGrp ------------------------------
(***************************************************************************)
(* An instance of ProgGrp for TLC: p1 spawns the others, with its          *)
(* exceptions local or with its group set to notify the leader.            *)
(***************************************************************************)
EXTENDS ProgGrp, TLC

CONSTANT p1

FirstOne == <<p1>>
LocalOrNotify == {{}, {"notifyleader"}}

\* The others are interchangeable.
Symmetry == Permutations(Progs \ {p1})
=============================================================================
