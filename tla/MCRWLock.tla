------------------------------ MODULE MCRWLock ------------------------------
(* Instances of RWLock for TLC; processes are interchangeable.             *)
EXTENDS RWLock, TLC

Symmetry == Permutations(Procs)
=============================================================================
