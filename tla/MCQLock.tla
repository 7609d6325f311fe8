------------------------------ MODULE MCQLock ------------------------------
(* Instances of QLockClients for TLC; processes are interchangeable.       *)
EXTENDS QLockClients, TLC

Symmetry == Permutations(Procs)
=============================================================================
