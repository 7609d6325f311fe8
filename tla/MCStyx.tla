------------------------------- MODULE MCStyx -------------------------------
(***************************************************************************)
(* Instances of Styx for TLC; slaves are interchangeable, and so are       *)
(* clients.  Where only liveness is asked for, states are compared without *)
(* the record of what the requests did, which no guard reads.              *)
(***************************************************************************)
EXTENDS Styx, TLC

Symmetry == Permutations(Clients) \cup Permutations(Slaves)

\* Bound: once the connection has broken, one slave at a time is at work.
OneAtWork == hung => Cardinality({s \in Slaves : spc[s] # "wait"}) <= 1

Seen == <<wirevars, killed, mvars, epc, ereq, exq, tail, lost, exql, fsl, work,
          rec, spc, job, faults>>
=============================================================================
