----------------------------- MODULE FairMutex -----------------------------
(***************************************************************************)
(* What a lock with a queue promises (qlock(10.2)): one owner at a time,   *)
(* and the lock goes to the process that has waited longest.  A process    *)
(* may be refused without waiting only if it asked not to wait, which      *)
(* leaves no trace here.                                                   *)
(***************************************************************************)
EXTENDS Naturals, Sequences

CONSTANTS Procs, QLocks

VARIABLES owner,     \* the processes that own each lock: none or one
          waiting    \* the processes that wait for it, in order

Init ==
  /\ owner = [k \in QLocks |-> {}]
  /\ waiting = [k \in QLocks |-> <<>>]

Acquire(p, k) ==
  /\ owner[k] = {} /\ waiting[k] = <<>>
  /\ owner' = [owner EXCEPT ![k] = {p}]
  /\ UNCHANGED waiting

Wait(p, k) ==
  /\ owner[k] # {} /\ p \notin owner[k]
  /\ waiting' = [waiting EXCEPT ![k] = Append(@, p)]
  /\ UNCHANGED owner

HandOver(k) ==
  /\ owner[k] # {} /\ waiting[k] # <<>>
  /\ owner' = [owner EXCEPT ![k] = {Head(waiting[k])}]
  /\ waiting' = [waiting EXCEPT ![k] = Tail(@)]

Release(k) ==
  /\ owner[k] # {} /\ waiting[k] = <<>>
  /\ owner' = [owner EXCEPT ![k] = {}]
  /\ UNCHANGED waiting

Next ==
  \E k \in QLocks :
    \/ \E p \in Procs : Acquire(p, k) \/ Wait(p, k)
    \/ HandOver(k)
    \/ Release(k)

Spec == Init /\ [][Next]_<<owner, waiting>>
=============================================================================
