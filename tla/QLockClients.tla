---------------------------- MODULE QLockClients ----------------------------
(***************************************************************************)
(* QLock with callers that follow qlock(10.2): a process releases the      *)
(* locks it holds and no other.                                            *)
(***************************************************************************)
EXTENDS QLock

VARIABLE held      \* the locks each process has got and not begun to release

clientvars == <<qvars, held>>

-----------------------------------------------------------------------------
(* Callers: a process holds one lock at a time and releases it.            *)

ClientsInit == QInit /\ held = [p \in Procs |-> {}]

Lock(p, k) ==
  /\ held[p] = {}
  /\ QLockCall(p, k) \/ CanQLockCall(p, k)
  /\ UNCHANGED held

Unlock(p, k) ==
  /\ k \in held[p]
  /\ QUnlockCall(p, k)
  /\ held' = [held EXCEPT ![p] = @ \ {k}]

Get(p) == QGot(p) /\ held' = [held EXCEPT ![p] = @ \cup {qarg[p]}]
Other(p) == QOther(p) /\ UNCHANGED held

ClientsNext ==
  \E p \in Procs :
    \/ Get(p)
    \/ Other(p)
    \/ \E k \in QLocks : Lock(p, k) \/ Unlock(p, k)

ClientsSpec == ClientsInit /\ [][ClientsNext]_clientvars

\* A thread inside lock.c goes on; the spin lock is retried until it is got; a
\* holder releases (what every caller does, in its waserror handler too).
ClientsFairness ==
  \A p \in Procs :
    /\ SF_clientvars(Get(p) \/ Other(p))
    /\ WF_clientvars(\E k \in QLocks : Unlock(p, k))

FairClientsSpec == ClientsSpec /\ ClientsFairness

-----------------------------------------------------------------------------
TypeOK == QTypeOK /\ held \in [Procs -> SUBSET QLocks]

\* p has been given k: it holds it, it is on the way out of qlock with it, or it
\* is releasing it and has not let go.
Owns(p, k) ==
  \/ k \in held[p]
  \/ Granted(p, k)
  \/ qarg[p] = k /\ qpc[p] \in {"u_use", "u_test"}

\* A lock is never given to two processes, even in the window of a hand-over,
\* when the new owner still waits for the osready of the old one.
MutualExclusion ==
  \A k \in QLocks : \A p, q \in Procs : Owns(p, k) /\ Owns(q, k) => p = q

\* A lock that is locked has an owner: a hand-over never drops it, which would
\* leave everyone who queued waiting for ever.
LockedIsOwned == \A k \in QLocks : locked[k] <=> \E p \in Procs : Owns(p, k)

-----------------------------------------------------------------------------
\* Every process that queues for the lock gets it.
EveryWaiterServed ==
  \A p \in Procs : \A k \in QLocks : Queued(p, k) ~> k \in held[p]

\* The lock as its callers see it: granted to one process at a time, in the
\* order in which they queued.
FairMutex == INSTANCE FairMutex WITH
  owner <- [k \in QLocks |-> {p \in Procs : Owns(p, k)}],
  waiting <- queue
FairMutexSpec == FairMutex!Spec
=============================================================================
