------------------------------- MODULE QLock -------------------------------
(***************************************************************************)
(* qlock, canqlock and qunlock (emu/port/lock.c): a blocking lock that is  *)
(* handed from its holder to the process that has waited longest, over the *)
(* per-process semaphore of osblock and osready.                           *)
(*                                                                         *)
(* One step is a critical section of the spin lock "use".  Each process    *)
(* has a control point for the call it is in, so that the modules that     *)
(* call qlock (QLockClients, RWLock) compose their steps with these.       *)
(***************************************************************************)
EXTENDS Naturals, Sequences

CONSTANTS Procs,    \* kernel processes
          QLocks,   \* QLock structures
          NoProc,   \* owner of a free spin lock, nil Proc*
          NoLock    \* the argument when no call is in progress

ASSUME QLockAssumption == NoProc \notin Procs /\ NoLock \notin QLocks

VARIABLES
  qpc,      \* control point of each process in lock.c; "idle" is outside
  qarg,     \* the QLock argument of the call in progress
  qp,       \* qunlock's local p: the process to be readied
  use,      \* QLock.use: owner of the spin lock
  locked,   \* QLock.locked
  queue,    \* QLock.head ... tail, linked by Proc.qnext
  sem       \* the semaphore of osblock/osready

qvars == <<qpc, qarg, qp, use, locked, queue, sem>>

QPC == {"idle", "l_use", "l_test", "l_block", "c_use", "c_test", "u_use", "u_test", "u_ready"}

QInit ==
  /\ qpc = [p \in Procs |-> "idle"]
  /\ qarg = [p \in Procs |-> NoLock]
  /\ qp = [p \in Procs |-> NoProc]
  /\ use = [k \in QLocks |-> NoProc]
  /\ locked = [k \in QLocks |-> FALSE]
  /\ queue = [k \in QLocks |-> <<>>]
  /\ sem = [p \in Procs |-> 0]

Call(p, k, a) ==
  /\ qpc[p] = "idle"
  /\ qpc' = [qpc EXCEPT ![p] = a]
  /\ qarg' = [qarg EXCEPT ![p] = k]
  /\ UNCHANGED <<qp, use, locked, queue, sem>>

QLockCall(p, k) == Call(p, k, "l_use")
CanQLockCall(p, k) == Call(p, k, "c_use")
QUnlockCall(p, k) == Call(p, k, "u_use")

Step(p, a, b) == qpc[p] = a /\ qpc' = [qpc EXCEPT ![p] = b]
Return(p, a) == Step(p, a, "idle") /\ qarg' = [qarg EXCEPT ![p] = NoLock]
LockUse(p) == use[qarg[p]] = NoProc /\ use' = [use EXCEPT ![qarg[p]] = p]
UnlockUse(p) == use' = [use EXCEPT ![qarg[p]] = NoProc]

-----------------------------------------------------------------------------
(* qlock                                                                   *)

QLockUse(p) ==
  /\ Step(p, "l_use", "l_test")
  /\ LockUse(p)
  /\ UNCHANGED <<qarg, qp, locked, queue, sem>>

QLockGet(p) ==
  /\ Return(p, "l_test")
  /\ ~locked[qarg[p]]
  /\ locked' = [locked EXCEPT ![qarg[p]] = TRUE]
  /\ UnlockUse(p)
  /\ UNCHANGED <<qp, queue, sem>>

QLockEnqueue(p) ==
  /\ Step(p, "l_test", "l_block")
  /\ locked[qarg[p]]
  /\ queue' = [queue EXCEPT ![qarg[p]] = Append(@, p)]
  /\ UnlockUse(p)
  /\ UNCHANGED <<qarg, qp, locked, sem>>

\* osblock returns: the lock was handed over.
QLockWoken(p) ==
  /\ Return(p, "l_block")
  /\ sem[p] > 0
  /\ sem' = [sem EXCEPT ![p] = @ - 1]
  /\ UNCHANGED <<qp, use, locked, queue>>

(* canqlock                                                                *)

CanQLockUse(p) ==
  /\ Step(p, "c_use", "c_test")
  /\ LockUse(p)
  /\ UNCHANGED <<qarg, qp, locked, queue, sem>>

\* canlock fails: somebody is inside the spin lock.
CanQLockBusy(p) ==
  /\ Return(p, "c_use")
  /\ use[qarg[p]] # NoProc
  /\ UNCHANGED <<qp, use, locked, queue, sem>>

CanQLockFail(p) ==
  /\ Return(p, "c_test")
  /\ locked[qarg[p]]
  /\ UnlockUse(p)
  /\ UNCHANGED <<qp, locked, queue, sem>>

CanQLockGet(p) ==
  /\ Return(p, "c_test")
  /\ ~locked[qarg[p]]
  /\ locked' = [locked EXCEPT ![qarg[p]] = TRUE]
  /\ UnlockUse(p)
  /\ UNCHANGED <<qp, queue, sem>>

(* qunlock                                                                 *)

QUnlockUse(p) ==
  /\ Step(p, "u_use", "u_test")
  /\ LockUse(p)
  /\ UNCHANGED <<qarg, qp, locked, queue, sem>>

\* Mutated form: the lock is marked free although it goes to the head of the queue.
QUnlockBarging(p) ==
  /\ Step(p, "u_test", "u_ready")
  /\ queue[qarg[p]] # <<>>
  /\ qp' = [qp EXCEPT ![p] = Head(queue[qarg[p]])]
  /\ queue' = [queue EXCEPT ![qarg[p]] = Tail(@)]
  /\ locked' = [locked EXCEPT ![qarg[p]] = FALSE]
  /\ UnlockUse(p)
  /\ UNCHANGED <<qarg, sem>>

\* Mutated form: q->head is not advanced.
QUnlockKeepHead(p) ==
  /\ Step(p, "u_test", "u_ready")
  /\ queue[qarg[p]] # <<>>
  /\ qp' = [qp EXCEPT ![p] = Head(queue[qarg[p]])]
  /\ UnlockUse(p)
  /\ UNCHANGED <<qarg, locked, queue, sem>>

\* Mutated form: the process that queued last is served first.
QUnlockLast(p) ==
  /\ Step(p, "u_test", "u_ready")
  /\ queue[qarg[p]] # <<>>
  /\ qp' = [qp EXCEPT ![p] = queue[qarg[p]][Len(queue[qarg[p]])]]
  /\ queue' = [queue EXCEPT ![qarg[p]] = SubSeq(@, 1, Len(@) - 1)]
  /\ UnlockUse(p)
  /\ UNCHANGED <<qarg, locked, sem>>

\* The lock stays locked, for the process taken off the queue.
QUnlockDequeue(p) ==
  /\ Step(p, "u_test", "u_ready")
  /\ queue[qarg[p]] # <<>>
  /\ qp' = [qp EXCEPT ![p] = Head(queue[qarg[p]])]
  /\ queue' = [queue EXCEPT ![qarg[p]] = Tail(@)]
  /\ UnlockUse(p)
  /\ UNCHANGED <<qarg, locked, sem>>

QUnlockReady(p) ==
  /\ Return(p, "u_ready")
  /\ sem' = [sem EXCEPT ![qp[p]] = @ + 1]
  /\ qp' = [qp EXCEPT ![p] = NoProc]
  /\ UNCHANGED <<use, locked, queue>>

QUnlockFree(p) ==
  /\ Return(p, "u_test")
  /\ queue[qarg[p]] = <<>>
  /\ locked' = [locked EXCEPT ![qarg[p]] = FALSE]
  /\ UnlockUse(p)
  /\ UNCHANGED <<qp, queue, sem>>

\* The steps by which p gets the lock, and the others.
QGot(p) == QLockGet(p) \/ QLockWoken(p) \/ CanQLockGet(p)
QOther(p) ==
  \/ QLockUse(p) \/ QLockEnqueue(p)
  \/ CanQLockUse(p) \/ CanQLockBusy(p) \/ CanQLockFail(p)
  \/ QUnlockUse(p) \/ QUnlockDequeue(p) \/ QUnlockReady(p) \/ QUnlockFree(p)
QStep(p) == QGot(p) \/ QOther(p)

-----------------------------------------------------------------------------
QTypeOK ==
  /\ qpc \in [Procs -> QPC]
  /\ qarg \in [Procs -> QLocks \cup {NoLock}]
  /\ qp \in [Procs -> Procs \cup {NoProc}]
  /\ use \in [QLocks -> Procs \cup {NoProc}]
  /\ locked \in [QLocks -> BOOLEAN]
  /\ queue \in [QLocks -> Seq(Procs)]
  /\ sem \in [Procs -> Nat]

Queued(p, k) == \E i \in 1..Len(queue[k]) : queue[k][i] = p

\* Taken off the queue of k, on the way out of qlock.
Granted(p, k) == qarg[p] = k /\ qpc[p] = "l_block" /\ ~Queued(p, k)

\* Taken off some queue, and the process that has still to post its semaphore.
Dequeued(p) == qpc[p] = "l_block" /\ ~Queued(p, qarg[p])
Giving(g, p) == qpc[g] = "u_ready" /\ qp[g] = p

\* The links of a queue: each waiter is in it once, and in no other.
QueueSound ==
  \A k \in QLocks :
    /\ \A i, j \in 1..Len(queue[k]) : queue[k][i] = queue[k][j] => i = j
    /\ \A p \in Procs : Queued(p, k) => qpc[p] = "l_block" /\ qarg[p] = k

\* Who has been dequeued has one token or is about to get one, from one process,
\* and nobody else has any.
TokenSound ==
  \A p \in Procs :
    /\ sem[p] \in {0, 1}
    /\ sem[p] = 1 => Dequeued(p)
    /\ \A g \in Procs : Giving(g, p) => Dequeued(p) /\ sem[p] = 0
    /\ \A g, h \in Procs : Giving(g, p) /\ Giving(h, p) => g = h
    /\ Dequeued(p) => sem[p] = 1 \/ \E g \in Procs : Giving(g, p)

\* Who blocks in qlock either waits in the queue, once, with no token, or has
\* been dequeued, and then has a token or is about to get the only one.
HandOver == QueueSound /\ TokenSound
=============================================================================
