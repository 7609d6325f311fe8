------------------------------- MODULE RWLock -------------------------------
(***************************************************************************)
(* rlock, canrlock, runlock, wlock and wunlock (emu/port/lock.c), on top   *)
(* of the two QLocks of the structure: x, held by whoever is being let in  *)
(* and by the writer, and k, held by the writer or by the readers as one.  *)
(*                                                                         *)
(* rlock and canrlock ignore what canqlock(&l->k) returns: the first       *)
(* reader has to get k, and the others have to fail.                       *)
(***************************************************************************)
EXTENDS QLock, FiniteSets

RWQLocks == {"x", "k"}

ASSUME RWLockAssumption == QLocks = RWQLocks

VARIABLES
  rpc,       \* control point of each process in the functions above
  l,         \* RWlock.l: owner of the spin lock
  readers    \* RWlock.readers

vars == <<qvars, rpc, l, readers>>

EntryPC == {"r_x", "cr_x", "r_l", "r_k", "r_unl", "r_qx"}
ExitPC == {"ru_l", "ru_k", "ru_unl"}
WriterPC == {"w_x", "w_callk", "w_k", "writing", "wu_k", "wu_callx", "wu_x"}
RPC == {"out", "reading"} \cup EntryPC \cup ExitPC \cup WriterPC

RStep(p, a, b) == rpc[p] = a /\ rpc' = [rpc EXCEPT ![p] = b]

\* The lock.c call p made from control point a returns.
QLockReturn(p) == QLockGet(p) \/ QLockWoken(p)
CanQLockRefused(p) == CanQLockBusy(p) \/ CanQLockFail(p)
QUnlockReturn(p) == QUnlockReady(p) \/ QUnlockFree(p)

Init ==
  /\ QInit
  /\ rpc = [p \in Procs |-> "out"]
  /\ l = NoProc
  /\ readers = 0

-----------------------------------------------------------------------------
(* rlock and canrlock                                                      *)

RLockCall(p) ==
  /\ RStep(p, "out", "r_x") /\ QLockCall(p, "x")
  /\ UNCHANGED <<l, readers>>

RLockX(p) ==
  /\ RStep(p, "r_x", "r_l") /\ QLockReturn(p)
  /\ UNCHANGED <<l, readers>>

CanRLockCall(p) ==
  /\ RStep(p, "out", "cr_x") /\ CanQLockCall(p, "x")
  /\ UNCHANGED <<l, readers>>

\* Mutated form: the answer of canqlock is ignored.
CanRLockAlways(p) ==
  /\ RStep(p, "cr_x", "r_l") /\ (CanQLockGet(p) \/ CanQLockRefused(p))
  /\ UNCHANGED <<l, readers>>

CanRLockX(p) ==
  /\ RStep(p, "cr_x", "r_l") /\ CanQLockGet(p)
  /\ UNCHANGED <<l, readers>>

CanRLockPunt(p) ==
  /\ RStep(p, "cr_x", "out") /\ CanQLockRefused(p)
  /\ UNCHANGED <<l, readers>>

\* From here on the two functions are the same.
RLockCount(p) ==
  /\ RStep(p, "r_l", "r_k")
  /\ l = NoProc /\ l' = p
  /\ readers' = readers + 1
  /\ CanQLockCall(p, "k")

RLockK(p) ==
  /\ RStep(p, "r_k", "r_unl")
  /\ CanQLockGet(p) \/ CanQLockRefused(p)
  /\ UNCHANGED <<l, readers>>

RLockUnl(p) ==
  /\ RStep(p, "r_unl", "r_qx")
  /\ l' = NoProc
  /\ QUnlockCall(p, "x")
  /\ UNCHANGED readers

RLockReturn(p) ==
  /\ RStep(p, "r_qx", "reading") /\ QUnlockReturn(p)
  /\ UNCHANGED <<l, readers>>

(* runlock: the last reader out lets the writer in                         *)

RUnlockCall(p) ==
  /\ RStep(p, "reading", "ru_l")
  /\ UNCHANGED <<qvars, l, readers>>

\* Mutated form: k is released while a reader is left.
RUnlockEarly(p) ==
  /\ RStep(p, "ru_l", "ru_k")
  /\ l = NoProc /\ l' = p
  /\ readers \in {1, 2} /\ readers' = readers - 1
  /\ QUnlockCall(p, "k")

RUnlockLast(p) ==
  /\ RStep(p, "ru_l", "ru_k")
  /\ l = NoProc /\ l' = p
  /\ readers = 1 /\ readers' = 0
  /\ QUnlockCall(p, "k")

RUnlockNotLast(p) ==
  /\ RStep(p, "ru_l", "out")
  /\ l = NoProc
  /\ readers # 1 /\ readers' = readers - 1
  /\ UNCHANGED <<qvars, l>>

RUnlockK(p) ==
  /\ RStep(p, "ru_k", "ru_unl") /\ QUnlockReturn(p)
  /\ UNCHANGED <<l, readers>>

RUnlockReturn(p) ==
  /\ RStep(p, "ru_unl", "out")
  /\ l' = NoProc
  /\ UNCHANGED <<qvars, readers>>

(* wlock and wunlock                                                       *)

WLockCall(p) ==
  /\ RStep(p, "out", "w_x") /\ QLockCall(p, "x")
  /\ UNCHANGED <<l, readers>>

\* Mutated form: the writer does not wait for the last reader.
WLockNoK(p) ==
  /\ RStep(p, "w_x", "writing") /\ QLockReturn(p)
  /\ UNCHANGED <<l, readers>>

WLockX(p) ==
  /\ RStep(p, "w_x", "w_callk") /\ QLockReturn(p)
  /\ UNCHANGED <<l, readers>>

WLockCallK(p) ==
  /\ RStep(p, "w_callk", "w_k") /\ QLockCall(p, "k")
  /\ UNCHANGED <<l, readers>>

WLockReturn(p) ==
  /\ RStep(p, "w_k", "writing") /\ QLockReturn(p)
  /\ UNCHANGED <<l, readers>>

WUnlockCall(p) ==
  /\ RStep(p, "writing", "wu_k") /\ QUnlockCall(p, "k")
  /\ UNCHANGED <<l, readers>>

WUnlockK(p) ==
  /\ RStep(p, "wu_k", "wu_callx") /\ QUnlockReturn(p)
  /\ UNCHANGED <<l, readers>>

WUnlockCallX(p) ==
  /\ RStep(p, "wu_callx", "wu_x") /\ QUnlockCall(p, "x")
  /\ UNCHANGED <<l, readers>>

WUnlockReturn(p) ==
  /\ RStep(p, "wu_x", "out") /\ QUnlockReturn(p)
  /\ UNCHANGED <<l, readers>>

\* A step inside lock.c that does not return to the caller.
Inside(p) ==
  /\ QLockUse(p) \/ QLockEnqueue(p) \/ CanQLockUse(p) \/ QUnlockUse(p) \/ QUnlockDequeue(p)
  /\ UNCHANGED <<rpc, l, readers>>

-----------------------------------------------------------------------------
Enter(p) == RLockCall(p) \/ CanRLockCall(p) \/ WLockCall(p)

Go(p) ==
  \/ Inside(p)
  \/ RLockX(p) \/ CanRLockX(p) \/ CanRLockPunt(p)
  \/ RLockCount(p) \/ RLockK(p) \/ RLockUnl(p) \/ RLockReturn(p)
  \/ RUnlockLast(p) \/ RUnlockNotLast(p) \/ RUnlockK(p) \/ RUnlockReturn(p)
  \/ WLockX(p) \/ WLockCallK(p) \/ WLockReturn(p)
  \/ WUnlockK(p) \/ WUnlockCallX(p) \/ WUnlockReturn(p)

Leave(p) == RUnlockCall(p) \/ WUnlockCall(p)

Next == \E p \in Procs : Enter(p) \/ Go(p) \/ Leave(p)

Spec == Init /\ [][Next]_vars

\* As for QLock: a thread goes on, a spin lock retried for ever is got, and whoever
\* has the lock releases it.
FairSpec == Spec /\ \A p \in Procs : SF_vars(Go(p)) /\ WF_vars(Leave(p))

-----------------------------------------------------------------------------
Reading(p) == rpc[p] \in {"reading", "ru_l"}
Writing(p) == rpc[p] = "writing"

\* A writer is alone, and readers exclude writers.
WriterAlone ==
  \A p, q \in Procs : p # q /\ Writing(p) => ~Writing(q) /\ ~Reading(q)

\* The readers together hold k: rlock may ignore the result of its canqlock
\* because the first reader always gets it, although canqlock also fails when
\* the spin lock inside k is only busy (lock.c:67).
ReadersHoldK ==
  /\ readers = Cardinality({p \in Procs : rpc[p] \in {"r_k", "r_unl", "r_qx", "reading", "ru_l"}})
  /\ \A p \in Procs :
       rpc[p] \in {"r_unl", "r_qx", "reading", "ru_l"} =>
         locked["k"] /\ \A q \in Procs : ~Granted(q, "k")

\* Readers and writers keep each other out, and the count that lets them is exact.
Exclusion == WriterAlone /\ ReadersHoldK

\* A writer has the lock or waits for it.
Queueing(q) ==
  \/ rpc[q] \in {"w_callk", "w_k", "writing", "wu_k", "wu_callx"}
  \/ rpc[q] = "w_x" /\ qpc[q] = "l_block"

\* Once a writer is in line for x, no later reader gets in before it: rlock lines
\* up behind it, and canrlock "punts if there are any writers waiting" (lock.c:107).
WriterNotOvertaken ==
  [][\A p, q \in Procs : Queueing(q) =>
       /\ RLockX(p) => Granted(p, "x") /\ Queued(q, "x")
       /\ ~CanRLockX(p)]_vars

\* Writers and readers in line are all let in.
EveryoneGetsIn ==
  \A p \in Procs : (rpc[p] = "w_x" ~> Writing(p)) /\ (rpc[p] = "r_x" ~> Reading(p))
=============================================================================
