---------------------------- MODULE RWLockProofs ----------------------------
(***************************************************************************)
(* Proofs about RWLock for every set of processes: readers and writers     *)
(* keep each other out, the count of readers is exact, and no reader gets  *)
(* in before a writer that is in line.                                     *)
(***************************************************************************)
EXTENDS RWLock, QLockProofs, FiniteSetTheorems

-----------------------------------------------------------------------------
(* The inductive invariant.                                                *)

\* The lock and the function of lock.c that each control point calls.
InLock(p, k, calls) == qarg[p] = k /\ qpc[p] \in calls

CallInv ==
  \A p \in Procs :
    /\ rpc[p] \in {"r_x", "w_x"} => InLock(p, "x", {"l_use", "l_test", "l_block"})
    /\ rpc[p] = "cr_x" => InLock(p, "x", {"c_use", "c_test"})
    /\ rpc[p] = "r_k" => InLock(p, "k", {"c_use", "c_test"})
    /\ rpc[p] = "w_k" => InLock(p, "k", {"l_use", "l_test", "l_block"})
    /\ rpc[p] \in {"r_qx", "wu_x"} => InLock(p, "x", {"u_use", "u_test", "u_ready"})
    /\ rpc[p] \in {"ru_k", "wu_k"} => InLock(p, "k", {"u_use", "u_test", "u_ready"})
    /\ rpc[p] \in {"out", "reading", "r_l", "r_unl", "ru_l", "ru_unl", "w_callk", "writing",
                   "wu_callx"} => qpc[p] = "idle"

\* p releases k, and has not let go.
Releasing(p, k) == InLock(p, k, {"u_use", "u_test"})

\* p has x: it is being let in, or writes.
HasX(p) ==
  \/ rpc[p] \in {"r_l", "r_k", "r_unl", "w_callk", "w_k", "writing", "wu_k", "wu_callx"}
  \/ Granted(p, "x")
  \/ Releasing(p, "x")

\* p has k for itself, or p is one of the readers that have it together.
HasK(p) == rpc[p] = "writing" \/ Granted(p, "k") \/ Releasing(p, "k")
SharesK(p) == rpc[p] \in {"r_unl", "r_qx", "reading", "ru_l"}

XInv ==
  /\ \A p, q \in Procs : HasX(p) /\ HasX(q) => p = q
  /\ locked["x"] <=> \E p \in Procs : HasX(p)

KInv ==
  /\ \A p, q \in Procs : HasK(p) /\ HasK(q) => p = q
  /\ \A p, q \in Procs : HasK(p) => ~SharesK(q)
  /\ locked["k"] <=> \E p \in Procs : HasK(p) \/ SharesK(p)

LInv ==
  /\ l \in Procs \cup {NoProc}
  /\ \A p \in Procs : l = p <=> rpc[p] \in {"r_k", "r_unl", "ru_k", "ru_unl"}

\* The readers that runlock has to count down.
Counted == {p \in Procs : rpc[p] \in {"r_k", "r_unl", "r_qx", "reading", "ru_l"}}

CountInv == IsFiniteSet(Counted) /\ readers = Cardinality(Counted)

LockInv == QInv /\ rpc \in [Procs -> RPC] /\ CallInv
IInv == LockInv /\ XInv /\ KInv /\ LInv /\ CountInv

\* What is added to the invariant of lock.c.
RestInv == rpc \in [Procs -> RPC] /\ CallInv /\ XInv /\ KInv /\ LInv /\ CountInv

-----------------------------------------------------------------------------
(* What the calls of lock.c do, as seen from RWLock.                       *)

\* Nobody but p moves, in lock.c or above it.
OnlyMoves(p) ==
  \A q \in Procs \ {p} : rpc'[q] = rpc[q] /\ qpc'[q] = qpc[q] /\ qarg'[q] = qarg[q]

GrantKept == \A q \in Procs, j \in QLocks : Granted(q, j)' <=> Granted(q, j)

\* The structure has the two locks.
LEMMA BothLocks == "x" \in QLocks /\ "k" \in QLocks
  BY RWLockAssumption DEF RWQLocks

\* A process that has been handed a lock blocks on it.
LEMMA GrantedBlocks ==
  \A q \in Procs, j \in QLocks : Granted(q, j) => qpc[q] = "l_block" /\ qarg[q] = j
  BY DEF Granted

\* Making a call.
LEMMA CallEffect ==
  ASSUME LockInv, NEW p \in Procs, NEW k \in QLocks, NEW a \in {"l_use", "c_use", "u_use"},
         Call(p, k, a)
  PROVE  /\ qpc[p] = "idle" /\ qpc'[p] = a /\ qarg'[p] = k /\ locked' = locked /\ GrantKept
         /\ \A q \in Procs \ {p} : qpc'[q] = qpc[q] /\ qarg'[q] = qarg[q]
  <1>1. QCall(p)
    BY DEF QCall, QLockCall, CanQLockCall, QUnlockCall
  <1>2. GrantKept
    BY <1>1, GrantSame DEF LockInv, GrantKept
  <1>. QED
    BY <1>2 DEF Call, LockInv, QInv, QTypeOK

\* Coming out of qlock, or out of canqlock with the lock: it was free, or handed over.
LEMMA GetEffect ==
  ASSUME LockInv, NEW p \in Procs, NEW k \in QLocks, qarg[p] = k, QLockReturn(p) \/ CanQLockGet(p)
  PROVE  /\ qpc'[p] = "idle"
         /\ \A q \in Procs \ {p} : qpc'[q] = qpc[q] /\ qarg'[q] = qarg[q]
         /\ \A q \in Procs, j \in QLocks : Granted(q, j)' <=> Granted(q, j) /\ q # p
         /\ \/ ~locked[k] /\ locked' = [locked EXCEPT ![k] = TRUE] /\ ~QLockWoken(p)
            \/ Granted(p, k) /\ locked' = locked /\ QLockWoken(p)
  <1>1. /\ qpc'[p] = "idle" /\ \A q \in Procs \ {p} : qpc'[q] = qpc[q] /\ qarg'[q] = qarg[q]
    BY DEF QLockReturn, QLockGet, QLockWoken, CanQLockGet, Return, Step, LockInv, QInv, QTypeOK
  <1>2. CASE QLockGet(p) \/ CanQLockGet(p)
    <2>1. /\ qpc[p] # "l_block" /\ ~locked[k] /\ locked' = [locked EXCEPT ![k] = TRUE]
      BY <1>2 DEF QLockGet, CanQLockGet, Return, Step
    <2>2. GrantKept
      BY <1>2, GrantSame DEF LockInv, GrantKept
    <2>3. ~QLockWoken(p)
      BY <2>1 DEF QLockWoken, Return, Step
    <2>. QED
      BY <1>1, <2>1, <2>2, <2>3, GrantedBlocks DEF GrantKept
  <1>3. CASE QLockWoken(p)
    <2>1. locked' = locked
      BY <1>3 DEF QLockWoken
    <2>. QED
      BY <1>1, <1>3, <2>1, GrantTaken DEF LockInv
  <1>. QED
    BY <1>2, <1>3 DEF QLockReturn

\* Coming out of canqlock without the lock.
LEMMA RefusedEffect ==
  ASSUME LockInv, NEW p \in Procs, CanQLockRefused(p)
  PROVE  /\ qpc'[p] = "idle" /\ locked' = locked /\ GrantKept
         /\ \A q \in Procs \ {p} : qpc'[q] = qpc[q] /\ qarg'[q] = qarg[q]
  <1>1. GrantKept
    BY GrantSame DEF LockInv, GrantKept, CanQLockRefused
  <1>. QED
    BY <1>1 DEF CanQLockRefused, CanQLockBusy, CanQLockFail, Return, Step, LockInv, QInv, QTypeOK

\* Coming out of qunlock: the lock was handed over before, or is marked free.
LEMMA ReleasedEffect ==
  ASSUME LockInv, NEW p \in Procs, NEW k \in QLocks, qarg[p] = k, QUnlockReturn(p)
  PROVE  /\ qpc'[p] = "idle" /\ GrantKept
         /\ \A q \in Procs \ {p} : qpc'[q] = qpc[q] /\ qarg'[q] = qarg[q]
         /\ \/ qpc[p] = "u_ready" /\ locked' = locked
            \/ qpc[p] = "u_test" /\ locked' = [locked EXCEPT ![k] = FALSE]
  <1>1. GrantKept
    BY GrantSame DEF LockInv, GrantKept, QUnlockReturn
  <1>. QED
    BY <1>1 DEF QUnlockReturn, QUnlockReady, QUnlockFree, Return, Step, LockInv, QInv, QTypeOK

\* Going on inside a call without handing the lock over.
LEMMA InsideEffect ==
  ASSUME LockInv, NEW p \in Procs,
         QLockUse(p) \/ QLockEnqueue(p) \/ CanQLockUse(p) \/ QUnlockUse(p)
  PROVE  /\ qarg' = qarg /\ locked' = locked /\ GrantKept
         /\ \/ qpc[p] \in {"l_use", "l_test"} /\ qpc'[p] \in {"l_test", "l_block"}
            \/ qpc[p] = "c_use" /\ qpc'[p] = "c_test"
            \/ qpc[p] = "u_use" /\ qpc'[p] = "u_test"
         /\ \A q \in Procs \ {p} : qpc'[q] = qpc[q]
  <1>1. GrantKept
    BY GrantSame, GrantQueue DEF LockInv, GrantKept
  <1>. QED
    BY <1>1 DEF QLockUse, QLockEnqueue, CanQLockUse, QUnlockUse, Step, LockInv, QInv, QTypeOK

-----------------------------------------------------------------------------
(* What keeps each part of the invariant.                                  *)

\* x changes hands: it stays, is taken when free, is handed over, or is let go.
LEMMA XKept ==
  ASSUME XInv, NEW p \in Procs, locked' \in [QLocks -> BOOLEAN],
         \/ /\ locked'["x"] = locked["x"]
            /\ \A q \in Procs : HasX(q)' <=> HasX(q)
         \/ /\ ~locked["x"] /\ locked'["x"]
            /\ \A q \in Procs : HasX(q)' <=> HasX(q) \/ q = p
         \/ /\ HasX(p) /\ locked'["x"] = locked["x"]
            /\ \E h \in Procs : \A q \in Procs : HasX(q)' <=> (HasX(q) /\ q # p) \/ q = h
         \/ /\ HasX(p) /\ ~locked'["x"]
            /\ \A q \in Procs : HasX(q)' <=> HasX(q) /\ q # p
  PROVE  XInv'
  BY DEF XInv

\* k changes hands among writers, or the readers keep it.
LEMMA KKept ==
  ASSUME KInv, NEW p \in Procs, locked' \in [QLocks -> BOOLEAN],
         \A q \in Procs : SharesK(q)' <=> SharesK(q),
         \/ /\ locked'["k"] = locked["k"]
            /\ \A q \in Procs : HasK(q)' <=> HasK(q)
         \/ /\ ~locked["k"] /\ locked'["k"]
            /\ \A q \in Procs : HasK(q)' <=> HasK(q) \/ q = p
         \/ /\ HasK(p) /\ locked'["k"] = locked["k"]
            /\ \E h \in Procs : \A q \in Procs : HasK(q)' <=> (HasK(q) /\ q # p) \/ q = h
         \/ /\ HasK(p) /\ ~locked'["k"]
            /\ \A q \in Procs : HasK(q)' <=> HasK(q) /\ q # p
  PROVE  KInv'
  BY DEF KInv

\* The spin lock of the structure stays with who has it.
LEMMA LKept ==
  ASSUME LInv, l' = l, NEW p \in Procs, OnlyMoves(p),
         rpc'[p] \in {"r_k", "r_unl", "ru_k", "ru_unl"} <=> rpc[p] \in {"r_k", "r_unl", "ru_k", "ru_unl"}
  PROVE  LInv'
  BY DEF LInv, OnlyMoves

\* The count of readers stays.
LEMMA CountKept ==
  ASSUME CountInv, readers' = readers, NEW p \in Procs, OnlyMoves(p),
         rpc'[p] \in {"r_k", "r_unl", "r_qx", "reading", "ru_l"} <=>
           rpc[p] \in {"r_k", "r_unl", "r_qx", "reading", "ru_l"}
  PROVE  CountInv'
  <1>1. Counted' = Counted
    BY DEF Counted, OnlyMoves
  <1>. QED
    BY <1>1 DEF CountInv

-----------------------------------------------------------------------------
(* Each action keeps what is added to the invariant of lock.c.             *)

\* rlock queues up for x.
LEMMA RLockCallStep ==
  ASSUME IInv, QInv', NEW p \in Procs, RLockCall(p)
  PROVE  RestInv'
  <1>. USE BothLocks
  <1>. LockInv /\ XInv /\ KInv /\ LInv /\ CountInv
    BY DEF IInv
  <1>. locked \in [QLocks -> BOOLEAN] /\ locked' \in [QLocks -> BOOLEAN]
    BY DEF LockInv, QInv, QTypeOK
  <1>1. rpc[p] = "out" /\ rpc'[p] = "r_x" /\ rpc' = [rpc EXCEPT ![p] = "r_x"]
    BY DEF RLockCall, RStep, LockInv
  <1>2. /\ qpc[p] = "idle" /\ qpc'[p] = "l_use" /\ qarg'[p] = "x" /\ locked' = locked
        /\ GrantKept /\ \A q \in Procs \ {p} : qpc'[q] = qpc[q] /\ qarg'[q] = qarg[q]
    BY CallEffect DEF RLockCall, QLockCall
  <1>3. OnlyMoves(p)
    BY <1>1, <1>2 DEF OnlyMoves, LockInv
  <1>4. rpc' \in [Procs -> RPC] /\ CallInv'
    <2>1. rpc' \in [Procs -> RPC]
      BY <1>1 DEF LockInv, RPC, EntryPC, ExitPC, WriterPC
    <2>2. CallInv'
      BY <1>1, <1>2, <1>3 DEF LockInv, CallInv, InLock, OnlyMoves
    <2>. QED
      BY <2>1, <2>2
  <1>5. XInv'
    <2>1. locked'["x"] = locked["x"] /\ \A q \in Procs : HasX(q)' <=> HasX(q)
      BY <1>1, <1>2, <1>3, GrantedBlocks DEF HasX, HasK, SharesK, Releasing, InLock, GrantKept, OnlyMoves
    <2>. QED
      BY <2>1, XKept
  <1>6. KInv'
    <2>1. locked'["k"] = locked["k"] /\ \A q \in Procs : HasK(q)' <=> HasK(q)
      BY <1>1, <1>2, <1>3, GrantedBlocks DEF HasX, HasK, SharesK, Releasing, InLock, GrantKept, OnlyMoves
    <2>2. \A q \in Procs : SharesK(q)' <=> SharesK(q)
      BY <1>1, <1>3 DEF SharesK, OnlyMoves
    <2>. QED
      BY <2>1, <2>2, KKept
  <1>7. LInv'
    BY <1>1, <1>3, LKept DEF RLockCall, qvars
  <1>8. CountInv'
    BY <1>1, <1>3, CountKept DEF RLockCall, qvars
  <1>. QED
    BY <1>4, <1>5, <1>6, <1>7, <1>8 DEF RestInv

\* canrlock tries x.
LEMMA CanRLockCallStep ==
  ASSUME IInv, QInv', NEW p \in Procs, CanRLockCall(p)
  PROVE  RestInv'
  <1>. USE BothLocks
  <1>. LockInv /\ XInv /\ KInv /\ LInv /\ CountInv
    BY DEF IInv
  <1>. locked \in [QLocks -> BOOLEAN] /\ locked' \in [QLocks -> BOOLEAN]
    BY DEF LockInv, QInv, QTypeOK
  <1>1. rpc[p] = "out" /\ rpc'[p] = "cr_x" /\ rpc' = [rpc EXCEPT ![p] = "cr_x"]
    BY DEF CanRLockCall, RStep, LockInv
  <1>2. /\ qpc[p] = "idle" /\ qpc'[p] = "c_use" /\ qarg'[p] = "x" /\ locked' = locked
        /\ GrantKept /\ \A q \in Procs \ {p} : qpc'[q] = qpc[q] /\ qarg'[q] = qarg[q]
    BY CallEffect DEF CanRLockCall, CanQLockCall
  <1>3. OnlyMoves(p)
    BY <1>1, <1>2 DEF OnlyMoves, LockInv
  <1>4. rpc' \in [Procs -> RPC] /\ CallInv'
    <2>1. rpc' \in [Procs -> RPC]
      BY <1>1 DEF LockInv, RPC, EntryPC, ExitPC, WriterPC
    <2>2. CallInv'
      BY <1>1, <1>2, <1>3 DEF LockInv, CallInv, InLock, OnlyMoves
    <2>. QED
      BY <2>1, <2>2
  <1>5. XInv'
    <2>1. locked'["x"] = locked["x"] /\ \A q \in Procs : HasX(q)' <=> HasX(q)
      BY <1>1, <1>2, <1>3, GrantedBlocks DEF HasX, HasK, SharesK, Releasing, InLock, GrantKept, OnlyMoves
    <2>. QED
      BY <2>1, XKept
  <1>6. KInv'
    <2>1. locked'["k"] = locked["k"] /\ \A q \in Procs : HasK(q)' <=> HasK(q)
      BY <1>1, <1>2, <1>3, GrantedBlocks DEF HasX, HasK, SharesK, Releasing, InLock, GrantKept, OnlyMoves
    <2>2. \A q \in Procs : SharesK(q)' <=> SharesK(q)
      BY <1>1, <1>3 DEF SharesK, OnlyMoves
    <2>. QED
      BY <2>1, <2>2, KKept
  <1>7. LInv'
    BY <1>1, <1>3, LKept DEF CanRLockCall, qvars
  <1>8. CountInv'
    BY <1>1, <1>3, CountKept DEF CanRLockCall, qvars
  <1>. QED
    BY <1>4, <1>5, <1>6, <1>7, <1>8 DEF RestInv

\* wlock queues up for x.
LEMMA WLockCallStep ==
  ASSUME IInv, QInv', NEW p \in Procs, WLockCall(p)
  PROVE  RestInv'
  <1>. USE BothLocks
  <1>. LockInv /\ XInv /\ KInv /\ LInv /\ CountInv
    BY DEF IInv
  <1>. locked \in [QLocks -> BOOLEAN] /\ locked' \in [QLocks -> BOOLEAN]
    BY DEF LockInv, QInv, QTypeOK
  <1>1. rpc[p] = "out" /\ rpc'[p] = "w_x" /\ rpc' = [rpc EXCEPT ![p] = "w_x"]
    BY DEF WLockCall, RStep, LockInv
  <1>2. /\ qpc[p] = "idle" /\ qpc'[p] = "l_use" /\ qarg'[p] = "x" /\ locked' = locked
        /\ GrantKept /\ \A q \in Procs \ {p} : qpc'[q] = qpc[q] /\ qarg'[q] = qarg[q]
    BY CallEffect DEF WLockCall, QLockCall
  <1>3. OnlyMoves(p)
    BY <1>1, <1>2 DEF OnlyMoves, LockInv
  <1>4. rpc' \in [Procs -> RPC] /\ CallInv'
    <2>1. rpc' \in [Procs -> RPC]
      BY <1>1 DEF LockInv, RPC, EntryPC, ExitPC, WriterPC
    <2>2. CallInv'
      BY <1>1, <1>2, <1>3 DEF LockInv, CallInv, InLock, OnlyMoves
    <2>. QED
      BY <2>1, <2>2
  <1>5. XInv'
    <2>1. locked'["x"] = locked["x"] /\ \A q \in Procs : HasX(q)' <=> HasX(q)
      BY <1>1, <1>2, <1>3, GrantedBlocks DEF HasX, HasK, SharesK, Releasing, InLock, GrantKept, OnlyMoves
    <2>. QED
      BY <2>1, XKept
  <1>6. KInv'
    <2>1. locked'["k"] = locked["k"] /\ \A q \in Procs : HasK(q)' <=> HasK(q)
      BY <1>1, <1>2, <1>3, GrantedBlocks DEF HasX, HasK, SharesK, Releasing, InLock, GrantKept, OnlyMoves
    <2>2. \A q \in Procs : SharesK(q)' <=> SharesK(q)
      BY <1>1, <1>3 DEF SharesK, OnlyMoves
    <2>. QED
      BY <2>1, <2>2, KKept
  <1>7. LInv'
    BY <1>1, <1>3, LKept DEF WLockCall, qvars
  <1>8. CountInv'
    BY <1>1, <1>3, CountKept DEF WLockCall, qvars
  <1>. QED
    BY <1>4, <1>5, <1>6, <1>7, <1>8 DEF RestInv

\* rlock has x.
LEMMA RLockXStep ==
  ASSUME IInv, QInv', NEW p \in Procs, RLockX(p)
  PROVE  RestInv'
  <1>. USE BothLocks
  <1>. LockInv /\ XInv /\ KInv /\ LInv /\ CountInv
    BY DEF IInv
  <1>. locked \in [QLocks -> BOOLEAN] /\ locked' \in [QLocks -> BOOLEAN]
    BY DEF LockInv, QInv, QTypeOK
  <1>1. rpc[p] = "r_x" /\ rpc'[p] = "r_l" /\ rpc' = [rpc EXCEPT ![p] = "r_l"]
    BY DEF RLockX, RStep, LockInv
  <1>0. qarg[p] = "x" /\ qpc[p] \in {"l_use", "l_test", "l_block"}
    BY <1>1 DEF LockInv, CallInv, InLock
  <1>2. /\ qpc'[p] = "idle"
        /\ \A q \in Procs \ {p} : qpc'[q] = qpc[q] /\ qarg'[q] = qarg[q]
        /\ \A q \in Procs, j \in QLocks : Granted(q, j)' <=> Granted(q, j) /\ q # p
        /\ \/ ~locked["x"] /\ locked' = [locked EXCEPT !["x"] = TRUE] /\ ~QLockWoken(p)
           \/ Granted(p, "x") /\ locked' = locked /\ QLockWoken(p)
    BY <1>0, GetEffect DEF RLockX
  <1>3. OnlyMoves(p)
    BY <1>1, <1>2, <1>0 DEF OnlyMoves, LockInv
  <1>4. rpc' \in [Procs -> RPC] /\ CallInv'
    <2>1. rpc' \in [Procs -> RPC]
      BY <1>1 DEF LockInv, RPC, EntryPC, ExitPC, WriterPC
    <2>2. CallInv'
      BY <1>1, <1>2, <1>0, <1>3 DEF LockInv, CallInv, InLock, OnlyMoves
    <2>. QED
      BY <2>1, <2>2
  <1>5. XInv'
    <2>1. \/ ~locked["x"] /\ locked'["x"] /\ \A q \in Procs : HasX(q)' <=> HasX(q) \/ q = p
          \/ locked'["x"] = locked["x"] /\ \A q \in Procs : HasX(q)' <=> HasX(q)
      BY <1>1, <1>2, <1>0, <1>3, GrantedBlocks DEF HasX, HasK, SharesK, Releasing, InLock, GrantKept, OnlyMoves
    <2>. QED
      BY <2>1, XKept
  <1>6. KInv'
    <2>1. locked'["k"] = locked["k"] /\ \A q \in Procs : HasK(q)' <=> HasK(q)
      BY <1>1, <1>2, <1>0, <1>3, GrantedBlocks DEF HasX, HasK, SharesK, Releasing, InLock, GrantKept, OnlyMoves
    <2>2. \A q \in Procs : SharesK(q)' <=> SharesK(q)
      BY <1>1, <1>3 DEF SharesK, OnlyMoves
    <2>. QED
      BY <2>1, <2>2, KKept
  <1>7. LInv'
    BY <1>1, <1>3, LKept DEF RLockX, qvars
  <1>8. CountInv'
    BY <1>1, <1>3, CountKept DEF RLockX, qvars
  <1>. QED
    BY <1>4, <1>5, <1>6, <1>7, <1>8 DEF RestInv

\* canrlock has x.
LEMMA CanRLockXStep ==
  ASSUME IInv, QInv', NEW p \in Procs, CanRLockX(p)
  PROVE  RestInv'
  <1>. USE BothLocks
  <1>. LockInv /\ XInv /\ KInv /\ LInv /\ CountInv
    BY DEF IInv
  <1>. locked \in [QLocks -> BOOLEAN] /\ locked' \in [QLocks -> BOOLEAN]
    BY DEF LockInv, QInv, QTypeOK
  <1>1. rpc[p] = "cr_x" /\ rpc'[p] = "r_l" /\ rpc' = [rpc EXCEPT ![p] = "r_l"]
    BY DEF CanRLockX, RStep, LockInv
  <1>0. qarg[p] = "x" /\ qpc[p] \in {"c_use", "c_test"}
    BY <1>1 DEF LockInv, CallInv, InLock
  <1>2. /\ qpc'[p] = "idle"
        /\ \A q \in Procs \ {p} : qpc'[q] = qpc[q] /\ qarg'[q] = qarg[q]
        /\ \A q \in Procs, j \in QLocks : Granted(q, j)' <=> Granted(q, j) /\ q # p
        /\ \/ ~locked["x"] /\ locked' = [locked EXCEPT !["x"] = TRUE] /\ ~QLockWoken(p)
           \/ Granted(p, "x") /\ locked' = locked /\ QLockWoken(p)
    BY <1>0, GetEffect DEF CanRLockX
  <1>3. OnlyMoves(p)
    BY <1>1, <1>2, <1>0 DEF OnlyMoves, LockInv
  <1>4. rpc' \in [Procs -> RPC] /\ CallInv'
    <2>1. rpc' \in [Procs -> RPC]
      BY <1>1 DEF LockInv, RPC, EntryPC, ExitPC, WriterPC
    <2>2. CallInv'
      BY <1>1, <1>2, <1>0, <1>3 DEF LockInv, CallInv, InLock, OnlyMoves
    <2>. QED
      BY <2>1, <2>2
  <1>5. XInv'
    <2>1. \/ ~locked["x"] /\ locked'["x"] /\ \A q \in Procs : HasX(q)' <=> HasX(q) \/ q = p
          \/ locked'["x"] = locked["x"] /\ \A q \in Procs : HasX(q)' <=> HasX(q)
      BY <1>1, <1>2, <1>0, <1>3, GrantedBlocks DEF HasX, HasK, SharesK, Releasing, InLock, GrantKept, OnlyMoves
    <2>. QED
      BY <2>1, XKept
  <1>6. KInv'
    <2>1. locked'["k"] = locked["k"] /\ \A q \in Procs : HasK(q)' <=> HasK(q)
      BY <1>1, <1>2, <1>0, <1>3, GrantedBlocks DEF HasX, HasK, SharesK, Releasing, InLock, GrantKept, OnlyMoves
    <2>2. \A q \in Procs : SharesK(q)' <=> SharesK(q)
      BY <1>1, <1>3 DEF SharesK, OnlyMoves
    <2>. QED
      BY <2>1, <2>2, KKept
  <1>7. LInv'
    BY <1>1, <1>3, LKept DEF CanRLockX, qvars
  <1>8. CountInv'
    BY <1>1, <1>3, CountKept DEF CanRLockX, qvars
  <1>. QED
    BY <1>4, <1>5, <1>6, <1>7, <1>8 DEF RestInv

\* wlock has x.
LEMMA WLockXStep ==
  ASSUME IInv, QInv', NEW p \in Procs, WLockX(p)
  PROVE  RestInv'
  <1>. USE BothLocks
  <1>. LockInv /\ XInv /\ KInv /\ LInv /\ CountInv
    BY DEF IInv
  <1>. locked \in [QLocks -> BOOLEAN] /\ locked' \in [QLocks -> BOOLEAN]
    BY DEF LockInv, QInv, QTypeOK
  <1>1. rpc[p] = "w_x" /\ rpc'[p] = "w_callk" /\ rpc' = [rpc EXCEPT ![p] = "w_callk"]
    BY DEF WLockX, RStep, LockInv
  <1>0. qarg[p] = "x" /\ qpc[p] \in {"l_use", "l_test", "l_block"}
    BY <1>1 DEF LockInv, CallInv, InLock
  <1>2. /\ qpc'[p] = "idle"
        /\ \A q \in Procs \ {p} : qpc'[q] = qpc[q] /\ qarg'[q] = qarg[q]
        /\ \A q \in Procs, j \in QLocks : Granted(q, j)' <=> Granted(q, j) /\ q # p
        /\ \/ ~locked["x"] /\ locked' = [locked EXCEPT !["x"] = TRUE] /\ ~QLockWoken(p)
           \/ Granted(p, "x") /\ locked' = locked /\ QLockWoken(p)
    BY <1>0, GetEffect DEF WLockX
  <1>3. OnlyMoves(p)
    BY <1>1, <1>2, <1>0 DEF OnlyMoves, LockInv
  <1>4. rpc' \in [Procs -> RPC] /\ CallInv'
    <2>1. rpc' \in [Procs -> RPC]
      BY <1>1 DEF LockInv, RPC, EntryPC, ExitPC, WriterPC
    <2>2. CallInv'
      BY <1>1, <1>2, <1>0, <1>3 DEF LockInv, CallInv, InLock, OnlyMoves
    <2>. QED
      BY <2>1, <2>2
  <1>5. XInv'
    <2>1. \/ ~locked["x"] /\ locked'["x"] /\ \A q \in Procs : HasX(q)' <=> HasX(q) \/ q = p
          \/ locked'["x"] = locked["x"] /\ \A q \in Procs : HasX(q)' <=> HasX(q)
      BY <1>1, <1>2, <1>0, <1>3, GrantedBlocks DEF HasX, HasK, SharesK, Releasing, InLock, GrantKept, OnlyMoves
    <2>. QED
      BY <2>1, XKept
  <1>6. KInv'
    <2>1. locked'["k"] = locked["k"] /\ \A q \in Procs : HasK(q)' <=> HasK(q)
      BY <1>1, <1>2, <1>0, <1>3, GrantedBlocks DEF HasX, HasK, SharesK, Releasing, InLock, GrantKept, OnlyMoves
    <2>2. \A q \in Procs : SharesK(q)' <=> SharesK(q)
      BY <1>1, <1>3 DEF SharesK, OnlyMoves
    <2>. QED
      BY <2>1, <2>2, KKept
  <1>7. LInv'
    BY <1>1, <1>3, LKept DEF WLockX, qvars
  <1>8. CountInv'
    BY <1>1, <1>3, CountKept DEF WLockX, qvars
  <1>. QED
    BY <1>4, <1>5, <1>6, <1>7, <1>8 DEF RestInv

\* canrlock gives up.
LEMMA CanRLockPuntStep ==
  ASSUME IInv, QInv', NEW p \in Procs, CanRLockPunt(p)
  PROVE  RestInv'
  <1>. USE BothLocks
  <1>. LockInv /\ XInv /\ KInv /\ LInv /\ CountInv
    BY DEF IInv
  <1>. locked \in [QLocks -> BOOLEAN] /\ locked' \in [QLocks -> BOOLEAN]
    BY DEF LockInv, QInv, QTypeOK
  <1>1. rpc[p] = "cr_x" /\ rpc'[p] = "out" /\ rpc' = [rpc EXCEPT ![p] = "out"]
    BY DEF CanRLockPunt, RStep, LockInv
  <1>0. qpc[p] \in {"c_use", "c_test"}
    BY <1>1 DEF LockInv, CallInv, InLock
  <1>2. /\ qpc'[p] = "idle" /\ locked' = locked /\ GrantKept
        /\ \A q \in Procs \ {p} : qpc'[q] = qpc[q] /\ qarg'[q] = qarg[q]
    BY RefusedEffect DEF CanRLockPunt
  <1>3. OnlyMoves(p)
    BY <1>1, <1>2, <1>0 DEF OnlyMoves, LockInv
  <1>4. rpc' \in [Procs -> RPC] /\ CallInv'
    <2>1. rpc' \in [Procs -> RPC]
      BY <1>1 DEF LockInv, RPC, EntryPC, ExitPC, WriterPC
    <2>2. CallInv'
      BY <1>1, <1>2, <1>0, <1>3 DEF LockInv, CallInv, InLock, OnlyMoves
    <2>. QED
      BY <2>1, <2>2
  <1>5. XInv'
    <2>1. locked'["x"] = locked["x"] /\ \A q \in Procs : HasX(q)' <=> HasX(q)
      BY <1>1, <1>2, <1>0, <1>3, GrantedBlocks DEF HasX, HasK, SharesK, Releasing, InLock, GrantKept, OnlyMoves
    <2>. QED
      BY <2>1, XKept
  <1>6. KInv'
    <2>1. locked'["k"] = locked["k"] /\ \A q \in Procs : HasK(q)' <=> HasK(q)
      BY <1>1, <1>2, <1>0, <1>3, GrantedBlocks DEF HasX, HasK, SharesK, Releasing, InLock, GrantKept, OnlyMoves
    <2>2. \A q \in Procs : SharesK(q)' <=> SharesK(q)
      BY <1>1, <1>3 DEF SharesK, OnlyMoves
    <2>. QED
      BY <2>1, <2>2, KKept
  <1>7. LInv'
    BY <1>1, <1>3, LKept DEF CanRLockPunt, qvars
  <1>8. CountInv'
    BY <1>1, <1>3, CountKept DEF CanRLockPunt, qvars
  <1>. QED
    BY <1>4, <1>5, <1>6, <1>7, <1>8 DEF RestInv

\* The reader is counted, and tries k.
LEMMA RLockCountStep ==
  ASSUME IInv, QInv', NEW p \in Procs, RLockCount(p)
  PROVE  RestInv'
  <1>. USE BothLocks
  <1>. LockInv /\ XInv /\ KInv /\ LInv /\ CountInv
    BY DEF IInv
  <1>. locked \in [QLocks -> BOOLEAN] /\ locked' \in [QLocks -> BOOLEAN]
    BY DEF LockInv, QInv, QTypeOK
  <1>1. rpc[p] = "r_l" /\ rpc'[p] = "r_k" /\ rpc' = [rpc EXCEPT ![p] = "r_k"]
    BY DEF RLockCount, RStep, LockInv
  <1>2. /\ qpc[p] = "idle" /\ qpc'[p] = "c_use" /\ qarg'[p] = "k" /\ locked' = locked
        /\ GrantKept /\ \A q \in Procs \ {p} : qpc'[q] = qpc[q] /\ qarg'[q] = qarg[q]
    BY CallEffect DEF RLockCount, CanQLockCall
  <1>3. OnlyMoves(p)
    BY <1>1, <1>2 DEF OnlyMoves, LockInv
  <1>4. rpc' \in [Procs -> RPC] /\ CallInv'
    <2>1. rpc' \in [Procs -> RPC]
      BY <1>1 DEF LockInv, RPC, EntryPC, ExitPC, WriterPC
    <2>2. CallInv'
      BY <1>1, <1>2, <1>3 DEF LockInv, CallInv, InLock, OnlyMoves
    <2>. QED
      BY <2>1, <2>2
  <1>5. XInv'
    <2>1. locked'["x"] = locked["x"] /\ \A q \in Procs : HasX(q)' <=> HasX(q)
      BY <1>1, <1>2, <1>3, GrantedBlocks DEF HasX, HasK, SharesK, Releasing, InLock, GrantKept, OnlyMoves
    <2>. QED
      BY <2>1, XKept
  <1>6. KInv'
    <2>1. locked'["k"] = locked["k"] /\ \A q \in Procs : HasK(q)' <=> HasK(q)
      BY <1>1, <1>2, <1>3, GrantedBlocks DEF HasX, HasK, SharesK, Releasing, InLock, GrantKept, OnlyMoves
    <2>2. \A q \in Procs : SharesK(q)' <=> SharesK(q)
      BY <1>1, <1>3 DEF SharesK, OnlyMoves
    <2>. QED
      BY <2>1, <2>2, KKept
  <1>7. LInv'
    <2>1. l = NoProc /\ l' = p
      BY DEF RLockCount
    <2>. QED
      BY <1>1, <1>3, <2>1, QLockAssumption DEF LInv, OnlyMoves
  <1>8. CountInv'
    <2>1. p \notin Counted /\ Counted' = Counted \cup {p}
      BY <1>1, <1>3 DEF Counted, OnlyMoves
    <2>2. IsFiniteSet(Counted') /\ Cardinality(Counted') = Cardinality(Counted) + 1
      BY <2>1, FS_AddElement DEF CountInv
    <2>. QED
      BY <2>2 DEF CountInv, RLockCount
  <1>. QED
    BY <1>4, <1>5, <1>6, <1>7, <1>8 DEF RestInv

\* canqlock(&l->k) gets k for the first reader: x and the spin lock of the structure
\* keep everybody out who could be inside k's own. Later readers share it.
LEMMA RLockKStep ==
  ASSUME IInv, QInv', NEW p \in Procs, RLockK(p)
  PROVE  RestInv'
  <1>. USE BothLocks
  <1>. LockInv /\ XInv /\ KInv /\ LInv /\ CountInv
    BY DEF IInv
  <1>. locked \in [QLocks -> BOOLEAN] /\ locked' \in [QLocks -> BOOLEAN]
    BY DEF LockInv, QInv, QTypeOK
  <1>1. rpc[p] = "r_k" /\ rpc'[p] = "r_unl" /\ rpc' = [rpc EXCEPT ![p] = "r_unl"]
    BY DEF RLockK, RStep, LockInv
  <1>0. qarg[p] = "k" /\ qpc[p] \in {"c_use", "c_test"}
    BY <1>1 DEF LockInv, CallInv, InLock
  <1>a. ASSUME NEW q \in Procs, q # p
        PROVE  /\ rpc[q] \notin {"r_k", "w_k", "wu_k", "ru_k", "writing"}
               /\ qarg[q] # "k"
    <2>1. rpc[q] \notin {"r_k", "w_k", "wu_k", "ru_k", "writing"}
      BY <1>1, <1>a DEF XInv, HasX, LInv
    <2>. QED
      BY <2>1, RWLockAssumption, QLockAssumption DEF LockInv, QInv, QTypeOK, ArgInv, CallInv, InLock, RPC, EntryPC, ExitPC, WriterPC
  <1>b. \A q \in Procs : ~HasK(q)
    BY <1>0, <1>1, <1>a, GrantedBlocks DEF HasK, Releasing, InLock
  <1>c. use["k"] \in {NoProc, p}
    BY <1>a DEF LockInv, QInv, QTypeOK, UseInv
  <1>2. /\ qpc'[p] = "idle" /\ GrantKept /\ locked'["k"] /\ locked'["x"] = locked["x"]
        /\ \A q \in Procs \ {p} : qpc'[q] = qpc[q] /\ qarg'[q] = qarg[q]
    <2>1. CASE CanQLockGet(p)
      <3>1. /\ qpc'[p] = "idle" /\ locked' = [locked EXCEPT !["k"] = TRUE]
            /\ \A q \in Procs \ {p} : qpc'[q] = qpc[q] /\ qarg'[q] = qarg[q]
        BY <1>0, <2>1 DEF CanQLockGet, Return, Step, LockInv, QInv, QTypeOK
      <3>2. GrantKept
        BY <2>1, GrantSame DEF LockInv, GrantKept
      <3>. QED
        BY <3>1, <3>2
    <2>2. CASE CanQLockRefused(p)
      <3>1. /\ qpc'[p] = "idle" /\ locked' = locked /\ GrantKept
            /\ \A q \in Procs \ {p} : qpc'[q] = qpc[q] /\ qarg'[q] = qarg[q]
        BY <2>2, RefusedEffect
      <3>2. locked["k"]
        <4>1. CASE CanQLockBusy(p)
          <5>1. use["k"] = p /\ qpc[p] = "c_use"
            BY <1>0, <1>c, <4>1 DEF CanQLockBusy, Return, Step
          <5>. QED
            BY <5>1 DEF LockInv, QInv, UseInv
        <4>2. CASE CanQLockFail(p)
          BY <1>0, <4>2 DEF CanQLockFail
        <4>. QED
          BY <2>2, <4>1, <4>2 DEF CanQLockRefused
      <3>. QED
        BY <3>1, <3>2
    <2>. QED
      BY <2>1, <2>2 DEF RLockK
  <1>3. OnlyMoves(p)
    BY <1>1, <1>2 DEF OnlyMoves, LockInv
  <1>4. rpc' \in [Procs -> RPC] /\ CallInv'
    <2>1. rpc' \in [Procs -> RPC]
      BY <1>1 DEF LockInv, RPC, EntryPC, ExitPC, WriterPC
    <2>2. CallInv'
      BY <1>1, <1>2, <1>3 DEF LockInv, CallInv, InLock, OnlyMoves
    <2>. QED
      BY <2>1, <2>2
  <1>5. XInv'
    <2>1. locked'["x"] = locked["x"] /\ \A q \in Procs : HasX(q)' <=> HasX(q)
      BY <1>0, <1>1, <1>2, <1>3, GrantedBlocks DEF HasX, Releasing, InLock, GrantKept, OnlyMoves
    <2>. QED
      BY <2>1, XKept
  <1>6. KInv'
    <2>1. \A q \in Procs : ~HasK(q)'
      BY <1>0, <1>1, <1>2, <1>3, <1>b, GrantedBlocks DEF HasK, Releasing, InLock, GrantKept, OnlyMoves
    <2>2. SharesK(p)'
      BY <1>1 DEF SharesK
    <2>. QED
      BY <1>2, <2>1, <2>2 DEF KInv
  <1>7. LInv'
    BY <1>1, <1>3, LKept DEF RLockK
  <1>8. CountInv'
    BY <1>1, <1>3, CountKept DEF RLockK
  <1>. QED
    BY <1>4, <1>5, <1>6, <1>7, <1>8 DEF RestInv

\* The reader lets the next process in.
LEMMA RLockUnlStep ==
  ASSUME IInv, QInv', NEW p \in Procs, RLockUnl(p)
  PROVE  RestInv'
  <1>. USE BothLocks
  <1>. LockInv /\ XInv /\ KInv /\ LInv /\ CountInv
    BY DEF IInv
  <1>. locked \in [QLocks -> BOOLEAN] /\ locked' \in [QLocks -> BOOLEAN]
    BY DEF LockInv, QInv, QTypeOK
  <1>1. rpc[p] = "r_unl" /\ rpc'[p] = "r_qx" /\ rpc' = [rpc EXCEPT ![p] = "r_qx"]
    BY DEF RLockUnl, RStep, LockInv
  <1>2. /\ qpc[p] = "idle" /\ qpc'[p] = "u_use" /\ qarg'[p] = "x" /\ locked' = locked
        /\ GrantKept /\ \A q \in Procs \ {p} : qpc'[q] = qpc[q] /\ qarg'[q] = qarg[q]
    BY CallEffect DEF RLockUnl, QUnlockCall
  <1>3. OnlyMoves(p)
    BY <1>1, <1>2 DEF OnlyMoves, LockInv
  <1>4. rpc' \in [Procs -> RPC] /\ CallInv'
    <2>1. rpc' \in [Procs -> RPC]
      BY <1>1 DEF LockInv, RPC, EntryPC, ExitPC, WriterPC
    <2>2. CallInv'
      BY <1>1, <1>2, <1>3 DEF LockInv, CallInv, InLock, OnlyMoves
    <2>. QED
      BY <2>1, <2>2
  <1>5. XInv'
    <2>1. locked'["x"] = locked["x"] /\ \A q \in Procs : HasX(q)' <=> HasX(q)
      BY <1>1, <1>2, <1>3, GrantedBlocks DEF HasX, HasK, SharesK, Releasing, InLock, GrantKept, OnlyMoves
    <2>. QED
      BY <2>1, XKept
  <1>6. KInv'
    <2>1. locked'["k"] = locked["k"] /\ \A q \in Procs : HasK(q)' <=> HasK(q)
      BY <1>1, <1>2, <1>3, GrantedBlocks DEF HasX, HasK, SharesK, Releasing, InLock, GrantKept, OnlyMoves
    <2>2. \A q \in Procs : SharesK(q)' <=> SharesK(q)
      BY <1>1, <1>3 DEF SharesK, OnlyMoves
    <2>. QED
      BY <2>1, <2>2, KKept
  <1>7. LInv'
    <2>1. l' = NoProc
      BY DEF RLockUnl
    <2>2. l = p
      BY <1>1 DEF LInv
    <2>. QED
      BY <1>1, <1>3, <2>1, <2>2, QLockAssumption DEF LInv, OnlyMoves
  <1>8. CountInv'
    BY <1>1, <1>3, CountKept DEF RLockUnl, qvars
  <1>. QED
    BY <1>4, <1>5, <1>6, <1>7, <1>8 DEF RestInv

\* The reader has let go of x.
LEMMA RLockReturnStep ==
  ASSUME IInv, QInv', NEW p \in Procs, RLockReturn(p)
  PROVE  RestInv'
  <1>. USE BothLocks
  <1>. LockInv /\ XInv /\ KInv /\ LInv /\ CountInv
    BY DEF IInv
  <1>. locked \in [QLocks -> BOOLEAN] /\ locked' \in [QLocks -> BOOLEAN]
    BY DEF LockInv, QInv, QTypeOK
  <1>1. rpc[p] = "r_qx" /\ rpc'[p] = "reading" /\ rpc' = [rpc EXCEPT ![p] = "reading"]
    BY DEF RLockReturn, RStep, LockInv
  <1>0. qarg[p] = "x" /\ qpc[p] \in {"u_use", "u_test", "u_ready"}
    BY <1>1 DEF LockInv, CallInv, InLock
  <1>2. /\ qpc'[p] = "idle" /\ GrantKept
        /\ \A q \in Procs \ {p} : qpc'[q] = qpc[q] /\ qarg'[q] = qarg[q]
        /\ \/ qpc[p] = "u_ready" /\ locked' = locked
           \/ qpc[p] = "u_test" /\ locked' = [locked EXCEPT !["x"] = FALSE]
    BY <1>0, ReleasedEffect DEF RLockReturn
  <1>3. OnlyMoves(p)
    BY <1>1, <1>2, <1>0 DEF OnlyMoves, LockInv
  <1>4. rpc' \in [Procs -> RPC] /\ CallInv'
    <2>1. rpc' \in [Procs -> RPC]
      BY <1>1 DEF LockInv, RPC, EntryPC, ExitPC, WriterPC
    <2>2. CallInv'
      BY <1>1, <1>2, <1>0, <1>3 DEF LockInv, CallInv, InLock, OnlyMoves
    <2>. QED
      BY <2>1, <2>2
  <1>5. XInv'
    <2>1. \/ HasX(p) /\ ~locked'["x"] /\ \A q \in Procs : HasX(q)' <=> HasX(q) /\ q # p
          \/ locked'["x"] = locked["x"] /\ \A q \in Procs : HasX(q)' <=> HasX(q)
      BY <1>1, <1>2, <1>0, <1>3, GrantedBlocks DEF HasX, HasK, SharesK, Releasing, InLock, GrantKept, OnlyMoves
    <2>. QED
      BY <2>1, XKept
  <1>6. KInv'
    <2>1. locked'["k"] = locked["k"] /\ \A q \in Procs : HasK(q)' <=> HasK(q)
      BY <1>1, <1>2, <1>0, <1>3, GrantedBlocks DEF HasX, HasK, SharesK, Releasing, InLock, GrantKept, OnlyMoves
    <2>2. \A q \in Procs : SharesK(q)' <=> SharesK(q)
      BY <1>1, <1>3 DEF SharesK, OnlyMoves
    <2>. QED
      BY <2>1, <2>2, KKept
  <1>7. LInv'
    BY <1>1, <1>3, LKept DEF RLockReturn, qvars
  <1>8. CountInv'
    BY <1>1, <1>3, CountKept DEF RLockReturn, qvars
  <1>. QED
    BY <1>4, <1>5, <1>6, <1>7, <1>8 DEF RestInv

\* runlock is called.
LEMMA RUnlockCallStep ==
  ASSUME IInv, QInv', NEW p \in Procs, RUnlockCall(p)
  PROVE  RestInv'
  <1>. USE BothLocks
  <1>. LockInv /\ XInv /\ KInv /\ LInv /\ CountInv
    BY DEF IInv
  <1>. locked \in [QLocks -> BOOLEAN] /\ locked' \in [QLocks -> BOOLEAN]
    BY DEF LockInv, QInv, QTypeOK
  <1>1. rpc[p] = "reading" /\ rpc'[p] = "ru_l" /\ rpc' = [rpc EXCEPT ![p] = "ru_l"]
    BY DEF RUnlockCall, RStep, LockInv
  <1>2. qpc[p] = "idle" /\ qpc' = qpc /\ qarg' = qarg /\ locked' = locked /\ GrantKept
    BY <1>1, SameQueue DEF RUnlockCall, qvars, GrantKept, Granted, LockInv, CallInv
  <1>3. OnlyMoves(p)
    BY <1>1, <1>2 DEF OnlyMoves, LockInv
  <1>4. rpc' \in [Procs -> RPC] /\ CallInv'
    <2>1. rpc' \in [Procs -> RPC]
      BY <1>1 DEF LockInv, RPC, EntryPC, ExitPC, WriterPC
    <2>2. CallInv'
      BY <1>1, <1>2, <1>3 DEF LockInv, CallInv, InLock, OnlyMoves
    <2>. QED
      BY <2>1, <2>2
  <1>5. XInv'
    <2>1. locked'["x"] = locked["x"] /\ \A q \in Procs : HasX(q)' <=> HasX(q)
      BY <1>1, <1>2, <1>3, GrantedBlocks DEF HasX, HasK, SharesK, Releasing, InLock, GrantKept, OnlyMoves
    <2>. QED
      BY <2>1, XKept
  <1>6. KInv'
    <2>1. locked'["k"] = locked["k"] /\ \A q \in Procs : HasK(q)' <=> HasK(q)
      BY <1>1, <1>2, <1>3, GrantedBlocks DEF HasX, HasK, SharesK, Releasing, InLock, GrantKept, OnlyMoves
    <2>2. \A q \in Procs : SharesK(q)' <=> SharesK(q)
      BY <1>1, <1>3 DEF SharesK, OnlyMoves
    <2>. QED
      BY <2>1, <2>2, KKept
  <1>7. LInv'
    BY <1>1, <1>3, LKept DEF RUnlockCall, qvars
  <1>8. CountInv'
    BY <1>1, <1>3, CountKept DEF RUnlockCall, qvars
  <1>. QED
    BY <1>4, <1>5, <1>6, <1>7, <1>8 DEF RestInv

\* The last reader takes k for itself, to release it.
LEMMA RUnlockLastStep ==
  ASSUME IInv, QInv', NEW p \in Procs, RUnlockLast(p)
  PROVE  RestInv'
  <1>. USE BothLocks
  <1>. LockInv /\ XInv /\ KInv /\ LInv /\ CountInv
    BY DEF IInv
  <1>. locked \in [QLocks -> BOOLEAN] /\ locked' \in [QLocks -> BOOLEAN]
    BY DEF LockInv, QInv, QTypeOK
  <1>1. rpc[p] = "ru_l" /\ rpc'[p] = "ru_k" /\ rpc' = [rpc EXCEPT ![p] = "ru_k"]
    BY DEF RUnlockLast, RStep, LockInv
  <1>2. /\ qpc[p] = "idle" /\ qpc'[p] = "u_use" /\ qarg'[p] = "k" /\ locked' = locked
        /\ GrantKept /\ \A q \in Procs \ {p} : qpc'[q] = qpc[q] /\ qarg'[q] = qarg[q]
    BY CallEffect DEF RUnlockLast, QUnlockCall
  <1>3. OnlyMoves(p)
    BY <1>1, <1>2 DEF OnlyMoves, LockInv
  <1>4. rpc' \in [Procs -> RPC] /\ CallInv'
    <2>1. rpc' \in [Procs -> RPC]
      BY <1>1 DEF LockInv, RPC, EntryPC, ExitPC, WriterPC
    <2>2. CallInv'
      BY <1>1, <1>2, <1>3 DEF LockInv, CallInv, InLock, OnlyMoves
    <2>. QED
      BY <2>1, <2>2
  <1>5. XInv'
    <2>1. locked'["x"] = locked["x"] /\ \A q \in Procs : HasX(q)' <=> HasX(q)
      BY <1>1, <1>2, <1>3, GrantedBlocks DEF HasX, HasK, SharesK, Releasing, InLock, GrantKept, OnlyMoves
    <2>. QED
      BY <2>1, XKept
  <1>6. KInv'
    <2>1. SharesK(p) /\ locked["k"] /\ \A q \in Procs : ~HasK(q)
      BY <1>1 DEF SharesK, KInv
    <2>2. \A q \in Procs \ {p} : ~SharesK(q)
      <3>1. Counted = {p}
        BY <1>1, FS_Singleton DEF CountInv, RUnlockLast, Counted
      <3>. QED
        BY <3>1 DEF Counted, SharesK
    <2>3. \A q \in Procs : HasK(q)' <=> q = p
      BY <1>1, <1>2, <1>3, <2>1, GrantedBlocks DEF HasK, Releasing, InLock, GrantKept, OnlyMoves
    <2>4. \A q \in Procs : ~SharesK(q)'
      BY <1>1, <1>3, <2>2 DEF SharesK, OnlyMoves
    <2>. QED
      BY <1>2, <2>1, <2>3, <2>4 DEF KInv
  <1>7. LInv'
    <2>1. l = NoProc /\ l' = p
      BY DEF RUnlockLast
    <2>. QED
      BY <1>1, <1>3, <2>1, QLockAssumption DEF LInv, OnlyMoves
  <1>8. CountInv'
    <2>1. p \in Counted /\ Counted' = Counted \ {p}
      BY <1>1, <1>3 DEF Counted, OnlyMoves
    <2>2. IsFiniteSet(Counted') /\ Cardinality(Counted') = Cardinality(Counted) - 1
      BY <2>1, FS_RemoveElement DEF CountInv
    <2>3. Cardinality(Counted) = 1
      BY DEF CountInv, RUnlockLast
    <2>. QED
      BY <2>2, <2>3 DEF CountInv, RUnlockLast
  <1>. QED
    BY <1>4, <1>5, <1>6, <1>7, <1>8 DEF RestInv

\* Another reader is left, which still shares k.
LEMMA RUnlockNotLastStep ==
  ASSUME IInv, QInv', NEW p \in Procs, RUnlockNotLast(p)
  PROVE  RestInv'
  <1>. USE BothLocks
  <1>. LockInv /\ XInv /\ KInv /\ LInv /\ CountInv
    BY DEF IInv
  <1>. locked \in [QLocks -> BOOLEAN] /\ locked' \in [QLocks -> BOOLEAN]
    BY DEF LockInv, QInv, QTypeOK
  <1>1. rpc[p] = "ru_l" /\ rpc'[p] = "out" /\ rpc' = [rpc EXCEPT ![p] = "out"]
    BY DEF RUnlockNotLast, RStep, LockInv
  <1>2. qpc[p] = "idle" /\ qpc' = qpc /\ qarg' = qarg /\ locked' = locked /\ GrantKept
    BY <1>1, SameQueue DEF RUnlockNotLast, qvars, GrantKept, Granted, LockInv, CallInv
  <1>3. OnlyMoves(p)
    BY <1>1, <1>2 DEF OnlyMoves, LockInv
  <1>4. rpc' \in [Procs -> RPC] /\ CallInv'
    <2>1. rpc' \in [Procs -> RPC]
      BY <1>1 DEF LockInv, RPC, EntryPC, ExitPC, WriterPC
    <2>2. CallInv'
      BY <1>1, <1>2, <1>3 DEF LockInv, CallInv, InLock, OnlyMoves
    <2>. QED
      BY <2>1, <2>2
  <1>5. XInv'
    <2>1. locked'["x"] = locked["x"] /\ \A q \in Procs : HasX(q)' <=> HasX(q)
      BY <1>1, <1>2, <1>3, GrantedBlocks DEF HasX, HasK, SharesK, Releasing, InLock, GrantKept, OnlyMoves
    <2>. QED
      BY <2>1, XKept
  <1>6. KInv'
    <2>1. SharesK(p) /\ locked["k"] /\ \A q \in Procs : ~HasK(q)
      BY <1>1 DEF SharesK, KInv
    <2>2. PICK r \in Counted : r # p
      <3>1. p \in Counted /\ Cardinality(Counted) # 1
        BY <1>1 DEF Counted, CountInv, RUnlockNotLast
      <3>. QED
        BY <3>1, FS_Singleton
    <2>3. SharesK(r)' /\ r \in Procs
      <3>1. l = NoProc
        BY DEF RUnlockNotLast
      <3>2. r \in Procs /\ rpc[r] # "r_k"
        BY <3>1, QLockAssumption DEF LInv, Counted
      <3>. QED
        BY <1>3, <2>2, <3>2 DEF SharesK, Counted, OnlyMoves
    <2>4. \A q \in Procs : ~HasK(q)'
      BY <1>1, <1>2, <1>3, <2>1, GrantedBlocks DEF HasK, Releasing, InLock, GrantKept, OnlyMoves
    <2>. QED
      BY <1>2, <2>1, <2>3, <2>4 DEF KInv
  <1>7. LInv'
    BY <1>1, <1>3, LKept DEF RUnlockNotLast, qvars
  <1>8. CountInv'
    <2>1. p \in Counted /\ Counted' = Counted \ {p}
      BY <1>1, <1>3 DEF Counted, OnlyMoves
    <2>2. IsFiniteSet(Counted') /\ Cardinality(Counted') = Cardinality(Counted) - 1
      BY <2>1, FS_RemoveElement DEF CountInv
    <2>. QED
      BY <2>2 DEF CountInv, RUnlockNotLast
  <1>. QED
    BY <1>4, <1>5, <1>6, <1>7, <1>8 DEF RestInv

\* The last reader has let go of k.
LEMMA RUnlockKStep ==
  ASSUME IInv, QInv', NEW p \in Procs, RUnlockK(p)
  PROVE  RestInv'
  <1>. USE BothLocks
  <1>. LockInv /\ XInv /\ KInv /\ LInv /\ CountInv
    BY DEF IInv
  <1>. locked \in [QLocks -> BOOLEAN] /\ locked' \in [QLocks -> BOOLEAN]
    BY DEF LockInv, QInv, QTypeOK
  <1>1. rpc[p] = "ru_k" /\ rpc'[p] = "ru_unl" /\ rpc' = [rpc EXCEPT ![p] = "ru_unl"]
    BY DEF RUnlockK, RStep, LockInv
  <1>0. qarg[p] = "k" /\ qpc[p] \in {"u_use", "u_test", "u_ready"}
    BY <1>1 DEF LockInv, CallInv, InLock
  <1>2. /\ qpc'[p] = "idle" /\ GrantKept
        /\ \A q \in Procs \ {p} : qpc'[q] = qpc[q] /\ qarg'[q] = qarg[q]
        /\ \/ qpc[p] = "u_ready" /\ locked' = locked
           \/ qpc[p] = "u_test" /\ locked' = [locked EXCEPT !["k"] = FALSE]
    BY <1>0, ReleasedEffect DEF RUnlockK
  <1>3. OnlyMoves(p)
    BY <1>1, <1>2, <1>0 DEF OnlyMoves, LockInv
  <1>4. rpc' \in [Procs -> RPC] /\ CallInv'
    <2>1. rpc' \in [Procs -> RPC]
      BY <1>1 DEF LockInv, RPC, EntryPC, ExitPC, WriterPC
    <2>2. CallInv'
      BY <1>1, <1>2, <1>0, <1>3 DEF LockInv, CallInv, InLock, OnlyMoves
    <2>. QED
      BY <2>1, <2>2
  <1>5. XInv'
    <2>1. locked'["x"] = locked["x"] /\ \A q \in Procs : HasX(q)' <=> HasX(q)
      BY <1>1, <1>2, <1>0, <1>3, GrantedBlocks DEF HasX, HasK, SharesK, Releasing, InLock, GrantKept, OnlyMoves
    <2>. QED
      BY <2>1, XKept
  <1>6. KInv'
    <2>1. \/ HasK(p) /\ ~locked'["k"] /\ \A q \in Procs : HasK(q)' <=> HasK(q) /\ q # p
          \/ locked'["k"] = locked["k"] /\ \A q \in Procs : HasK(q)' <=> HasK(q)
      BY <1>1, <1>2, <1>0, <1>3, GrantedBlocks DEF HasX, HasK, SharesK, Releasing, InLock, GrantKept, OnlyMoves
    <2>2. \A q \in Procs : SharesK(q)' <=> SharesK(q)
      BY <1>1, <1>3 DEF SharesK, OnlyMoves
    <2>. QED
      BY <2>1, <2>2, KKept
  <1>7. LInv'
    BY <1>1, <1>3, LKept DEF RUnlockK, qvars
  <1>8. CountInv'
    BY <1>1, <1>3, CountKept DEF RUnlockK, qvars
  <1>. QED
    BY <1>4, <1>5, <1>6, <1>7, <1>8 DEF RestInv

\* The last reader lets go of the count.
LEMMA RUnlockReturnStep ==
  ASSUME IInv, QInv', NEW p \in Procs, RUnlockReturn(p)
  PROVE  RestInv'
  <1>. USE BothLocks
  <1>. LockInv /\ XInv /\ KInv /\ LInv /\ CountInv
    BY DEF IInv
  <1>. locked \in [QLocks -> BOOLEAN] /\ locked' \in [QLocks -> BOOLEAN]
    BY DEF LockInv, QInv, QTypeOK
  <1>1. rpc[p] = "ru_unl" /\ rpc'[p] = "out" /\ rpc' = [rpc EXCEPT ![p] = "out"]
    BY DEF RUnlockReturn, RStep, LockInv
  <1>2. qpc[p] = "idle" /\ qpc' = qpc /\ qarg' = qarg /\ locked' = locked /\ GrantKept
    BY <1>1, SameQueue DEF RUnlockReturn, qvars, GrantKept, Granted, LockInv, CallInv
  <1>3. OnlyMoves(p)
    BY <1>1, <1>2 DEF OnlyMoves, LockInv
  <1>4. rpc' \in [Procs -> RPC] /\ CallInv'
    <2>1. rpc' \in [Procs -> RPC]
      BY <1>1 DEF LockInv, RPC, EntryPC, ExitPC, WriterPC
    <2>2. CallInv'
      BY <1>1, <1>2, <1>3 DEF LockInv, CallInv, InLock, OnlyMoves
    <2>. QED
      BY <2>1, <2>2
  <1>5. XInv'
    <2>1. locked'["x"] = locked["x"] /\ \A q \in Procs : HasX(q)' <=> HasX(q)
      BY <1>1, <1>2, <1>3, GrantedBlocks DEF HasX, HasK, SharesK, Releasing, InLock, GrantKept, OnlyMoves
    <2>. QED
      BY <2>1, XKept
  <1>6. KInv'
    <2>1. locked'["k"] = locked["k"] /\ \A q \in Procs : HasK(q)' <=> HasK(q)
      BY <1>1, <1>2, <1>3, GrantedBlocks DEF HasX, HasK, SharesK, Releasing, InLock, GrantKept, OnlyMoves
    <2>2. \A q \in Procs : SharesK(q)' <=> SharesK(q)
      BY <1>1, <1>3 DEF SharesK, OnlyMoves
    <2>. QED
      BY <2>1, <2>2, KKept
  <1>7. LInv'
    <2>1. l' = NoProc
      BY DEF RUnlockReturn
    <2>2. l = p
      BY <1>1 DEF LInv
    <2>. QED
      BY <1>1, <1>3, <2>1, <2>2, QLockAssumption DEF LInv, OnlyMoves
  <1>8. CountInv'
    BY <1>1, <1>3, CountKept DEF RUnlockReturn, qvars
  <1>. QED
    BY <1>4, <1>5, <1>6, <1>7, <1>8 DEF RestInv

\* The writer waits for the readers.
LEMMA WLockCallKStep ==
  ASSUME IInv, QInv', NEW p \in Procs, WLockCallK(p)
  PROVE  RestInv'
  <1>. USE BothLocks
  <1>. LockInv /\ XInv /\ KInv /\ LInv /\ CountInv
    BY DEF IInv
  <1>. locked \in [QLocks -> BOOLEAN] /\ locked' \in [QLocks -> BOOLEAN]
    BY DEF LockInv, QInv, QTypeOK
  <1>1. rpc[p] = "w_callk" /\ rpc'[p] = "w_k" /\ rpc' = [rpc EXCEPT ![p] = "w_k"]
    BY DEF WLockCallK, RStep, LockInv
  <1>2. /\ qpc[p] = "idle" /\ qpc'[p] = "l_use" /\ qarg'[p] = "k" /\ locked' = locked
        /\ GrantKept /\ \A q \in Procs \ {p} : qpc'[q] = qpc[q] /\ qarg'[q] = qarg[q]
    BY CallEffect DEF WLockCallK, QLockCall
  <1>3. OnlyMoves(p)
    BY <1>1, <1>2 DEF OnlyMoves, LockInv
  <1>4. rpc' \in [Procs -> RPC] /\ CallInv'
    <2>1. rpc' \in [Procs -> RPC]
      BY <1>1 DEF LockInv, RPC, EntryPC, ExitPC, WriterPC
    <2>2. CallInv'
      BY <1>1, <1>2, <1>3 DEF LockInv, CallInv, InLock, OnlyMoves
    <2>. QED
      BY <2>1, <2>2
  <1>5. XInv'
    <2>1. locked'["x"] = locked["x"] /\ \A q \in Procs : HasX(q)' <=> HasX(q)
      BY <1>1, <1>2, <1>3, GrantedBlocks DEF HasX, HasK, SharesK, Releasing, InLock, GrantKept, OnlyMoves
    <2>. QED
      BY <2>1, XKept
  <1>6. KInv'
    <2>1. locked'["k"] = locked["k"] /\ \A q \in Procs : HasK(q)' <=> HasK(q)
      BY <1>1, <1>2, <1>3, GrantedBlocks DEF HasX, HasK, SharesK, Releasing, InLock, GrantKept, OnlyMoves
    <2>2. \A q \in Procs : SharesK(q)' <=> SharesK(q)
      BY <1>1, <1>3 DEF SharesK, OnlyMoves
    <2>. QED
      BY <2>1, <2>2, KKept
  <1>7. LInv'
    BY <1>1, <1>3, LKept DEF WLockCallK, qvars
  <1>8. CountInv'
    BY <1>1, <1>3, CountKept DEF WLockCallK, qvars
  <1>. QED
    BY <1>4, <1>5, <1>6, <1>7, <1>8 DEF RestInv

\* The writer has k.
LEMMA WLockReturnStep ==
  ASSUME IInv, QInv', NEW p \in Procs, WLockReturn(p)
  PROVE  RestInv'
  <1>. USE BothLocks
  <1>. LockInv /\ XInv /\ KInv /\ LInv /\ CountInv
    BY DEF IInv
  <1>. locked \in [QLocks -> BOOLEAN] /\ locked' \in [QLocks -> BOOLEAN]
    BY DEF LockInv, QInv, QTypeOK
  <1>1. rpc[p] = "w_k" /\ rpc'[p] = "writing" /\ rpc' = [rpc EXCEPT ![p] = "writing"]
    BY DEF WLockReturn, RStep, LockInv
  <1>0. qarg[p] = "k" /\ qpc[p] \in {"l_use", "l_test", "l_block"}
    BY <1>1 DEF LockInv, CallInv, InLock
  <1>2. /\ qpc'[p] = "idle"
        /\ \A q \in Procs \ {p} : qpc'[q] = qpc[q] /\ qarg'[q] = qarg[q]
        /\ \A q \in Procs, j \in QLocks : Granted(q, j)' <=> Granted(q, j) /\ q # p
        /\ \/ ~locked["k"] /\ locked' = [locked EXCEPT !["k"] = TRUE] /\ ~QLockWoken(p)
           \/ Granted(p, "k") /\ locked' = locked /\ QLockWoken(p)
    BY <1>0, GetEffect DEF WLockReturn
  <1>3. OnlyMoves(p)
    BY <1>1, <1>2, <1>0 DEF OnlyMoves, LockInv
  <1>4. rpc' \in [Procs -> RPC] /\ CallInv'
    <2>1. rpc' \in [Procs -> RPC]
      BY <1>1 DEF LockInv, RPC, EntryPC, ExitPC, WriterPC
    <2>2. CallInv'
      BY <1>1, <1>2, <1>0, <1>3 DEF LockInv, CallInv, InLock, OnlyMoves
    <2>. QED
      BY <2>1, <2>2
  <1>5. XInv'
    <2>1. locked'["x"] = locked["x"] /\ \A q \in Procs : HasX(q)' <=> HasX(q)
      BY <1>1, <1>2, <1>0, <1>3, GrantedBlocks DEF HasX, HasK, SharesK, Releasing, InLock, GrantKept, OnlyMoves
    <2>. QED
      BY <2>1, XKept
  <1>6. KInv'
    <2>1. \/ ~locked["k"] /\ locked'["k"] /\ \A q \in Procs : HasK(q)' <=> HasK(q) \/ q = p
          \/ locked'["k"] = locked["k"] /\ \A q \in Procs : HasK(q)' <=> HasK(q)
      BY <1>1, <1>2, <1>0, <1>3, GrantedBlocks DEF HasX, HasK, SharesK, Releasing, InLock, GrantKept, OnlyMoves
    <2>2. \A q \in Procs : SharesK(q)' <=> SharesK(q)
      BY <1>1, <1>3 DEF SharesK, OnlyMoves
    <2>. QED
      BY <2>1, <2>2, KKept
  <1>7. LInv'
    BY <1>1, <1>3, LKept DEF WLockReturn, qvars
  <1>8. CountInv'
    BY <1>1, <1>3, CountKept DEF WLockReturn, qvars
  <1>. QED
    BY <1>4, <1>5, <1>6, <1>7, <1>8 DEF RestInv

\* wunlock is called.
LEMMA WUnlockCallStep ==
  ASSUME IInv, QInv', NEW p \in Procs, WUnlockCall(p)
  PROVE  RestInv'
  <1>. USE BothLocks
  <1>. LockInv /\ XInv /\ KInv /\ LInv /\ CountInv
    BY DEF IInv
  <1>. locked \in [QLocks -> BOOLEAN] /\ locked' \in [QLocks -> BOOLEAN]
    BY DEF LockInv, QInv, QTypeOK
  <1>1. rpc[p] = "writing" /\ rpc'[p] = "wu_k" /\ rpc' = [rpc EXCEPT ![p] = "wu_k"]
    BY DEF WUnlockCall, RStep, LockInv
  <1>2. /\ qpc[p] = "idle" /\ qpc'[p] = "u_use" /\ qarg'[p] = "k" /\ locked' = locked
        /\ GrantKept /\ \A q \in Procs \ {p} : qpc'[q] = qpc[q] /\ qarg'[q] = qarg[q]
    BY CallEffect DEF WUnlockCall, QUnlockCall
  <1>3. OnlyMoves(p)
    BY <1>1, <1>2 DEF OnlyMoves, LockInv
  <1>4. rpc' \in [Procs -> RPC] /\ CallInv'
    <2>1. rpc' \in [Procs -> RPC]
      BY <1>1 DEF LockInv, RPC, EntryPC, ExitPC, WriterPC
    <2>2. CallInv'
      BY <1>1, <1>2, <1>3 DEF LockInv, CallInv, InLock, OnlyMoves
    <2>. QED
      BY <2>1, <2>2
  <1>5. XInv'
    <2>1. locked'["x"] = locked["x"] /\ \A q \in Procs : HasX(q)' <=> HasX(q)
      BY <1>1, <1>2, <1>3, GrantedBlocks DEF HasX, HasK, SharesK, Releasing, InLock, GrantKept, OnlyMoves
    <2>. QED
      BY <2>1, XKept
  <1>6. KInv'
    <2>1. locked'["k"] = locked["k"] /\ \A q \in Procs : HasK(q)' <=> HasK(q)
      BY <1>1, <1>2, <1>3, GrantedBlocks DEF HasX, HasK, SharesK, Releasing, InLock, GrantKept, OnlyMoves
    <2>2. \A q \in Procs : SharesK(q)' <=> SharesK(q)
      BY <1>1, <1>3 DEF SharesK, OnlyMoves
    <2>. QED
      BY <2>1, <2>2, KKept
  <1>7. LInv'
    BY <1>1, <1>3, LKept DEF WUnlockCall, qvars
  <1>8. CountInv'
    BY <1>1, <1>3, CountKept DEF WUnlockCall, qvars
  <1>. QED
    BY <1>4, <1>5, <1>6, <1>7, <1>8 DEF RestInv

\* The writer has let go of k.
LEMMA WUnlockKStep ==
  ASSUME IInv, QInv', NEW p \in Procs, WUnlockK(p)
  PROVE  RestInv'
  <1>. USE BothLocks
  <1>. LockInv /\ XInv /\ KInv /\ LInv /\ CountInv
    BY DEF IInv
  <1>. locked \in [QLocks -> BOOLEAN] /\ locked' \in [QLocks -> BOOLEAN]
    BY DEF LockInv, QInv, QTypeOK
  <1>1. rpc[p] = "wu_k" /\ rpc'[p] = "wu_callx" /\ rpc' = [rpc EXCEPT ![p] = "wu_callx"]
    BY DEF WUnlockK, RStep, LockInv
  <1>0. qarg[p] = "k" /\ qpc[p] \in {"u_use", "u_test", "u_ready"}
    BY <1>1 DEF LockInv, CallInv, InLock
  <1>2. /\ qpc'[p] = "idle" /\ GrantKept
        /\ \A q \in Procs \ {p} : qpc'[q] = qpc[q] /\ qarg'[q] = qarg[q]
        /\ \/ qpc[p] = "u_ready" /\ locked' = locked
           \/ qpc[p] = "u_test" /\ locked' = [locked EXCEPT !["k"] = FALSE]
    BY <1>0, ReleasedEffect DEF WUnlockK
  <1>3. OnlyMoves(p)
    BY <1>1, <1>2, <1>0 DEF OnlyMoves, LockInv
  <1>4. rpc' \in [Procs -> RPC] /\ CallInv'
    <2>1. rpc' \in [Procs -> RPC]
      BY <1>1 DEF LockInv, RPC, EntryPC, ExitPC, WriterPC
    <2>2. CallInv'
      BY <1>1, <1>2, <1>0, <1>3 DEF LockInv, CallInv, InLock, OnlyMoves
    <2>. QED
      BY <2>1, <2>2
  <1>5. XInv'
    <2>1. locked'["x"] = locked["x"] /\ \A q \in Procs : HasX(q)' <=> HasX(q)
      BY <1>1, <1>2, <1>0, <1>3, GrantedBlocks DEF HasX, HasK, SharesK, Releasing, InLock, GrantKept, OnlyMoves
    <2>. QED
      BY <2>1, XKept
  <1>6. KInv'
    <2>1. \/ HasK(p) /\ ~locked'["k"] /\ \A q \in Procs : HasK(q)' <=> HasK(q) /\ q # p
          \/ locked'["k"] = locked["k"] /\ \A q \in Procs : HasK(q)' <=> HasK(q)
      BY <1>1, <1>2, <1>0, <1>3, GrantedBlocks DEF HasX, HasK, SharesK, Releasing, InLock, GrantKept, OnlyMoves
    <2>2. \A q \in Procs : SharesK(q)' <=> SharesK(q)
      BY <1>1, <1>3 DEF SharesK, OnlyMoves
    <2>. QED
      BY <2>1, <2>2, KKept
  <1>7. LInv'
    BY <1>1, <1>3, LKept DEF WUnlockK, qvars
  <1>8. CountInv'
    BY <1>1, <1>3, CountKept DEF WUnlockK, qvars
  <1>. QED
    BY <1>4, <1>5, <1>6, <1>7, <1>8 DEF RestInv

\* The writer lets the next process in.
LEMMA WUnlockCallXStep ==
  ASSUME IInv, QInv', NEW p \in Procs, WUnlockCallX(p)
  PROVE  RestInv'
  <1>. USE BothLocks
  <1>. LockInv /\ XInv /\ KInv /\ LInv /\ CountInv
    BY DEF IInv
  <1>. locked \in [QLocks -> BOOLEAN] /\ locked' \in [QLocks -> BOOLEAN]
    BY DEF LockInv, QInv, QTypeOK
  <1>1. rpc[p] = "wu_callx" /\ rpc'[p] = "wu_x" /\ rpc' = [rpc EXCEPT ![p] = "wu_x"]
    BY DEF WUnlockCallX, RStep, LockInv
  <1>2. /\ qpc[p] = "idle" /\ qpc'[p] = "u_use" /\ qarg'[p] = "x" /\ locked' = locked
        /\ GrantKept /\ \A q \in Procs \ {p} : qpc'[q] = qpc[q] /\ qarg'[q] = qarg[q]
    BY CallEffect DEF WUnlockCallX, QUnlockCall
  <1>3. OnlyMoves(p)
    BY <1>1, <1>2 DEF OnlyMoves, LockInv
  <1>4. rpc' \in [Procs -> RPC] /\ CallInv'
    <2>1. rpc' \in [Procs -> RPC]
      BY <1>1 DEF LockInv, RPC, EntryPC, ExitPC, WriterPC
    <2>2. CallInv'
      BY <1>1, <1>2, <1>3 DEF LockInv, CallInv, InLock, OnlyMoves
    <2>. QED
      BY <2>1, <2>2
  <1>5. XInv'
    <2>1. locked'["x"] = locked["x"] /\ \A q \in Procs : HasX(q)' <=> HasX(q)
      BY <1>1, <1>2, <1>3, GrantedBlocks DEF HasX, HasK, SharesK, Releasing, InLock, GrantKept, OnlyMoves
    <2>. QED
      BY <2>1, XKept
  <1>6. KInv'
    <2>1. locked'["k"] = locked["k"] /\ \A q \in Procs : HasK(q)' <=> HasK(q)
      BY <1>1, <1>2, <1>3, GrantedBlocks DEF HasX, HasK, SharesK, Releasing, InLock, GrantKept, OnlyMoves
    <2>2. \A q \in Procs : SharesK(q)' <=> SharesK(q)
      BY <1>1, <1>3 DEF SharesK, OnlyMoves
    <2>. QED
      BY <2>1, <2>2, KKept
  <1>7. LInv'
    BY <1>1, <1>3, LKept DEF WUnlockCallX, qvars
  <1>8. CountInv'
    BY <1>1, <1>3, CountKept DEF WUnlockCallX, qvars
  <1>. QED
    BY <1>4, <1>5, <1>6, <1>7, <1>8 DEF RestInv

\* The writer has let go of x.
LEMMA WUnlockReturnStep ==
  ASSUME IInv, QInv', NEW p \in Procs, WUnlockReturn(p)
  PROVE  RestInv'
  <1>. USE BothLocks
  <1>. LockInv /\ XInv /\ KInv /\ LInv /\ CountInv
    BY DEF IInv
  <1>. locked \in [QLocks -> BOOLEAN] /\ locked' \in [QLocks -> BOOLEAN]
    BY DEF LockInv, QInv, QTypeOK
  <1>1. rpc[p] = "wu_x" /\ rpc'[p] = "out" /\ rpc' = [rpc EXCEPT ![p] = "out"]
    BY DEF WUnlockReturn, RStep, LockInv
  <1>0. qarg[p] = "x" /\ qpc[p] \in {"u_use", "u_test", "u_ready"}
    BY <1>1 DEF LockInv, CallInv, InLock
  <1>2. /\ qpc'[p] = "idle" /\ GrantKept
        /\ \A q \in Procs \ {p} : qpc'[q] = qpc[q] /\ qarg'[q] = qarg[q]
        /\ \/ qpc[p] = "u_ready" /\ locked' = locked
           \/ qpc[p] = "u_test" /\ locked' = [locked EXCEPT !["x"] = FALSE]
    BY <1>0, ReleasedEffect DEF WUnlockReturn
  <1>3. OnlyMoves(p)
    BY <1>1, <1>2, <1>0 DEF OnlyMoves, LockInv
  <1>4. rpc' \in [Procs -> RPC] /\ CallInv'
    <2>1. rpc' \in [Procs -> RPC]
      BY <1>1 DEF LockInv, RPC, EntryPC, ExitPC, WriterPC
    <2>2. CallInv'
      BY <1>1, <1>2, <1>0, <1>3 DEF LockInv, CallInv, InLock, OnlyMoves
    <2>. QED
      BY <2>1, <2>2
  <1>5. XInv'
    <2>1. \/ HasX(p) /\ ~locked'["x"] /\ \A q \in Procs : HasX(q)' <=> HasX(q) /\ q # p
          \/ locked'["x"] = locked["x"] /\ \A q \in Procs : HasX(q)' <=> HasX(q)
      BY <1>1, <1>2, <1>0, <1>3, GrantedBlocks DEF HasX, HasK, SharesK, Releasing, InLock, GrantKept, OnlyMoves
    <2>. QED
      BY <2>1, XKept
  <1>6. KInv'
    <2>1. locked'["k"] = locked["k"] /\ \A q \in Procs : HasK(q)' <=> HasK(q)
      BY <1>1, <1>2, <1>0, <1>3, GrantedBlocks DEF HasX, HasK, SharesK, Releasing, InLock, GrantKept, OnlyMoves
    <2>2. \A q \in Procs : SharesK(q)' <=> SharesK(q)
      BY <1>1, <1>3 DEF SharesK, OnlyMoves
    <2>. QED
      BY <2>1, <2>2, KKept
  <1>7. LInv'
    BY <1>1, <1>3, LKept DEF WUnlockReturn, qvars
  <1>8. CountInv'
    BY <1>1, <1>3, CountKept DEF WUnlockReturn, qvars
  <1>. QED
    BY <1>4, <1>5, <1>6, <1>7, <1>8 DEF RestInv

\* A step inside lock.c: the lock of the call may be handed to the head of its queue.
LEMMA InsideStep ==
  ASSUME IInv, QInv', NEW p \in Procs, Inside(p)
  PROVE  RestInv'
  <1>. USE BothLocks
  <1>. LockInv /\ XInv /\ KInv /\ LInv /\ CountInv
    BY DEF IInv
  <1>. locked \in [QLocks -> BOOLEAN] /\ locked' \in [QLocks -> BOOLEAN]
    BY DEF LockInv, QInv, QTypeOK
  <1>1. UNCHANGED <<rpc, l, readers>>
    BY DEF Inside
  <1>2. CASE QLockUse(p) \/ QLockEnqueue(p) \/ CanQLockUse(p) \/ QUnlockUse(p)
    <2>1. /\ qarg' = qarg /\ locked' = locked /\ GrantKept
          /\ \/ qpc[p] \in {"l_use", "l_test"} /\ qpc'[p] \in {"l_test", "l_block"}
             \/ qpc[p] = "c_use" /\ qpc'[p] = "c_test"
             \/ qpc[p] = "u_use" /\ qpc'[p] = "u_test"
          /\ \A q \in Procs \ {p} : qpc'[q] = qpc[q]
      BY <1>2, InsideEffect
    <2>2. CallInv'
      BY <1>1, <2>1 DEF LockInv, CallInv, InLock
    <2>3. \A q \in Procs : (HasX(q)' <=> HasX(q)) /\ (HasK(q)' <=> HasK(q))
      BY <1>1, <2>1 DEF HasX, HasK, Releasing, InLock, GrantKept
    <2>. QED
      BY <1>1, <2>1, <2>2, <2>3 DEF RestInv, LockInv, XInv, KInv, SharesK, LInv, CountInv, Counted
  <1>3. CASE QUnlockDequeue(p)
    <2>. DEFINE h == qp'[p]
    <2>1. /\ qarg' = qarg /\ locked' = locked /\ qpc[p] = "u_test" /\ qpc'[p] = "u_ready"
          /\ \A q \in Procs \ {p} : qpc'[q] = qpc[q]
      BY <1>3 DEF QUnlockDequeue, Step, LockInv, QInv, QTypeOK
    <2>2. /\ qarg[p] \in QLocks /\ h \in Procs /\ h # p
          /\ qarg[h] = qarg[p] /\ qpc[h] = "l_block"
          /\ \A q \in Procs, j \in QLocks :
               Granted(q, j)' <=> Granted(q, j) \/ (q = h /\ j = qarg[p])
      BY <1>3, GrantGiven DEF LockInv
    <2>. HIDE DEF h
    <2>3. CallInv'
      BY <1>1, <2>1 DEF LockInv, CallInv, InLock
    <2>4. rpc[p] \in {"r_qx", "wu_x", "ru_k", "wu_k"}
      BY <2>1 DEF LockInv, CallInv, InLock, RPC, EntryPC, ExitPC, WriterPC
    <2>5. CASE qarg[p] = "x"
      <3>0. rpc[p] \in {"r_qx", "wu_x"}
        BY <2>4, <2>5 DEF LockInv, CallInv, InLock
      <3>1. HasX(p) /\ \A q \in Procs : HasX(q)' <=> (HasX(q) /\ q # p) \/ q = h
        BY <1>1, <2>1, <2>2, <2>5, <3>0, GrantedBlocks DEF HasX, Releasing, InLock
      <3>2. \A q \in Procs : HasK(q)' <=> HasK(q)
        BY <1>1, <2>1, <2>2, <2>5 DEF HasK, Releasing, InLock
      <3>3. XInv'
        BY <2>1, <2>2, <3>1, XKept
      <3>. QED
        BY <1>1, <2>1, <2>3, <3>2, <3>3 DEF RestInv, LockInv, KInv, SharesK, LInv, CountInv, Counted
    <2>6. CASE qarg[p] = "k"
      <3>0. rpc[p] \in {"ru_k", "wu_k"}
        BY <2>4, <2>6 DEF LockInv, CallInv, InLock
      <3>1. HasK(p) /\ \A q \in Procs : HasK(q)' <=> (HasK(q) /\ q # p) \/ q = h
        BY <1>1, <2>1, <2>2, <2>6, <3>0, GrantedBlocks DEF HasK, Releasing, InLock
      <3>2. \A q \in Procs : HasX(q)' <=> HasX(q)
        BY <1>1, <2>1, <2>2, <2>6 DEF HasX, Releasing, InLock
      <3>3. KInv'
        BY <1>1, <2>1, <2>2, <3>1, KKept DEF SharesK
      <3>. QED
        BY <1>1, <2>1, <2>3, <3>2, <3>3 DEF RestInv, LockInv, XInv, LInv, CountInv, Counted
    <2>. QED
      BY <2>2, <2>5, <2>6, RWLockAssumption DEF RWQLocks
  <1>. QED
    BY <1>2, <1>3 DEF Inside

-----------------------------------------------------------------------------
\* Nobody holds anything at first.
LEMMA InitIInv == Init => IInv
  <1>. SUFFICES ASSUME Init PROVE IInv
    OBVIOUS
  <1>. USE BothLocks, QLockAssumption DEF Init
  <1>1. QInv
    BY QLockInit
  <1>2. \A p \in Procs : rpc[p] = "out" /\ qpc[p] = "idle" /\ qarg[p] = NoLock
    BY DEF QInit
  <1>3. rpc \in [Procs -> RPC] /\ CallInv
    BY <1>2 DEF CallInv, RPC
  <1>4. \A p \in Procs : ~HasX(p) /\ ~HasK(p) /\ ~SharesK(p)
    BY <1>2 DEF HasX, HasK, SharesK, Granted, Releasing, InLock
  <1>5. XInv /\ KInv
    BY <1>4 DEF XInv, KInv, QInit
  <1>6. LInv
    BY <1>2 DEF LInv
  <1>7. CountInv
    <2>1. Counted = {}
      BY <1>2 DEF Counted
    <2>. QED
      BY <2>1, FS_EmptySet DEF CountInv
  <1>. QED
    BY <1>1, <1>3, <1>5, <1>6, <1>7 DEF IInv, LockInv

\* Above lock.c, every step is one inside it, a call, or none at all.
LEMMA LockStep == [Next]_vars => [QNext]_qvars
  <1>. USE BothLocks DEF QNext, QStep, QGot, QOther, QCall, QLockReturn, CanQLockRefused, QUnlockReturn
  <1>. SUFFICES ASSUME NEW p \in Procs, Enter(p) \/ Go(p) \/ Leave(p) PROVE [QNext]_qvars
    BY DEF Next, vars
  <1>1. CASE Enter(p)
    BY <1>1 DEF Enter, RLockCall, CanRLockCall, WLockCall
  <1>2. CASE Leave(p)
    BY <1>2 DEF Leave, RUnlockCall, WUnlockCall
  <1>3. CASE Go(p)
    BY <1>3 DEF Go, Inside, RLockX, CanRLockX, CanRLockPunt, RLockCount, RLockK, RLockUnl,
                RLockReturn, RUnlockLast, RUnlockNotLast, RUnlockK, RUnlockReturn, WLockX,
                WLockCallK, WLockReturn, WUnlockK, WUnlockCallX, WUnlockReturn
  <1>. QED
    BY <1>1, <1>2, <1>3

\* Every step keeps the inductive invariant.
LEMMA NextIInv == IInv /\ [Next]_vars => IInv'
  <1>. SUFFICES ASSUME IInv, [Next]_vars PROVE IInv'
    OBVIOUS
  <1>1. QInv'
    BY LockStep, QLockNext DEF IInv, LockInv
  <1>2. RestInv'
    <2>1. ASSUME NEW p \in Procs, Enter(p) PROVE RestInv'
      BY <1>1, <2>1, RLockCallStep, CanRLockCallStep, WLockCallStep DEF Enter
    <2>2. ASSUME NEW p \in Procs, Leave(p) PROVE RestInv'
      BY <1>1, <2>2, RUnlockCallStep, WUnlockCallStep DEF Leave
    <2>3. ASSUME NEW p \in Procs, Go(p) PROVE RestInv'
      BY <1>1, <2>3, InsideStep, RLockXStep, CanRLockXStep, CanRLockPuntStep, RLockCountStep,
         RLockKStep, RLockUnlStep, RLockReturnStep, RUnlockLastStep, RUnlockNotLastStep,
         RUnlockKStep, RUnlockReturnStep, WLockXStep, WLockCallKStep, WLockReturnStep,
         WUnlockKStep, WUnlockCallXStep, WUnlockReturnStep
      DEF Go
    <2>4. CASE UNCHANGED vars
      <3>1. UNCHANGED <<qpc, qarg, locked, queue, rpc, l, readers>>
        BY <2>4 DEF vars, qvars
      <3>2. GrantKept
        BY <3>1, SameQueue DEF GrantKept, Granted
      <3>3. \A q \in Procs : (HasX(q)' <=> HasX(q)) /\ (HasK(q)' <=> HasK(q))
        BY <3>1, <3>2, BothLocks DEF GrantKept, HasX, HasK, Releasing, InLock
      <3>. QED
        BY <3>1, <3>3
        DEF IInv, LockInv, RestInv, CallInv, InLock, XInv, KInv, SharesK, LInv, CountInv, Counted
    <2>. QED
      BY <2>1, <2>2, <2>3, <2>4 DEF Next
  <1>. QED
    BY <1>1, <1>2 DEF IInv, LockInv, RestInv

\* The inductive invariant holds in every reachable state, for any set of processes.
THEOREM Inductive == Spec => []IInv
  BY InitIInv, NextIInv, PTL DEF Spec

\* The readers as a group, and a writer alone, have the lock, and the count of
\* readers is exact: rlock may ignore the answer of its canqlock.
THEOREM ExclusionHolds == Spec => []Exclusion
  <1>1. IInv => Exclusion
    <2>. SUFFICES ASSUME IInv PROVE WriterAlone /\ ReadersHoldK
      BY DEF Exclusion
    <2>1. WriterAlone
      BY DEF WriterAlone, Writing, Reading, IInv, KInv, HasK, SharesK
    <2>2. readers = Cardinality({p \in Procs : rpc[p] \in {"r_k", "r_unl", "r_qx", "reading", "ru_l"}})
      BY DEF IInv, CountInv, Counted
    <2>3. ASSUME NEW p \in Procs, rpc[p] \in {"r_unl", "r_qx", "reading", "ru_l"}
          PROVE  locked["k"] /\ \A q \in Procs : ~Granted(q, "k")
      BY <2>3 DEF IInv, KInv, HasK, SharesK
    <2>. QED
      BY <2>1, <2>2, <2>3 DEF ReadersHoldK
  <1>. QED
    BY <1>1, Inductive, PTL

\* No reader gets x while a writer has it, has been handed it, or waits in its queue
\* behind nobody: rlock gets in only when it was before the writer, canrlock never.
THEOREM WritersNotOvertaken == Spec => WriterNotOvertaken
  <1>1. ASSUME IInv, NEW p \in Procs, NEW q \in Procs, Queueing(q)
        PROVE  (RLockX(p) => Granted(p, "x") /\ Queued(q, "x")) /\ ~CanRLockX(p)
    <2>. USE BothLocks
    <2>. LockInv /\ XInv
      BY <1>1 DEF IInv
    <2>1. HasX(q) \/ Queued(q, "x")
      BY <1>1 DEF Queueing, HasX, Granted, LockInv, CallInv, InLock
    <2>2. locked["x"]
      <3>1. ASSUME Queued(q, "x") PROVE queue["x"] # <<>>
        BY <3>1 DEF Queued
      <3>. QED
        BY <2>1, <3>1 DEF XInv, LockInv, QInv, WaitInv
    <2>3. ~CanRLockX(p)
      <3>1. ASSUME CanRLockX(p) PROVE qarg[p] = "x"
        BY <3>1 DEF CanRLockX, RStep, LockInv, CallInv, InLock
      <3>. QED
        BY <2>2, <3>1 DEF CanRLockX, CanQLockGet
    <2>4. ASSUME RLockX(p) PROVE Granted(p, "x") /\ Queued(q, "x")
      <3>1. rpc[p] = "r_x" /\ qarg[p] = "x"
        BY <2>4 DEF RLockX, RStep, LockInv, CallInv, InLock
      <3>2. Granted(p, "x")
        BY <2>2, <2>4, <3>1, GetEffect DEF RLockX
      <3>3. p # q
        BY <1>1, <3>1 DEF Queueing
      <3>4. ~HasX(q)
        BY <3>2, <3>3 DEF XInv, HasX
      <3>. QED
        BY <2>1, <3>2, <3>4
    <2>. QED
      BY <2>3, <2>4
  <1>2. IInv => \A p, q \in Procs : Queueing(q) =>
          /\ RLockX(p) => Granted(p, "x") /\ Queued(q, "x")
          /\ ~CanRLockX(p)
    BY <1>1
  <1>. QED
    BY <1>2, Inductive, PTL DEF WriterNotOvertaken
=============================================================================
