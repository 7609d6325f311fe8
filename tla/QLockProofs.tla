---------------------------- MODULE QLockProofs ----------------------------
(***************************************************************************)
(* Proofs about QLock and QLockClients for every set of processes and      *)
(* locks.  First, what every step inside qlock, canqlock and qunlock       *)
(* keeps, whoever calls them: RWLockProofs builds on that too.  Then the   *)
(* invariants that TLC checks of QLockClients, which are inductive         *)
(* together with that and with what the callers hold.                      *)
(***************************************************************************)
EXTENDS QLockClients, QueueFacts

-----------------------------------------------------------------------------
(* The invariant.                                                          *)

ArgInv ==
  \A p \in Procs :
    /\ qarg[p] \in QLocks <=> qpc[p] # "idle"
    /\ qp[p] \in Procs <=> qpc[p] = "u_ready"

UseInv ==
  \A p \in Procs : \A k \in QLocks :
    use[k] = p <=> qarg[p] = k /\ qpc[p] \in {"l_test", "c_test", "u_test"}

\* Processes wait only for a lock that is locked.
WaitInv == \A k \in QLocks : queue[k] # <<>> => locked[k]

QInv == QTypeOK /\ ArgInv /\ UseInv /\ QueueSound /\ TokenSound /\ WaitInv

\* Any process may call any of the three, on any lock, and goes on inside.
QCall(p) == \E k \in QLocks : QLockCall(p, k) \/ CanQLockCall(p, k) \/ QUnlockCall(p, k)
QNext == \E p \in Procs : QStep(p) \/ QCall(p)

(* What the steps that change a queue do to its members.                   *)

\* A step that leaves the queues alone leaves their members alone.
LEMMA SameQueue ==
  ASSUME queue' = queue
  PROVE  \A q \in Procs, k \in QLocks : Queued(q, k)' <=> Queued(q, k)
  BY DEF Queued

\* qlock puts its caller at the tail of one queue.
LEMMA EnqueueEffect ==
  ASSUME QTypeOK, ArgInv, QueueSound, NEW p \in Procs, QLockEnqueue(p)
  PROVE  /\ \A q \in Procs, k \in QLocks :
              Queued(q, k)' <=> Queued(q, k) \/ (q = p /\ k = qarg[p])
         /\ queue' \in [QLocks -> Seq(Procs)]
         /\ \A k \in QLocks : Distinct(queue'[k])
         /\ queue'[qarg[p]] # <<>>
  <1>. DEFINE a == qarg[p]
  <1>1. a \in QLocks /\ qpc[p] = "l_test" /\ queue \in [QLocks -> Seq(Procs)]
    BY DEF QTypeOK, ArgInv, QLockEnqueue, Step
  <1>2. queue' = [queue EXCEPT ![a] = Append(queue[a], p)]
    BY DEF QLockEnqueue
  <1>3. queue'[a] = Append(queue[a], p) /\ \A k \in QLocks \ {a} : queue'[k] = queue[k]
    BY <1>1, <1>2
  <1>4. ~In(p, queue[a]) /\ \A k \in QLocks : Distinct(queue[k])
    BY <1>1 DEF QueueSound, Queued, In, Distinct
  <1>5. /\ Append(queue[a], p) \in Seq(Procs) /\ Append(queue[a], p) # <<>>
        /\ \A x : In(x, Append(queue[a], p)) <=> x = p \/ In(x, queue[a])
        /\ Distinct(Append(queue[a], p))
    BY <1>1, <1>4, AppendIn
  <1>6. \A q \in Procs, k \in QLocks : In(q, queue'[k]) <=> In(q, queue[k]) \/ (q = p /\ k = a)
    BY <1>3, <1>5
  <1>7. queue' \in [QLocks -> Seq(Procs)]
    BY <1>1, <1>2, <1>5
  <1>. QED
    BY <1>3, <1>4, <1>5, <1>6, <1>7 DEF Queued, In

\* qunlock takes the head of one queue out.
LEMMA DequeueEffect ==
  ASSUME QTypeOK, ArgInv, QueueSound, NEW p \in Procs, QUnlockDequeue(p)
  PROVE  /\ \A q \in Procs, k \in QLocks :
              Queued(q, k)' <=> Queued(q, k) /\ ~(q = qp'[p] /\ k = qarg[p])
         /\ qp'[p] \in Procs /\ Queued(qp'[p], qarg[p])
         /\ queue' \in [QLocks -> Seq(Procs)]
         /\ \A k \in QLocks : Distinct(queue'[k])
  <1>. DEFINE a == qarg[p]
  <1>1. a \in QLocks /\ qpc[p] = "u_test" /\ queue \in [QLocks -> Seq(Procs)] /\ queue[a] # <<>>
    BY DEF QTypeOK, ArgInv, QUnlockDequeue, Step
  <1>2. queue' = [queue EXCEPT ![a] = Tail(queue[a])] /\ qp'[p] = Head(queue[a])
    BY DEF QUnlockDequeue, QTypeOK
  <1>3. queue'[a] = Tail(queue[a]) /\ \A k \in QLocks \ {a} : queue'[k] = queue[k]
    BY <1>1, <1>2
  <1>4. \A k \in QLocks : Distinct(queue[k])
    BY DEF QueueSound, Distinct
  <1>5. /\ Tail(queue[a]) \in Seq(Procs) /\ Head(queue[a]) \in Procs
        /\ \A x : In(x, Tail(queue[a])) <=> x # Head(queue[a]) /\ In(x, queue[a])
        /\ In(Head(queue[a]), queue[a])
        /\ Distinct(Tail(queue[a]))
    BY <1>1, <1>4, TailIn
  <1>6. \A q \in Procs, k \in QLocks :
          In(q, queue'[k]) <=> In(q, queue[k]) /\ ~(q = qp'[p] /\ k = a)
    BY <1>2, <1>3, <1>5
  <1>7. queue' \in [QLocks -> Seq(Procs)]
    BY <1>1, <1>2, <1>5
  <1>. QED
    BY <1>2, <1>3, <1>4, <1>5, <1>6, <1>7 DEF Queued, In

-----------------------------------------------------------------------------

\* Every step keeps the variables in their types.
LEMMA QTypeStep == QTypeOK /\ ArgInv /\ QueueSound /\ [QNext]_qvars => QTypeOK'
  <1>. SUFFICES ASSUME QTypeOK, ArgInv, QueueSound PROVE [QNext]_qvars => QTypeOK'
    OBVIOUS
  <1>. USE QLockAssumption DEF QTypeOK, QPC, ArgInv, Step, Return, LockUse, UnlockUse, Call, qvars
  <1>1. ASSUME NEW p \in Procs, QLockGet(p) PROVE QTypeOK'
    BY <1>1 DEF QLockGet
  <1>2. ASSUME NEW p \in Procs, QLockWoken(p) PROVE QTypeOK'
    BY <1>2 DEF QLockWoken
  <1>3. ASSUME NEW p \in Procs, CanQLockGet(p) PROVE QTypeOK'
    BY <1>3 DEF CanQLockGet
  <1>4. ASSUME NEW p \in Procs, QLockUse(p) PROVE QTypeOK'
    BY <1>4 DEF QLockUse
  <1>5. ASSUME NEW p \in Procs, QLockEnqueue(p) PROVE QTypeOK'
    <2>1. /\ \A q \in Procs, j \in QLocks :
               Queued(q, j)' <=> Queued(q, j) \/ (q = p /\ j = qarg[p])
          /\ queue' \in [QLocks -> Seq(Procs)]
          /\ \A j \in QLocks : Distinct(queue'[j])
      BY <1>5, EnqueueEffect
    <2>2. qpc[p] = "l_test" /\ qarg[p] \in QLocks
      BY <1>5 DEF QLockEnqueue
    <2>3. UNCHANGED <<qarg, qp, locked, sem>> /\ qpc' = [qpc EXCEPT ![p] = "l_block"]
          /\ use' = [use EXCEPT ![qarg[p]] = NoProc]
      BY <1>5 DEF QLockEnqueue
    <2>. QED
      BY <2>1, <2>2, <2>3
  <1>6. ASSUME NEW p \in Procs, CanQLockUse(p) PROVE QTypeOK'
    BY <1>6 DEF CanQLockUse
  <1>7. ASSUME NEW p \in Procs, CanQLockBusy(p) PROVE QTypeOK'
    BY <1>7 DEF CanQLockBusy
  <1>8. ASSUME NEW p \in Procs, CanQLockFail(p) PROVE QTypeOK'
    BY <1>8 DEF CanQLockFail
  <1>9. ASSUME NEW p \in Procs, QUnlockUse(p) PROVE QTypeOK'
    BY <1>9 DEF QUnlockUse
  <1>10. ASSUME NEW p \in Procs, QUnlockDequeue(p) PROVE QTypeOK'
    <2>1. /\ \A q \in Procs, j \in QLocks :
               Queued(q, j)' <=> Queued(q, j) /\ ~(q = qp'[p] /\ j = qarg[p])
          /\ qp'[p] \in Procs /\ Queued(qp'[p], qarg[p])
          /\ queue' \in [QLocks -> Seq(Procs)]
          /\ \A j \in QLocks : Distinct(queue'[j])
      BY <1>10, DequeueEffect
    <2>2. qpc[p] = "u_test" /\ qarg[p] \in QLocks
      BY <1>10 DEF QUnlockDequeue
    <2>3. UNCHANGED <<qarg, locked, sem>> /\ qpc' = [qpc EXCEPT ![p] = "u_ready"]
          /\ use' = [use EXCEPT ![qarg[p]] = NoProc]
      BY <1>10 DEF QUnlockDequeue
    <2>4. PICK h : qp' = [qp EXCEPT ![p] = h]
      BY <1>10 DEF QUnlockDequeue
    <2>5. h \in Procs /\ qp'[p] = h
      BY <2>1, <2>4
    <2>. QED
      BY <2>1, <2>2, <2>3, <2>4, <2>5
  <1>11. ASSUME NEW p \in Procs, QUnlockReady(p) PROVE QTypeOK'
    BY <1>11 DEF QUnlockReady
  <1>12. ASSUME NEW p \in Procs, QUnlockFree(p) PROVE QTypeOK'
    BY <1>12 DEF QUnlockFree
  <1>13. ASSUME NEW p \in Procs, QCall(p) PROVE QTypeOK'
    <2>1. PICK k \in QLocks, a \in {"l_use", "c_use", "u_use"} :
            qpc' = [qpc EXCEPT ![p] = a] /\ qarg' = [qarg EXCEPT ![p] = k]
      BY <1>13 DEF QCall, QLockCall, CanQLockCall, QUnlockCall
    <2>2. UNCHANGED <<qp, use, locked, queue, sem>>
      BY <1>13 DEF QCall, QLockCall, CanQLockCall, QUnlockCall
    <2>. QED
      BY <2>1, <2>2
  <1>14. ASSUME UNCHANGED qvars PROVE QTypeOK'
    BY <1>14
  <1>. HIDE DEF QTypeOK, Step, Return, LockUse, UnlockUse, Call, qvars
  <1>. QED
    BY <1>1, <1>2, <1>3, <1>4, <1>5, <1>6, <1>7, <1>8, <1>9, <1>10, <1>11, <1>12, <1>13, <1>14
    DEF QNext, QStep, QGot, QOther

\* A process has an argument exactly while it is in a call.
LEMMA ArgStep == QTypeOK /\ ArgInv /\ QueueSound /\ [QNext]_qvars => ArgInv'
  <1>. SUFFICES ASSUME QTypeOK, ArgInv, QueueSound PROVE [QNext]_qvars => ArgInv'
    OBVIOUS
  <1>. USE QLockAssumption DEF QTypeOK, QPC, ArgInv, Step, Return, LockUse, UnlockUse, Call, qvars
  <1>1. ASSUME NEW p \in Procs, QLockGet(p) PROVE ArgInv'
    BY <1>1 DEF QLockGet
  <1>2. ASSUME NEW p \in Procs, QLockWoken(p) PROVE ArgInv'
    BY <1>2 DEF QLockWoken
  <1>3. ASSUME NEW p \in Procs, CanQLockGet(p) PROVE ArgInv'
    BY <1>3 DEF CanQLockGet
  <1>4. ASSUME NEW p \in Procs, QLockUse(p) PROVE ArgInv'
    BY <1>4 DEF QLockUse
  <1>5. ASSUME NEW p \in Procs, QLockEnqueue(p) PROVE ArgInv'
    BY <1>5 DEF QLockEnqueue
  <1>6. ASSUME NEW p \in Procs, CanQLockUse(p) PROVE ArgInv'
    BY <1>6 DEF CanQLockUse
  <1>7. ASSUME NEW p \in Procs, CanQLockBusy(p) PROVE ArgInv'
    BY <1>7 DEF CanQLockBusy
  <1>8. ASSUME NEW p \in Procs, CanQLockFail(p) PROVE ArgInv'
    BY <1>8 DEF CanQLockFail
  <1>9. ASSUME NEW p \in Procs, QUnlockUse(p) PROVE ArgInv'
    BY <1>9 DEF QUnlockUse
  <1>10. ASSUME NEW p \in Procs, QUnlockDequeue(p) PROVE ArgInv'
    <2>1. qp'[p] \in Procs
      BY <1>10, DequeueEffect
    <2>2. \A q \in Procs \ {p} : qp'[q] = qp[q]
      BY <1>10 DEF QUnlockDequeue
    <2>3. qpc[p] = "u_test" /\ UNCHANGED qarg /\ qpc' = [qpc EXCEPT ![p] = "u_ready"]
      BY <1>10 DEF QUnlockDequeue
    <2>. QED
      BY <2>1, <2>2, <2>3
  <1>11. ASSUME NEW p \in Procs, QUnlockReady(p) PROVE ArgInv'
    BY <1>11 DEF QUnlockReady
  <1>12. ASSUME NEW p \in Procs, QUnlockFree(p) PROVE ArgInv'
    BY <1>12 DEF QUnlockFree
  <1>13. ASSUME NEW p \in Procs, QCall(p) PROVE ArgInv'
    BY <1>13 DEF QCall, QLockCall, CanQLockCall, QUnlockCall
  <1>14. ASSUME UNCHANGED qvars PROVE ArgInv'
    BY <1>14
  <1>. HIDE DEF ArgInv, Step, Return, LockUse, UnlockUse, Call, qvars
  <1>. QED
    BY <1>1, <1>2, <1>3, <1>4, <1>5, <1>6, <1>7, <1>8, <1>9, <1>10, <1>11, <1>12, <1>13, <1>14
    DEF QNext, QStep, QGot, QOther

\* The spin lock is owned by the process in its critical section.
LEMMA UseStep == QTypeOK /\ ArgInv /\ UseInv /\ [QNext]_qvars => UseInv'
  <1>. SUFFICES ASSUME QTypeOK, ArgInv, UseInv PROVE [QNext]_qvars => UseInv'
    OBVIOUS
  <1>. USE QLockAssumption DEF QTypeOK, QPC, ArgInv, UseInv, Step, Return, LockUse, UnlockUse, Call, qvars
  <1>1. ASSUME NEW p \in Procs, QLockGet(p) PROVE UseInv'
    BY <1>1 DEF QLockGet
  <1>2. ASSUME NEW p \in Procs, QLockWoken(p) PROVE UseInv'
    BY <1>2 DEF QLockWoken
  <1>3. ASSUME NEW p \in Procs, CanQLockGet(p) PROVE UseInv'
    BY <1>3 DEF CanQLockGet
  <1>4. ASSUME NEW p \in Procs, QLockUse(p) PROVE UseInv'
    BY <1>4 DEF QLockUse
  <1>5. ASSUME NEW p \in Procs, QLockEnqueue(p) PROVE UseInv'
    BY <1>5 DEF QLockEnqueue
  <1>6. ASSUME NEW p \in Procs, CanQLockUse(p) PROVE UseInv'
    BY <1>6 DEF CanQLockUse
  <1>7. ASSUME NEW p \in Procs, CanQLockBusy(p) PROVE UseInv'
    BY <1>7 DEF CanQLockBusy
  <1>8. ASSUME NEW p \in Procs, CanQLockFail(p) PROVE UseInv'
    BY <1>8 DEF CanQLockFail
  <1>9. ASSUME NEW p \in Procs, QUnlockUse(p) PROVE UseInv'
    BY <1>9 DEF QUnlockUse
  <1>10. ASSUME NEW p \in Procs, QUnlockDequeue(p) PROVE UseInv'
    BY <1>10 DEF QUnlockDequeue
  <1>11. ASSUME NEW p \in Procs, QUnlockReady(p) PROVE UseInv'
    BY <1>11 DEF QUnlockReady
  <1>12. ASSUME NEW p \in Procs, QUnlockFree(p) PROVE UseInv'
    BY <1>12 DEF QUnlockFree
  <1>13. ASSUME NEW p \in Procs, QCall(p) PROVE UseInv'
    BY <1>13 DEF QCall, QLockCall, CanQLockCall, QUnlockCall
  <1>14. ASSUME UNCHANGED qvars PROVE UseInv'
    BY <1>14
  <1>. HIDE DEF UseInv, Step, Return, LockUse, UnlockUse, Call, qvars
  <1>. QED
    BY <1>1, <1>2, <1>3, <1>4, <1>5, <1>6, <1>7, <1>8, <1>9, <1>10, <1>11, <1>12, <1>13, <1>14
    DEF QNext, QStep, QGot, QOther

\* A queue has no duplicates and only processes blocked on that lock.
LEMMA QueueStep == QTypeOK /\ ArgInv /\ TokenSound /\ QueueSound /\ [QNext]_qvars => QueueSound'
  <1>. SUFFICES ASSUME QTypeOK, ArgInv, TokenSound, QueueSound PROVE [QNext]_qvars => QueueSound'
    OBVIOUS
  <1>. USE QLockAssumption DEF QTypeOK, QPC, ArgInv, TokenSound, QueueSound, Dequeued, Distinct, Step, Return, LockUse, UnlockUse, Call, qvars
  <1>1. ASSUME NEW p \in Procs, QLockGet(p) PROVE QueueSound'
    <2>1. \A q \in Procs, j \in QLocks : Queued(q, j)' <=> Queued(q, j)
      BY <1>1, SameQueue DEF QLockGet
    <2>. QED
      BY <1>1, <2>1 DEF QLockGet
  <1>2. ASSUME NEW p \in Procs, QLockWoken(p) PROVE QueueSound'
    <2>1. \A q \in Procs, j \in QLocks : Queued(q, j)' <=> Queued(q, j)
      BY <1>2, SameQueue DEF QLockWoken
    <2>. QED
      BY <1>2, <2>1 DEF QLockWoken
  <1>3. ASSUME NEW p \in Procs, CanQLockGet(p) PROVE QueueSound'
    <2>1. \A q \in Procs, j \in QLocks : Queued(q, j)' <=> Queued(q, j)
      BY <1>3, SameQueue DEF CanQLockGet
    <2>. QED
      BY <1>3, <2>1 DEF CanQLockGet
  <1>4. ASSUME NEW p \in Procs, QLockUse(p) PROVE QueueSound'
    <2>1. \A q \in Procs, j \in QLocks : Queued(q, j)' <=> Queued(q, j)
      BY <1>4, SameQueue DEF QLockUse
    <2>. QED
      BY <1>4, <2>1 DEF QLockUse
  <1>5. ASSUME NEW p \in Procs, QLockEnqueue(p) PROVE QueueSound'
    <2>1. /\ \A q \in Procs, j \in QLocks :
               Queued(q, j)' <=> Queued(q, j) \/ (q = p /\ j = qarg[p])
          /\ queue' \in [QLocks -> Seq(Procs)]
          /\ \A j \in QLocks : Distinct(queue'[j])
      BY <1>5, EnqueueEffect
    <2>2. qpc[p] = "l_test" /\ qarg[p] \in QLocks
      BY <1>5 DEF QLockEnqueue
    <2>3. UNCHANGED <<qarg, qp, locked, sem>> /\ qpc' = [qpc EXCEPT ![p] = "l_block"]
          /\ use' = [use EXCEPT ![qarg[p]] = NoProc]
      BY <1>5 DEF QLockEnqueue
    <2>. QED
      BY <2>1, <2>2, <2>3
  <1>6. ASSUME NEW p \in Procs, CanQLockUse(p) PROVE QueueSound'
    <2>1. \A q \in Procs, j \in QLocks : Queued(q, j)' <=> Queued(q, j)
      BY <1>6, SameQueue DEF CanQLockUse
    <2>. QED
      BY <1>6, <2>1 DEF CanQLockUse
  <1>7. ASSUME NEW p \in Procs, CanQLockBusy(p) PROVE QueueSound'
    <2>1. \A q \in Procs, j \in QLocks : Queued(q, j)' <=> Queued(q, j)
      BY <1>7, SameQueue DEF CanQLockBusy
    <2>. QED
      BY <1>7, <2>1 DEF CanQLockBusy
  <1>8. ASSUME NEW p \in Procs, CanQLockFail(p) PROVE QueueSound'
    <2>1. \A q \in Procs, j \in QLocks : Queued(q, j)' <=> Queued(q, j)
      BY <1>8, SameQueue DEF CanQLockFail
    <2>. QED
      BY <1>8, <2>1 DEF CanQLockFail
  <1>9. ASSUME NEW p \in Procs, QUnlockUse(p) PROVE QueueSound'
    <2>1. \A q \in Procs, j \in QLocks : Queued(q, j)' <=> Queued(q, j)
      BY <1>9, SameQueue DEF QUnlockUse
    <2>. QED
      BY <1>9, <2>1 DEF QUnlockUse
  <1>10. ASSUME NEW p \in Procs, QUnlockDequeue(p) PROVE QueueSound'
    <2>1. /\ \A q \in Procs, j \in QLocks :
               Queued(q, j)' <=> Queued(q, j) /\ ~(q = qp'[p] /\ j = qarg[p])
          /\ qp'[p] \in Procs /\ Queued(qp'[p], qarg[p])
          /\ queue' \in [QLocks -> Seq(Procs)]
          /\ \A j \in QLocks : Distinct(queue'[j])
      BY <1>10, DequeueEffect
    <2>2. qpc[p] = "u_test" /\ qarg[p] \in QLocks
      BY <1>10 DEF QUnlockDequeue
    <2>3. UNCHANGED <<qarg, locked, sem>> /\ qpc' = [qpc EXCEPT ![p] = "u_ready"]
          /\ use' = [use EXCEPT ![qarg[p]] = NoProc]
      BY <1>10 DEF QUnlockDequeue
    <2>4. PICK h : qp' = [qp EXCEPT ![p] = h]
      BY <1>10 DEF QUnlockDequeue
    <2>5. h \in Procs /\ qp'[p] = h
      BY <2>1, <2>4
    <2>. QED
      BY <2>1, <2>2, <2>3, <2>4, <2>5
  <1>11. ASSUME NEW p \in Procs, QUnlockReady(p) PROVE QueueSound'
    <2>1. \A q \in Procs, j \in QLocks : Queued(q, j)' <=> Queued(q, j)
      BY <1>11, SameQueue DEF QUnlockReady
    <2>. QED
      BY <1>11, <2>1 DEF QUnlockReady
  <1>12. ASSUME NEW p \in Procs, QUnlockFree(p) PROVE QueueSound'
    <2>1. \A q \in Procs, j \in QLocks : Queued(q, j)' <=> Queued(q, j)
      BY <1>12, SameQueue DEF QUnlockFree
    <2>. QED
      BY <1>12, <2>1 DEF QUnlockFree
  <1>13. ASSUME NEW p \in Procs, QCall(p) PROVE QueueSound'
    <2>1. \A q \in Procs, j \in QLocks : Queued(q, j)' <=> Queued(q, j)
      BY <1>13, SameQueue DEF QCall, QLockCall, CanQLockCall, QUnlockCall
    <2>. QED
      BY <1>13, <2>1 DEF QCall, QLockCall, CanQLockCall, QUnlockCall
  <1>14. ASSUME UNCHANGED qvars PROVE QueueSound'
    <2>1. \A q \in Procs, j \in QLocks : Queued(q, j)' <=> Queued(q, j)
      BY <1>14, SameQueue
    <2>. QED
      BY <1>14, <2>1
  <1>. HIDE DEF QueueSound, Step, Return, LockUse, UnlockUse, Call, qvars
  <1>. QED
    BY <1>1, <1>2, <1>3, <1>4, <1>5, <1>6, <1>7, <1>8, <1>9, <1>10, <1>11, <1>12, <1>13, <1>14
    DEF QNext, QStep, QGot, QOther

\* Each dequeued process gets one token.
LEMMA TokenStep == QTypeOK /\ ArgInv /\ QueueSound /\ TokenSound /\ [QNext]_qvars => TokenSound'
  <1>. SUFFICES ASSUME QTypeOK, ArgInv, QueueSound, TokenSound PROVE [QNext]_qvars => TokenSound'
    OBVIOUS
  <1>. USE QLockAssumption DEF QTypeOK, QPC, ArgInv, QueueSound, TokenSound, Dequeued, Giving, Step, Return, LockUse, UnlockUse, Call, qvars
  <1>1. ASSUME NEW p \in Procs, QLockGet(p) PROVE TokenSound'
    <2>1. \A q \in Procs, j \in QLocks : Queued(q, j)' <=> Queued(q, j)
      BY <1>1, SameQueue DEF QLockGet
    <2>. QED
      BY <1>1, <2>1 DEF QLockGet
  <1>2. ASSUME NEW p \in Procs, QLockWoken(p) PROVE TokenSound'
    <2>1. \A q \in Procs, j \in QLocks : Queued(q, j)' <=> Queued(q, j)
      BY <1>2, SameQueue DEF QLockWoken
    <2>. QED
      BY <1>2, <2>1 DEF QLockWoken
  <1>3. ASSUME NEW p \in Procs, CanQLockGet(p) PROVE TokenSound'
    <2>1. \A q \in Procs, j \in QLocks : Queued(q, j)' <=> Queued(q, j)
      BY <1>3, SameQueue DEF CanQLockGet
    <2>. QED
      BY <1>3, <2>1 DEF CanQLockGet
  <1>4. ASSUME NEW p \in Procs, QLockUse(p) PROVE TokenSound'
    <2>1. \A q \in Procs, j \in QLocks : Queued(q, j)' <=> Queued(q, j)
      BY <1>4, SameQueue DEF QLockUse
    <2>. QED
      BY <1>4, <2>1 DEF QLockUse
  <1>5. ASSUME NEW p \in Procs, QLockEnqueue(p) PROVE TokenSound'
    <2>1. /\ \A q \in Procs, j \in QLocks :
               Queued(q, j)' <=> Queued(q, j) \/ (q = p /\ j = qarg[p])
          /\ queue' \in [QLocks -> Seq(Procs)]
          /\ \A j \in QLocks : Distinct(queue'[j])
      BY <1>5, EnqueueEffect
    <2>2. qpc[p] = "l_test" /\ qarg[p] \in QLocks
      BY <1>5 DEF QLockEnqueue
    <2>3. UNCHANGED <<qarg, qp, locked, sem>> /\ qpc' = [qpc EXCEPT ![p] = "l_block"]
          /\ use' = [use EXCEPT ![qarg[p]] = NoProc]
      BY <1>5 DEF QLockEnqueue
    <2>. QED
      BY <2>1, <2>2, <2>3
  <1>6. ASSUME NEW p \in Procs, CanQLockUse(p) PROVE TokenSound'
    <2>1. \A q \in Procs, j \in QLocks : Queued(q, j)' <=> Queued(q, j)
      BY <1>6, SameQueue DEF CanQLockUse
    <2>. QED
      BY <1>6, <2>1 DEF CanQLockUse
  <1>7. ASSUME NEW p \in Procs, CanQLockBusy(p) PROVE TokenSound'
    <2>1. \A q \in Procs, j \in QLocks : Queued(q, j)' <=> Queued(q, j)
      BY <1>7, SameQueue DEF CanQLockBusy
    <2>2. qpc[p] \in {"c_use", "c_test"} /\ qpc'[p] = "idle" /\ UNCHANGED <<qp, sem>>
          /\ \A q \in Procs \ {p} : qpc'[q] = qpc[q] /\ qarg'[q] = qarg[q]
      BY <1>7 DEF CanQLockBusy
    <2>3. \A q \in Procs : Dequeued(q)' <=> Dequeued(q)
      BY <2>1, <2>2
    <2>4. \A g, q \in Procs : Giving(g, q)' <=> Giving(g, q)
      BY <2>2
    <2>. HIDE DEF Dequeued, Giving
    <2>. QED
      BY <2>2, <2>3, <2>4
  <1>8. ASSUME NEW p \in Procs, CanQLockFail(p) PROVE TokenSound'
    <2>1. \A q \in Procs, j \in QLocks : Queued(q, j)' <=> Queued(q, j)
      BY <1>8, SameQueue DEF CanQLockFail
    <2>2. qpc[p] \in {"c_use", "c_test"} /\ qpc'[p] = "idle" /\ UNCHANGED <<qp, sem>>
          /\ \A q \in Procs \ {p} : qpc'[q] = qpc[q] /\ qarg'[q] = qarg[q]
      BY <1>8 DEF CanQLockFail
    <2>3. \A q \in Procs : Dequeued(q)' <=> Dequeued(q)
      BY <2>1, <2>2
    <2>4. \A g, q \in Procs : Giving(g, q)' <=> Giving(g, q)
      BY <2>2
    <2>. HIDE DEF Dequeued, Giving
    <2>. QED
      BY <2>2, <2>3, <2>4
  <1>9. ASSUME NEW p \in Procs, QUnlockUse(p) PROVE TokenSound'
    <2>1. \A q \in Procs, j \in QLocks : Queued(q, j)' <=> Queued(q, j)
      BY <1>9, SameQueue DEF QUnlockUse
    <2>. QED
      BY <1>9, <2>1 DEF QUnlockUse
  <1>10. ASSUME NEW p \in Procs, QUnlockDequeue(p) PROVE TokenSound'
    <2>1. /\ \A q \in Procs, j \in QLocks :
               Queued(q, j)' <=> Queued(q, j) /\ ~(q = qp'[p] /\ j = qarg[p])
          /\ qp'[p] \in Procs /\ Queued(qp'[p], qarg[p])
          /\ queue' \in [QLocks -> Seq(Procs)]
          /\ \A j \in QLocks : Distinct(queue'[j])
      BY <1>10, DequeueEffect
    <2>2. qpc[p] = "u_test" /\ qarg[p] \in QLocks
      BY <1>10 DEF QUnlockDequeue
    <2>3. UNCHANGED <<qarg, locked, sem>> /\ qpc' = [qpc EXCEPT ![p] = "u_ready"]
          /\ use' = [use EXCEPT ![qarg[p]] = NoProc]
      BY <1>10 DEF QUnlockDequeue
    <2>4. PICK h : qp' = [qp EXCEPT ![p] = h]
      BY <1>10 DEF QUnlockDequeue
    <2>5. h \in Procs /\ qp'[p] = h
      BY <2>1, <2>4
    <2>. QED
      BY <2>1, <2>2, <2>3, <2>4, <2>5
  <1>11. ASSUME NEW p \in Procs, QUnlockReady(p) PROVE TokenSound'
    <2>1. \A q \in Procs, j \in QLocks : Queued(q, j)' <=> Queued(q, j)
      BY <1>11, SameQueue DEF QUnlockReady
    <2>. QED
      BY <1>11, <2>1 DEF QUnlockReady
  <1>12. ASSUME NEW p \in Procs, QUnlockFree(p) PROVE TokenSound'
    <2>1. \A q \in Procs, j \in QLocks : Queued(q, j)' <=> Queued(q, j)
      BY <1>12, SameQueue DEF QUnlockFree
    <2>. QED
      BY <1>12, <2>1 DEF QUnlockFree
  <1>13. ASSUME NEW p \in Procs, QCall(p) PROVE TokenSound'
    <2>1. \A q \in Procs, j \in QLocks : Queued(q, j)' <=> Queued(q, j)
      BY <1>13, SameQueue DEF QCall, QLockCall, CanQLockCall, QUnlockCall
    <2>. QED
      BY <1>13, <2>1 DEF QCall, QLockCall, CanQLockCall, QUnlockCall
  <1>14. ASSUME UNCHANGED qvars PROVE TokenSound'
    <2>1. \A q \in Procs, j \in QLocks : Queued(q, j)' <=> Queued(q, j)
      BY <1>14, SameQueue
    <2>. QED
      BY <1>14, <2>1
  <1>. HIDE DEF TokenSound, Step, Return, LockUse, UnlockUse, Call, qvars
  <1>. QED
    BY <1>1, <1>2, <1>3, <1>4, <1>5, <1>6, <1>7, <1>8, <1>9, <1>10, <1>11, <1>12, <1>13, <1>14
    DEF QNext, QStep, QGot, QOther

\* A lock is marked free only with an empty queue.
LEMMA WaitStep == QTypeOK /\ ArgInv /\ QueueSound /\ UseInv /\ WaitInv /\ [QNext]_qvars => WaitInv'
  <1>. SUFFICES ASSUME QTypeOK, ArgInv, QueueSound, UseInv, WaitInv PROVE [QNext]_qvars => WaitInv'
    OBVIOUS
  <1>. USE QLockAssumption DEF QTypeOK, QPC, ArgInv, UseInv, WaitInv, Step, Return, LockUse, UnlockUse, Call, qvars
  <1>1. ASSUME NEW p \in Procs, QLockGet(p) PROVE WaitInv'
    BY <1>1 DEF QLockGet
  <1>2. ASSUME NEW p \in Procs, QLockWoken(p) PROVE WaitInv'
    BY <1>2 DEF QLockWoken
  <1>3. ASSUME NEW p \in Procs, CanQLockGet(p) PROVE WaitInv'
    BY <1>3 DEF CanQLockGet
  <1>4. ASSUME NEW p \in Procs, QLockUse(p) PROVE WaitInv'
    BY <1>4 DEF QLockUse
  <1>5. ASSUME NEW p \in Procs, QLockEnqueue(p) PROVE WaitInv'
    BY <1>5 DEF QLockEnqueue
  <1>6. ASSUME NEW p \in Procs, CanQLockUse(p) PROVE WaitInv'
    BY <1>6 DEF CanQLockUse
  <1>7. ASSUME NEW p \in Procs, CanQLockBusy(p) PROVE WaitInv'
    BY <1>7 DEF CanQLockBusy
  <1>8. ASSUME NEW p \in Procs, CanQLockFail(p) PROVE WaitInv'
    BY <1>8 DEF CanQLockFail
  <1>9. ASSUME NEW p \in Procs, QUnlockUse(p) PROVE WaitInv'
    BY <1>9 DEF QUnlockUse
  <1>10. ASSUME NEW p \in Procs, QUnlockDequeue(p) PROVE WaitInv'
    BY <1>10 DEF QUnlockDequeue
  <1>11. ASSUME NEW p \in Procs, QUnlockReady(p) PROVE WaitInv'
    BY <1>11 DEF QUnlockReady
  <1>12. ASSUME NEW p \in Procs, QUnlockFree(p) PROVE WaitInv'
    BY <1>12 DEF QUnlockFree
  <1>13. ASSUME NEW p \in Procs, QCall(p) PROVE WaitInv'
    BY <1>13 DEF QCall, QLockCall, CanQLockCall, QUnlockCall
  <1>14. ASSUME UNCHANGED qvars PROVE WaitInv'
    BY <1>14
  <1>. HIDE DEF WaitInv, Step, Return, LockUse, UnlockUse, Call, qvars
  <1>. QED
    BY <1>1, <1>2, <1>3, <1>4, <1>5, <1>6, <1>7, <1>8, <1>9, <1>10, <1>11, <1>12, <1>13, <1>14
    DEF QNext, QStep, QGot, QOther

-----------------------------------------------------------------------------
\* The locks start free, with nobody in a call.
LEMMA QLockInit == QInit => QInv
  <1>. SUFFICES ASSUME QInit PROVE QInv
    OBVIOUS
  <1>. USE QLockAssumption DEF QInit
  <1>1. \A p \in Procs, k \in QLocks : ~Queued(p, k)
    BY DEF Queued
  <1>2. QTypeOK
    BY DEF QTypeOK, QPC
  <1>3. ArgInv /\ UseInv /\ WaitInv
    BY DEF ArgInv, UseInv, WaitInv
  <1>4. QueueSound
    BY <1>1 DEF QueueSound
  <1>5. TokenSound
    <2>1. \A p \in Procs : ~Dequeued(p) /\ \A g \in Procs : ~Giving(g, p)
      BY DEF Dequeued, Giving
    <2>2. ASSUME NEW p \in Procs PROVE sem[p] \in {0, 1} /\ ~(sem[p] = 1)
      <3>1. sem[p] = 0
        OBVIOUS
      <3>. HIDE DEF QInit
      <3>. QED
        BY <3>1
    <2>. QED
      BY <2>1, <2>2, Zenon DEF TokenSound
  <1>. QED
    BY <1>2, <1>3, <1>4, <1>5 DEF QInv

\* Every step inside lock.c, and every call, keeps the invariant.
LEMMA QLockNext == QInv /\ [QNext]_qvars => QInv'
  BY QTypeStep, ArgStep, UseStep, QueueStep, TokenStep, WaitStep DEF QInv

-----------------------------------------------------------------------------
(* What each step does to who has been handed a lock.                      *)

\* A step that neither dequeues a process nor lets one go leaves that alone.
LEMMA GrantSame ==
  ASSUME QInv, NEW p \in Procs,
         \/ QLockGet(p) \/ CanQLockGet(p) \/ QLockUse(p) \/ CanQLockUse(p) \/ CanQLockBusy(p)
         \/ CanQLockFail(p) \/ QUnlockUse(p) \/ QUnlockReady(p) \/ QUnlockFree(p) \/ QCall(p)
  PROVE  /\ queue' = queue
         /\ \A q \in Procs, j \in QLocks : Granted(q, j)' <=> Granted(q, j)
  <1>. USE QLockAssumption DEF QInv, QTypeOK, QPC, ArgInv, Step, Return, LockUse, UnlockUse, Call
  <1>1. queue' = queue
    BY DEF QLockGet, CanQLockGet, QLockUse, CanQLockUse, CanQLockBusy, CanQLockFail, QUnlockUse,
           QUnlockReady, QUnlockFree, QCall, QLockCall, CanQLockCall, QUnlockCall
  <1>2. \A q \in Procs, j \in QLocks : Queued(q, j)' <=> Queued(q, j)
    BY <1>1, SameQueue
  <1>3. PICK b : qpc[p] # "l_block" /\ b # "l_block" /\ qpc' = [qpc EXCEPT ![p] = b]
    BY DEF QLockGet, CanQLockGet, QLockUse, CanQLockUse, CanQLockBusy, CanQLockFail, QUnlockUse,
           QUnlockReady, QUnlockFree, QCall, QLockCall, CanQLockCall, QUnlockCall
  <1>4. \A q \in Procs \ {p} : qarg'[q] = qarg[q]
    BY DEF QLockGet, CanQLockGet, QLockUse, CanQLockUse, CanQLockBusy, CanQLockFail, QUnlockUse,
           QUnlockReady, QUnlockFree, QCall, QLockCall, CanQLockCall, QUnlockCall
  <1>. QED
    BY <1>1, <1>2, <1>3, <1>4 DEF Granted

\* Who queues has not been handed the lock.
LEMMA GrantQueue ==
  ASSUME QInv, NEW p \in Procs, QLockEnqueue(p)
  PROVE  \A q \in Procs, j \in QLocks : Granted(q, j)' <=> Granted(q, j)
  <1>1. /\ qpc[p] = "l_test" /\ UNCHANGED qarg /\ qarg[p] \in QLocks
        /\ qpc' = [qpc EXCEPT ![p] = "l_block"]
    BY DEF QLockEnqueue, Step, QInv, ArgInv
  <1>2. \A q \in Procs, j \in QLocks : Queued(q, j)' <=> Queued(q, j) \/ (q = p /\ j = qarg[p])
    BY EnqueueEffect DEF QInv
  <1>. QED
    BY <1>1, <1>2 DEF Granted, QInv, QTypeOK

\* Who wakes up in qlock was handed its lock, and takes it.
LEMMA GrantTaken ==
  ASSUME QInv, NEW p \in Procs, QLockWoken(p)
  PROVE  /\ qarg[p] \in QLocks /\ Granted(p, qarg[p])
         /\ \A q \in Procs, j \in QLocks : Granted(q, j)' <=> Granted(q, j) /\ q # p
  <1>1. /\ qpc[p] = "l_block" /\ qarg[p] \in QLocks /\ sem[p] > 0 /\ UNCHANGED queue
        /\ qpc' = [qpc EXCEPT ![p] = "idle"] /\ qarg' = [qarg EXCEPT ![p] = NoLock]
    BY DEF QLockWoken, Step, Return, QInv, ArgInv
  <1>2. Granted(p, qarg[p])
    BY <1>1 DEF Granted, QInv, TokenSound, Dequeued
  <1>3. \A q \in Procs, j \in QLocks : Queued(q, j)' <=> Queued(q, j)
    BY <1>1, SameQueue
  <1>. QED
    BY <1>1, <1>2, <1>3, QLockAssumption DEF Granted, QInv, QTypeOK

\* qunlock hands its lock to the head of the queue, and to nobody else.
LEMMA GrantGiven ==
  ASSUME QInv, NEW p \in Procs, QUnlockDequeue(p)
  PROVE  /\ qarg[p] \in QLocks /\ qp'[p] \in Procs /\ qp'[p] # p
         /\ qarg[qp'[p]] = qarg[p] /\ qpc[qp'[p]] = "l_block"
         /\ \A q \in Procs, j \in QLocks :
              Granted(q, j)' <=> Granted(q, j) \/ (q = qp'[p] /\ j = qarg[p])
  <1>1. /\ qpc[p] = "u_test" /\ UNCHANGED qarg /\ qarg[p] \in QLocks
        /\ qpc' = [qpc EXCEPT ![p] = "u_ready"]
    BY DEF QUnlockDequeue, Step, QInv, ArgInv
  <1>2. /\ \A q \in Procs, j \in QLocks :
             Queued(q, j)' <=> Queued(q, j) /\ ~(q = qp'[p] /\ j = qarg[p])
        /\ qp'[p] \in Procs /\ Queued(qp'[p], qarg[p])
    BY DequeueEffect DEF QInv
  <1>3. qpc[qp'[p]] = "l_block" /\ qarg[qp'[p]] = qarg[p] /\ qp'[p] # p
    BY <1>1, <1>2 DEF QInv, QueueSound
  <1>. QED
    BY <1>1, <1>2, <1>3 DEF Granted, QInv, QTypeOK

-----------------------------------------------------------------------------
(* Callers: the inductive invariant.                                       *)

\* A process holds at most one lock, and none while it is in a call.
HeldInv ==
  /\ held \in [Procs -> SUBSET QLocks]
  /\ \A p \in Procs : \A k \in held[p] : qpc[p] = "idle" /\ held[p] = {k}

SoundInv == QInv /\ HeldInv
ClientsInv == SoundInv /\ MutualExclusion /\ LockedIsOwned

\* A step of QLockClients is a step inside lock.c, or a call.
LEMMA ClientStep == [ClientsNext]_clientvars => [QNext]_qvars
  BY DEF ClientsNext, Get, Other, Lock, Unlock, QNext, QStep, QCall, clientvars

\* A process outside lock.c holds at most one lock, inside it none.
LEMMA HeldStep == QInv /\ HeldInv /\ [ClientsNext]_clientvars => HeldInv'
  <1>. SUFFICES ASSUME QInv, HeldInv PROVE [ClientsNext]_clientvars => HeldInv'
    OBVIOUS
  <1>. USE QLockAssumption DEF QInv, QTypeOK, QPC, ArgInv, HeldInv, Step, Return, LockUse, UnlockUse, Call, qvars
  <1>1. ASSUME NEW p \in Procs, QLockGet(p), held' = [held EXCEPT ![p] = @ \cup {qarg[p]}] PROVE HeldInv'
    BY <1>1 DEF QLockGet
  <1>2. ASSUME NEW p \in Procs, QLockWoken(p), held' = [held EXCEPT ![p] = @ \cup {qarg[p]}] PROVE HeldInv'
    BY <1>2 DEF QLockWoken
  <1>3. ASSUME NEW p \in Procs, CanQLockGet(p), held' = [held EXCEPT ![p] = @ \cup {qarg[p]}] PROVE HeldInv'
    BY <1>3 DEF CanQLockGet
  <1>4. ASSUME NEW p \in Procs, QLockUse(p), UNCHANGED held PROVE HeldInv'
    BY <1>4 DEF QLockUse
  <1>5. ASSUME NEW p \in Procs, QLockEnqueue(p), UNCHANGED held PROVE HeldInv'
    BY <1>5 DEF QLockEnqueue
  <1>6. ASSUME NEW p \in Procs, CanQLockUse(p), UNCHANGED held PROVE HeldInv'
    BY <1>6 DEF CanQLockUse
  <1>7. ASSUME NEW p \in Procs, CanQLockBusy(p), UNCHANGED held PROVE HeldInv'
    BY <1>7 DEF CanQLockBusy
  <1>8. ASSUME NEW p \in Procs, CanQLockFail(p), UNCHANGED held PROVE HeldInv'
    BY <1>8 DEF CanQLockFail
  <1>9. ASSUME NEW p \in Procs, QUnlockUse(p), UNCHANGED held PROVE HeldInv'
    BY <1>9 DEF QUnlockUse
  <1>10. ASSUME NEW p \in Procs, QUnlockDequeue(p), UNCHANGED held PROVE HeldInv'
    BY <1>10 DEF QUnlockDequeue
  <1>11. ASSUME NEW p \in Procs, QUnlockReady(p), UNCHANGED held PROVE HeldInv'
    BY <1>11 DEF QUnlockReady
  <1>12. ASSUME NEW p \in Procs, QUnlockFree(p), UNCHANGED held PROVE HeldInv'
    BY <1>12 DEF QUnlockFree
  <1>13. ASSUME NEW p \in Procs, NEW k \in QLocks, held[p] = {}, QLockCall(p, k), UNCHANGED held PROVE HeldInv'
    BY <1>13 DEF QLockCall
  <1>14. ASSUME NEW p \in Procs, NEW k \in QLocks, held[p] = {}, CanQLockCall(p, k), UNCHANGED held PROVE HeldInv'
    BY <1>14 DEF CanQLockCall
  <1>15. ASSUME NEW p \in Procs, NEW k \in QLocks, Unlock(p, k) PROVE HeldInv'
    BY <1>15 DEF Unlock, QUnlockCall
  <1>16. ASSUME UNCHANGED clientvars PROVE HeldInv'
    BY <1>16 DEF clientvars
  <1>. HIDE DEF HeldInv, Step, Return, LockUse, UnlockUse, Call, qvars
  <1>. QED
    BY <1>1, <1>2, <1>3, <1>4, <1>5, <1>6, <1>7, <1>8, <1>9, <1>10, <1>11, <1>12, <1>13, <1>14, <1>15, <1>16
    DEF ClientsNext, Get, Other, QGot, QOther, Lock

-----------------------------------------------------------------------------
(* What each step does to the owners.                                      *)

\* A step that changes nobody's standing changes no owner.
LEMMA OwnerSame ==
  ASSUME SoundInv, NEW p \in Procs,
         \/ QLockWoken(p) /\ held' = [held EXCEPT ![p] = @ \cup {qarg[p]}]
         \/ /\ \/ QLockUse(p) \/ CanQLockUse(p) \/ CanQLockBusy(p) \/ CanQLockFail(p)
               \/ QUnlockUse(p) \/ QUnlockReady(p)
            /\ UNCHANGED held
         \/ \E k \in QLocks : Lock(p, k) \/ Unlock(p, k)
  PROVE  UNCHANGED <<queue, locked>> /\ \A q \in Procs, j \in QLocks : Owns(q, j)' <=> Owns(q, j)
  <1>. USE QLockAssumption
       DEF SoundInv, QInv, QTypeOK, QPC, ArgInv, HeldInv, QueueSound, TokenSound, Dequeued,
           Step, Return, LockUse, UnlockUse, Call, qvars, clientvars
  <1>1. UNCHANGED <<queue, locked>>
    BY DEF QLockWoken, QLockUse, CanQLockUse, CanQLockBusy, CanQLockFail, QUnlockUse,
           QUnlockReady, Lock, Unlock, QLockCall, CanQLockCall, QUnlockCall
  <1>2. \A q \in Procs, j \in QLocks : Queued(q, j)' <=> Queued(q, j)
    BY <1>1, SameQueue
  <1>3. CASE QLockWoken(p) /\ held' = [held EXCEPT ![p] = @ \cup {qarg[p]}]
    BY <1>1, <1>2, <1>3 DEF QLockWoken, Owns, Granted
  <1>4. CASE QLockUse(p) /\ UNCHANGED held
    BY <1>1, <1>2, <1>4 DEF QLockUse, Owns, Granted
  <1>5. CASE CanQLockUse(p) /\ UNCHANGED held
    BY <1>1, <1>2, <1>5 DEF CanQLockUse, Owns, Granted
  <1>6. CASE CanQLockBusy(p) /\ UNCHANGED held
    BY <1>1, <1>2, <1>6 DEF CanQLockBusy, Owns, Granted
  <1>7. CASE CanQLockFail(p) /\ UNCHANGED held
    BY <1>1, <1>2, <1>7 DEF CanQLockFail, Owns, Granted
  <1>8. CASE QUnlockUse(p) /\ UNCHANGED held
    BY <1>1, <1>2, <1>8 DEF QUnlockUse, Owns, Granted
  <1>9. CASE QUnlockReady(p) /\ UNCHANGED held
    BY <1>1, <1>2, <1>9 DEF QUnlockReady, Owns, Granted
  <1>10. ASSUME NEW k \in QLocks, Lock(p, k)
         PROVE  \A q \in Procs, j \in QLocks : Owns(q, j)' <=> Owns(q, j)
    BY <1>1, <1>2, <1>10 DEF Lock, QLockCall, CanQLockCall, Owns, Granted
  <1>11. ASSUME NEW k \in QLocks, Unlock(p, k)
         PROVE  \A q \in Procs, j \in QLocks : Owns(q, j)' <=> Owns(q, j)
    BY <1>1, <1>2, <1>11 DEF Unlock, QUnlockCall, Owns, Granted
  <1>. QED
    BY <1>1, <1>3, <1>4, <1>5, <1>6, <1>7, <1>8, <1>9, <1>10, <1>11

\* Who takes a lock that had no owner is its only owner.
LEMMA OwnerTaken ==
  ASSUME SoundInv, NEW p \in Procs, QLockGet(p) \/ CanQLockGet(p),
         held' = [held EXCEPT ![p] = @ \cup {qarg[p]}]
  PROVE  /\ qarg[p] \in QLocks /\ ~locked[qarg[p]] /\ UNCHANGED queue
         /\ locked' = [locked EXCEPT ![qarg[p]] = TRUE]
         /\ \A q \in Procs, j \in QLocks :
              Owns(q, j)' <=> Owns(q, j) \/ (q = p /\ j = qarg[p])
  <1>. USE QLockAssumption
       DEF SoundInv, QInv, QTypeOK, QPC, ArgInv, HeldInv, QueueSound, QLockGet, CanQLockGet,
           Step, Return, UnlockUse
  <1>1. qarg[p] \in QLocks /\ ~locked[qarg[p]] /\ UNCHANGED queue
        /\ locked' = [locked EXCEPT ![qarg[p]] = TRUE]
    OBVIOUS
  <1>2. \A q \in Procs, j \in QLocks : Queued(q, j)' <=> Queued(q, j)
    BY <1>1, SameQueue
  <1>3. \A q \in Procs, j \in QLocks : Owns(q, j)' <=> Owns(q, j) \/ (q = p /\ j = qarg[p])
    BY <1>1, <1>2 DEF Owns, Granted
  <1>. QED
    BY <1>1, <1>3

\* Who queues for a lock does not own it.
LEMMA OwnerWaits ==
  ASSUME SoundInv, NEW p \in Procs, QLockEnqueue(p), UNCHANGED held
  PROVE  /\ qarg[p] \in QLocks /\ locked[qarg[p]] /\ UNCHANGED locked
         /\ queue' = [queue EXCEPT ![qarg[p]] = Append(@, p)]
         /\ ~Owns(p, qarg[p])
         /\ \A q \in Procs, j \in QLocks : Owns(q, j)' <=> Owns(q, j)
  <1>. USE QLockAssumption DEF SoundInv
  <1>1. /\ qarg[p] \in QLocks /\ locked[qarg[p]] /\ UNCHANGED locked /\ qpc[p] = "l_test"
        /\ queue' = [queue EXCEPT ![qarg[p]] = Append(@, p)]
    BY DEF QLockEnqueue, Step, QInv, ArgInv, QTypeOK
  <1>2. \A q \in Procs, j \in QLocks : Queued(q, j)' <=> Queued(q, j) \/ (q = p /\ j = qarg[p])
    BY EnqueueEffect DEF QInv
  <1>3. ~Owns(p, qarg[p])
    BY <1>1 DEF Owns, Granted, HeldInv
  <1>4. UNCHANGED <<qarg, held>> /\ qpc' = [qpc EXCEPT ![p] = "l_block"]
    BY DEF QLockEnqueue, Step
  <1>5. \A q \in Procs, j \in QLocks : Owns(q, j)' <=> Owns(q, j)
    BY <1>1, <1>2, <1>4 DEF Owns, Granted, QInv, QTypeOK, HeldInv
  <1>. QED
    BY <1>1, <1>3, <1>5

\* Handing a lock over makes the head of the queue its owner.
LEMMA OwnerHandedOver ==
  ASSUME SoundInv, NEW p \in Procs, QUnlockDequeue(p), UNCHANGED held
  PROVE  /\ qarg[p] \in QLocks /\ UNCHANGED locked
         /\ qp'[p] \in Procs /\ qp'[p] = Head(queue[qarg[p]]) /\ queue[qarg[p]] # <<>>
         /\ queue' = [queue EXCEPT ![qarg[p]] = Tail(@)]
         /\ Owns(p, qarg[p]) /\ qp'[p] # p
         /\ \A q \in Procs, j \in QLocks :
              Owns(q, j)' <=> IF j = qarg[p] /\ q \in {p, qp'[p]} THEN q = qp'[p] ELSE Owns(q, j)
  <1>. USE QLockAssumption DEF SoundInv
  <1>1. /\ qarg[p] \in QLocks /\ UNCHANGED locked /\ qpc[p] = "u_test"
        /\ queue[qarg[p]] # <<>> /\ qp'[p] = Head(queue[qarg[p]])
        /\ queue' = [queue EXCEPT ![qarg[p]] = Tail(@)]
    BY DEF QUnlockDequeue, Step, QInv, ArgInv, QTypeOK
  <1>2. /\ \A q \in Procs, j \in QLocks :
             Queued(q, j)' <=> Queued(q, j) /\ ~(q = qp'[p] /\ j = qarg[p])
        /\ qp'[p] \in Procs /\ Queued(qp'[p], qarg[p])
    BY DequeueEffect DEF QInv
  <1>3. qpc[qp'[p]] = "l_block" /\ qarg[qp'[p]] = qarg[p] /\ qp'[p] # p
    BY <1>1, <1>2 DEF QInv, QueueSound
  <1>4. Owns(p, qarg[p])
    BY <1>1 DEF Owns
  <1>5. UNCHANGED <<qarg, held>> /\ qpc' = [qpc EXCEPT ![p] = "u_ready"]
    BY DEF QUnlockDequeue, Step
  <1>6. held[p] = {}
    BY <1>1 DEF HeldInv
  <1>7. \A q \in Procs, j \in QLocks :
          Owns(q, j)' <=> IF j = qarg[p] /\ q \in {p, qp'[p]} THEN q = qp'[p] ELSE Owns(q, j)
    BY <1>1, <1>2, <1>3, <1>5, <1>6 DEF Owns, Granted, QInv, QTypeOK, HeldInv
  <1>. QED
    BY <1>1, <1>2, <1>3, <1>4, <1>7

\* A lock that is freed with nobody waiting has no owner.
LEMMA OwnerFreed ==
  ASSUME SoundInv, NEW p \in Procs, QUnlockFree(p), UNCHANGED held
  PROVE  /\ qarg[p] \in QLocks /\ queue[qarg[p]] = <<>> /\ UNCHANGED queue
         /\ locked' = [locked EXCEPT ![qarg[p]] = FALSE]
         /\ Owns(p, qarg[p])
         /\ \A q \in Procs, j \in QLocks :
              Owns(q, j)' <=> Owns(q, j) /\ ~(q = p /\ j = qarg[p])
  <1>. USE QLockAssumption
       DEF SoundInv, QInv, QTypeOK, QPC, ArgInv, HeldInv, QueueSound, QUnlockFree,
           Step, Return, UnlockUse
  <1>1. /\ qarg[p] \in QLocks /\ queue[qarg[p]] = <<>> /\ UNCHANGED queue
        /\ locked' = [locked EXCEPT ![qarg[p]] = FALSE]
    OBVIOUS
  <1>2. \A q \in Procs, j \in QLocks : Queued(q, j)' <=> Queued(q, j)
    BY <1>1, SameQueue
  <1>3. Owns(p, qarg[p])
    BY DEF Owns
  <1>4. \A q \in Procs, j \in QLocks : Owns(q, j)' <=> Owns(q, j) /\ ~(q = p /\ j = qarg[p])
    BY <1>1, <1>2 DEF Owns, Granted
  <1>. QED
    BY <1>1, <1>3, <1>4

\* A lock has one owner while it is locked, and none while it is not.
LEMMA OwnerStep ==
  ASSUME ClientsInv, [ClientsNext]_clientvars
  PROVE  MutualExclusion' /\ LockedIsOwned'
  <1>. SoundInv
    BY DEF ClientsInv
  <1>. USE DEF ClientsInv, MutualExclusion, LockedIsOwned
  <1>0. locked \in [QLocks -> BOOLEAN]
    BY DEF SoundInv, QInv, QTypeOK
  <1>1. ASSUME UNCHANGED <<queue, locked>>, \A q \in Procs, j \in QLocks : Owns(q, j)' <=> Owns(q, j)
        PROVE  MutualExclusion' /\ LockedIsOwned'
    BY <1>1
  <1>2. ASSUME NEW p \in Procs, QLockGet(p) \/ CanQLockGet(p),
               held' = [held EXCEPT ![p] = @ \cup {qarg[p]}]
        PROVE  MutualExclusion' /\ LockedIsOwned'
    <2>1. /\ qarg[p] \in QLocks /\ ~locked[qarg[p]]
          /\ locked' = [locked EXCEPT ![qarg[p]] = TRUE]
          /\ \A q \in Procs, j \in QLocks :
               Owns(q, j)' <=> Owns(q, j) \/ (q = p /\ j = qarg[p])
      BY <1>2, OwnerTaken
    <2>. QED
      BY <1>0, <2>1
  <1>3. ASSUME NEW p \in Procs, QLockEnqueue(p), UNCHANGED held
        PROVE  MutualExclusion' /\ LockedIsOwned'
    <2>1. UNCHANGED locked /\ \A q \in Procs, j \in QLocks : Owns(q, j)' <=> Owns(q, j)
      BY <1>3, OwnerWaits
    <2>. QED
      BY <2>1
  <1>4. ASSUME NEW p \in Procs, QUnlockDequeue(p), UNCHANGED held
        PROVE  MutualExclusion' /\ LockedIsOwned'
    <2>1. /\ qarg[p] \in QLocks /\ UNCHANGED locked
          /\ qp'[p] \in Procs /\ Owns(p, qarg[p])
          /\ \A q \in Procs, j \in QLocks :
               Owns(q, j)' <=> IF j = qarg[p] /\ q \in {p, qp'[p]} THEN q = qp'[p] ELSE Owns(q, j)
      BY <1>4, OwnerHandedOver
    <2>. QED
      BY <2>1
  <1>5. ASSUME NEW p \in Procs, QUnlockFree(p), UNCHANGED held
        PROVE  MutualExclusion' /\ LockedIsOwned'
    <2>1. /\ qarg[p] \in QLocks
          /\ locked' = [locked EXCEPT ![qarg[p]] = FALSE]
          /\ Owns(p, qarg[p])
          /\ \A q \in Procs, j \in QLocks :
               Owns(q, j)' <=> Owns(q, j) /\ ~(q = p /\ j = qarg[p])
      BY <1>5, OwnerFreed
    <2>. QED
      BY <1>0, <2>1
  <1>6. ASSUME NEW p \in Procs,
               \/ QLockWoken(p) /\ held' = [held EXCEPT ![p] = @ \cup {qarg[p]}]
               \/ /\ \/ QLockUse(p) \/ CanQLockUse(p) \/ CanQLockBusy(p) \/ CanQLockFail(p)
                     \/ QUnlockUse(p) \/ QUnlockReady(p)
                  /\ UNCHANGED held
               \/ \E k \in QLocks : Lock(p, k) \/ Unlock(p, k)
        PROVE  MutualExclusion' /\ LockedIsOwned'
    <2>1. UNCHANGED <<queue, locked>> /\ \A q \in Procs, j \in QLocks : Owns(q, j)' <=> Owns(q, j)
      BY <1>6, OwnerSame
    <2>. QED
      BY <1>1, <2>1
  <1>7. CASE UNCHANGED clientvars
    <2>1. UNCHANGED <<queue, locked, qarg, qpc, held>>
      BY <1>7 DEF clientvars, qvars
    <2>2. \A q \in Procs, j \in QLocks : Owns(q, j)' <=> Owns(q, j)
      BY <2>1, SameQueue DEF Owns, Granted
    <2>. QED
      BY <1>1, <2>1, <2>2
  <1>. HIDE DEF MutualExclusion, LockedIsOwned
  <1>. QED
    BY <1>2, <1>3, <1>4, <1>5, <1>6, <1>7 DEF ClientsNext, Get, Other, QGot, QOther

-----------------------------------------------------------------------------
\* The initial states satisfy the inductive invariant.
LEMMA InitClientsInv == ClientsInit => ClientsInv
  <1>. SUFFICES ASSUME ClientsInit PROVE ClientsInv
    OBVIOUS
  <1>1. QInv
    BY QLockInit DEF ClientsInit
  <1>2. HeldInv /\ MutualExclusion /\ LockedIsOwned
    BY QLockAssumption DEF ClientsInit, QInit, HeldInv, MutualExclusion, LockedIsOwned, Owns, Granted
  <1>. QED
    BY <1>1, <1>2 DEF ClientsInv, SoundInv

\* The strengthened invariant holds in every reachable state.
THEOREM ClientsInductive == ClientsSpec => []ClientsInv
  <1>1. ClientsInit => ClientsInv
    BY InitClientsInv
  <1>2. ClientsInv /\ [ClientsNext]_clientvars => ClientsInv'
    BY ClientStep, QLockNext, HeldStep, OwnerStep DEF ClientsInv, SoundInv
  <1>. QED
    BY <1>1, <1>2, PTL DEF ClientsSpec

\* The variables keep their types.
THEOREM TypeCorrect == ClientsSpec => []TypeOK
  <1>1. ClientsInv => TypeOK
    BY DEF ClientsInv, SoundInv, QInv, HeldInv, TypeOK
  <1>. QED
    BY <1>1, ClientsInductive, PTL

\* No two processes ever own a lock, hand-over included.
THEOREM Exclusive == ClientsSpec => []MutualExclusion
  <1>1. ClientsInv => MutualExclusion
    BY DEF ClientsInv
  <1>. QED
    BY <1>1, ClientsInductive, PTL

\* A lock is locked exactly while it has an owner: hand-over never loses it.
THEOREM NeverDropped == ClientsSpec => []LockedIsOwned
  <1>1. ClientsInv => LockedIsOwned
    BY DEF ClientsInv
  <1>. QED
    BY <1>1, ClientsInductive, PTL

\* Each waiter is in one queue once, and each dequeued waiter gets one token.
THEOREM HandedOver == ClientsSpec => []HandOver
  <1>1. ClientsInv => HandOver
    BY DEF ClientsInv, SoundInv, QInv, HandOver
  <1>. QED
    BY <1>1, ClientsInductive, PTL

-----------------------------------------------------------------------------
(* qlock implements FairMutex: the lock is granted in the order of arrival.*)

owners == [k \in QLocks |-> {p \in Procs : Owns(p, k)}]

\* The owners of a lock are processes.
LEMMA OwnersTyped ==
  owners = [k \in QLocks |-> owners[k]] /\ owners' = [k \in QLocks |-> owners'[k]]
  BY DEF owners

\* What it is to own a lock.
LEMMA OwnersOf ==
  ASSUME ClientsInv, NEW p \in Procs, NEW k \in QLocks, Owns(p, k)
  PROVE  owners[k] = {p}
  BY DEF ClientsInv, MutualExclusion, owners

\* A step is an abstract step on one lock, or leaves owners and queues alone.
LEMMA FairMutexStep ==
  ASSUME ClientsInv, [ClientsNext]_clientvars
  PROVE  [FairMutex!Next]_<<owners, queue>>
  <1>. SoundInv
    BY DEF ClientsInv
  <1>. USE DEF FairMutex!Next
  <1>0. queue \in [QLocks -> Seq(Procs)] /\ owners \in [QLocks -> SUBSET Procs]
    BY DEF ClientsInv, SoundInv, QInv, QTypeOK, owners
  <1>1. ASSUME UNCHANGED queue, \A q \in Procs, j \in QLocks : Owns(q, j)' <=> Owns(q, j)
        PROVE  UNCHANGED <<owners, queue>>
    BY <1>1 DEF owners
  <1>2. ASSUME NEW p \in Procs, QLockGet(p) \/ CanQLockGet(p),
               held' = [held EXCEPT ![p] = @ \cup {qarg[p]}]
        PROVE  FairMutex!Acquire(p, qarg[p]) /\ qarg[p] \in QLocks
    <2>1. /\ qarg[p] \in QLocks /\ ~locked[qarg[p]] /\ UNCHANGED queue
          /\ \A q \in Procs, j \in QLocks :
               Owns(q, j)' <=> Owns(q, j) \/ (q = p /\ j = qarg[p])
      BY <1>2, OwnerTaken
    <2>2. owners[qarg[p]] = {} /\ queue[qarg[p]] = <<>>
      BY <2>1 DEF ClientsInv, SoundInv, QInv, WaitInv, LockedIsOwned, owners
    <2>3. \A j \in QLocks : owners'[j] = IF j = qarg[p] THEN {p} ELSE owners[j]
      <3>1. ASSUME NEW j \in QLocks, j # qarg[p] PROVE owners'[j] = owners[j]
        BY <2>1, <3>1 DEF owners
      <3>2. \A q \in Procs : ~Owns(q, qarg[p])
        BY <2>1, <2>2 DEF owners
      <3>3. owners'[qarg[p]] = {p}
        BY <2>1, <3>2 DEF owners
      <3>. QED
        BY <3>1, <3>3
    <2>4. owners' = [owners EXCEPT ![qarg[p]] = {p}]
      BY <2>3, OwnersTyped
    <2>. QED
      BY <2>1, <2>2, <2>4 DEF FairMutex!Acquire, owners
  <1>3. ASSUME NEW p \in Procs, QLockEnqueue(p), UNCHANGED held
        PROVE  FairMutex!Wait(p, qarg[p]) /\ qarg[p] \in QLocks
    <2>1. /\ qarg[p] \in QLocks /\ locked[qarg[p]]
          /\ queue' = [queue EXCEPT ![qarg[p]] = Append(@, p)]
          /\ ~Owns(p, qarg[p])
          /\ \A q \in Procs, j \in QLocks : Owns(q, j)' <=> Owns(q, j)
      BY <1>3, OwnerWaits
    <2>2. owners[qarg[p]] # {} /\ p \notin owners[qarg[p]]
      BY <2>1 DEF ClientsInv, LockedIsOwned, owners
    <2>3. UNCHANGED owners
      BY <2>1 DEF owners
    <2>. QED
      BY <2>1, <2>2, <2>3 DEF FairMutex!Wait, owners
  <1>4. ASSUME NEW p \in Procs, QUnlockDequeue(p), UNCHANGED held
        PROVE  FairMutex!HandOver(qarg[p]) /\ qarg[p] \in QLocks
    <2>1. /\ qarg[p] \in QLocks
          /\ qp'[p] \in Procs /\ qp'[p] = Head(queue[qarg[p]]) /\ queue[qarg[p]] # <<>>
          /\ queue' = [queue EXCEPT ![qarg[p]] = Tail(@)]
          /\ Owns(p, qarg[p]) /\ qp'[p] # p
          /\ \A q \in Procs, j \in QLocks :
               Owns(q, j)' <=> IF j = qarg[p] /\ q \in {p, qp'[p]} THEN q = qp'[p] ELSE Owns(q, j)
      BY <1>4, OwnerHandedOver
    <2>2. owners[qarg[p]] = {p}
      BY <2>1, OwnersOf
    <2>3. \A j \in QLocks : owners'[j] = IF j = qarg[p] THEN {qp'[p]} ELSE owners[j]
      BY <2>1, <2>2 DEF owners
    <2>4. owners' = [owners EXCEPT ![qarg[p]] = {qp'[p]}]
      BY <2>3, OwnersTyped
    <2>. QED
      BY <2>1, <2>2, <2>4 DEF FairMutex!HandOver, owners
  <1>5. ASSUME NEW p \in Procs, QUnlockFree(p), UNCHANGED held
        PROVE  FairMutex!Release(qarg[p]) /\ qarg[p] \in QLocks
    <2>1. /\ qarg[p] \in QLocks /\ queue[qarg[p]] = <<>> /\ UNCHANGED queue
          /\ Owns(p, qarg[p])
          /\ \A q \in Procs, j \in QLocks :
               Owns(q, j)' <=> Owns(q, j) /\ ~(q = p /\ j = qarg[p])
      BY <1>5, OwnerFreed
    <2>2. owners[qarg[p]] = {p}
      BY <2>1, OwnersOf
    <2>3. \A j \in QLocks : owners'[j] = IF j = qarg[p] THEN {} ELSE owners[j]
      BY <2>1, <2>2 DEF owners
    <2>4. owners' = [owners EXCEPT ![qarg[p]] = {}]
      BY <2>3, OwnersTyped
    <2>. QED
      BY <2>1, <2>2, <2>4 DEF FairMutex!Release, owners
  <1>6. ASSUME NEW p \in Procs,
               \/ QLockWoken(p) /\ held' = [held EXCEPT ![p] = @ \cup {qarg[p]}]
               \/ /\ \/ QLockUse(p) \/ CanQLockUse(p) \/ CanQLockBusy(p) \/ CanQLockFail(p)
                     \/ QUnlockUse(p) \/ QUnlockReady(p)
                  /\ UNCHANGED held
               \/ \E k \in QLocks : Lock(p, k) \/ Unlock(p, k)
        PROVE  UNCHANGED <<owners, queue>>
    <2>1. UNCHANGED queue /\ \A q \in Procs, j \in QLocks : Owns(q, j)' <=> Owns(q, j)
      BY <1>6, OwnerSame
    <2>. QED
      BY <1>1, <2>1
  <1>7. CASE UNCHANGED clientvars
    <2>1. UNCHANGED <<queue, qarg, qpc, held>>
      BY <1>7 DEF clientvars, qvars
    <2>2. \A q \in Procs, j \in QLocks : Owns(q, j)' <=> Owns(q, j)
      BY <2>1, SameQueue DEF Owns, Granted
    <2>. QED
      BY <1>1, <2>1, <2>2
  <1>. QED
    BY <1>2, <1>3, <1>4, <1>5, <1>6, <1>7 DEF ClientsNext, Get, Other, QGot, QOther

\* Every behaviour of qlock, canqlock and qunlock, seen through its owners and
\* queues, is one of the first-come-first-served mutex.
THEOREM ImplementsFairMutex == ClientsSpec => FairMutexSpec
  <1>1. ClientsInit => FairMutex!Init
    <2>. SUFFICES ASSUME ClientsInit PROVE FairMutex!Init
      OBVIOUS
    <2>1. \A p \in Procs, k \in QLocks : ~Owns(p, k)
      BY QLockAssumption DEF ClientsInit, QInit, Owns, Granted
    <2>. QED
      BY <2>1 DEF ClientsInit, QInit, FairMutex!Init
  <1>2. ClientsInv /\ [ClientsNext]_clientvars => [FairMutex!Next]_<<owners, queue>>
    BY FairMutexStep
  <1>. QED
    BY <1>1, <1>2, ClientsInductive, PTL DEF ClientsSpec, FairMutexSpec, FairMutex!Spec, owners
=============================================================================

