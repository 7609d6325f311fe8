----------------------------- MODULE SchedProofs -----------------------------
(***************************************************************************)
(* Proofs about Sched for every set of processes and progs: the VM has at  *)
(* most one holder, a process to run it is on its way when it has none,    *)
(* such processes are at most two more than the progs, and the head of the *)
(* run queue is what the process with the VM takes it for.                 *)
(***************************************************************************)
EXTENDS Sched, QueueFacts, FiniteSetTheorems

\* The two kinds of kernel process of the model are processes.
LEMMA ProcKinds == VProcs \subseteq Procs /\ KProcs \subseteq Procs
  BY DEF Procs

-----------------------------------------------------------------------------
(* The VM lock.                                                            *)

AwayPC == {"relready", "newvm", "host", "wakeirend", "acqblock", "restore"}
WaitPC == {"wakeirend", "acqblock"}
IdlePC == {"parked", "yready", "yielded"}
GivePC == {"yready", "relready"}
Rets == {"nowhere", "resume", "exited", "failed", "gcidle", "gcbusy", "kproc_vm"}

VMTypeOK ==
  /\ pc \in [Procs -> VMPC \cup OtherPC]
  /\ ret \in [Procs -> Rets]
  /\ q \in [Procs -> Procs \cup {NoProc}]
  /\ sem \in [Procs -> {0, 1}]
  /\ idle \in BOOLEAN /\ creating \in BOOLEAN
  /\ vmq \in Seq(Procs) /\ idlevmq \in Seq(VProcs)
  /\ rp \in Procs \cup {NoProc} /\ rl \in Procs \cup {NoProc}

\* HasVM, with membership of the queues as the facts about queues have it.
Holds(p) ==
  \/ pc[p] \in VMPC
  \/ pc[p] \in WaitPC /\ ~In(p, vmq)
  \/ pc[p] \in {"parked", "yielded"} /\ ~In(p, idlevmq)

\* A process waits on a queue once, and only at the control points that wait.
QueueInv ==
  /\ Distinct(vmq) /\ \A p \in Procs : In(p, vmq) => pc[p] \in WaitPC
  /\ Distinct(idlevmq) /\ \A p \in Procs : In(p, idlevmq) => pc[p] \in IdlePC

HolderInv ==
  /\ \A p1, p2 \in Procs : Holds(p1) /\ Holds(p2) => p1 = p2
  /\ idle <=> \A p \in Procs : ~Holds(p)

\* One process at a time gives the VM, to one that has it and sleeps on.
GiveInv ==
  \A p \in Procs : pc[p] \in GivePC =>
    /\ q[p] \in Procs /\ Holds(q[p]) /\ pc[q[p]] \notin VMPC /\ sem[q[p]] = 0
    /\ pc[p] = "yready" => In(p, idlevmq)
    /\ \A p2 \in Procs : pc[p2] \in GivePC => p2 = p

\* A semaphore is up only for a process that was given the VM or woken on irend.
SemInv ==
  \A p \in Procs : sem[p] # 0 =>
    \/ Holds(p) /\ pc[p] \notin VMPC
    \/ pc[p] = "asleep" /\ rp # p

RpInv == rp # NoProc => pc[rp] = "asleep" /\ sem[rp] = 0

RetInv == \A p \in Procs : pc[p] \in AwayPC => ret[p] # "nowhere"

VMInv == VMTypeOK /\ QueueInv /\ HolderInv /\ GiveInv /\ SemInv /\ RpInv /\ RetInv

\* Who is counted as a holder has the VM.
LEMMA HoldsIsHasVM == VMTypeOK => \A p \in Procs : Holds(p) <=> HasVM(p)
  <1>. SUFFICES ASSUME VMTypeOK, NEW p \in Procs PROVE Holds(p) <=> HasVM(p)
    OBVIOUS
  <1>1. p \in ToSet(vmq) <=> In(p, vmq)
    BY InToSet DEF VMTypeOK
  <1>2. p \in ToSet(idlevmq) <=> In(p, idlevmq)
    BY InToSet DEF VMTypeOK
  <1>. QED
    BY <1>1, <1>2 DEF Holds, HasVM, WaitPC

\* The initial states satisfy the VM lock's invariant.
LEMMA VMInit == Init => VMInv
  <1>. SUFFICES ASSUME Init PROVE VMInv
    OBVIOUS
  <1>. USE SchedAssumption
  <1>1. PICK b \in VProcs : pc = [p \in Procs |-> IF p = b THEN "startup" ELSE "off"]
    BY DEF Init
  <1>2. \A p \in Procs : pc[p] \in {"startup", "off"}
    BY <1>1
  <1>3. vmq = <<>> /\ idlevmq = <<>> /\ idle = TRUE /\ rp = NoProc /\ sem = [p \in Procs |-> 0]
        /\ creating = FALSE /\ rl = NoProc /\ q = [p \in Procs |-> NoProc]
    BY DEF Init
  <1>4. VMTypeOK
    <2>1. pc \in [Procs -> VMPC \cup OtherPC]
      BY <1>1 DEF OtherPC
    <2>2. ret \in [Procs -> Rets]
      BY DEF Init, Rets
    <2>3. q \in [Procs -> Procs \cup {NoProc}] /\ sem \in [Procs -> {0, 1}]
      BY <1>3
    <2>4. vmq \in Seq(Procs) /\ idlevmq \in Seq(VProcs)
      BY <1>3
    <2>. QED
      BY <2>1, <2>2, <2>3, <2>4, <1>3 DEF VMTypeOK
  <1>5. \A p \in Procs : ~Holds(p)
    BY <1>2 DEF Holds, VMPC, WaitPC
  <1>6. QueueInv
    BY <1>3, EmptyIn DEF QueueInv, Distinct
  <1>7. HolderInv
    BY <1>3, <1>5 DEF HolderInv
  <1>8. GiveInv /\ SemInv /\ RpInv /\ RetInv
    BY <1>2, <1>3 DEF GiveInv, SemInv, RpInv, RetInv, GivePC, AwayPC
  <1>. QED
    BY <1>4, <1>6, <1>7, <1>8 DEF VMInv

\* A step of the process with the VM that neither gives it away nor waits for it,
\* except on irend, leaves the lock as it is.
LEMMA QuietStep ==
  ASSUME VMInv, NEW p \in Procs, NEW b \in VMPC \ {"restore"},
         pc[p] \in VMPC \ {"asleep"}, pc' = [pc EXCEPT ![p] = b],
         UNCHANGED <<q, sem, vmvars>>,
         rp' = IF b = "asleep" THEN p ELSE rp, rl' \in Procs \cup {NoProc},
         ret' \in {ret, [ret EXCEPT ![p] = "nowhere"]},
         pc[p] # "restore" => ret' = ret
  PROVE  VMInv'
  <1>1. \A x \in Procs \ {p} : pc'[x] = pc[x]
    BY DEF VMInv, VMTypeOK
  <1>2. pc'[p] = b /\ b \in VMPC /\ b # "restore"
    BY DEF VMInv, VMTypeOK
  <1>3. UNCHANGED <<q, sem, idle, creating, vmq, idlevmq>>
    BY DEF vmvars
  <1>4. \A x \in Procs : Holds(x)' <=> Holds(x)
    BY <1>1, <1>2, <1>3 DEF Holds
  <1>5. Holds(p)
    BY DEF Holds
  <1>6. sem[p] = 0 /\ rp # p
    BY SchedAssumption DEF VMInv, SemInv, RpInv, VMTypeOK
  <1>c1. VMTypeOK'
    <2>1. pc' \in [Procs -> VMPC \cup OtherPC]
      BY DEF VMInv, VMTypeOK
    <2>2. ret' \in [Procs -> Rets]
      BY DEF VMInv, VMTypeOK, Rets
    <2>. QED
      BY <1>3, <2>1, <2>2 DEF VMInv, VMTypeOK
  <1>c2. QueueInv'
    BY <1>1, <1>2, <1>3 DEF VMInv, QueueInv, WaitPC, IdlePC, VMPC
  <1>c3. HolderInv'
    BY <1>3, <1>4 DEF VMInv, HolderInv
  <1>c4. GiveInv'
    BY <1>1, <1>2, <1>3, <1>4, <1>5 DEF VMInv, GiveInv, HolderInv, GivePC, VMPC
  <1>c5. SemInv'
    BY <1>1, <1>2, <1>3, <1>4, <1>6 DEF VMInv, SemInv
  <1>c6. RpInv'
    BY <1>1, <1>2, <1>3, <1>6 DEF VMInv, RpInv, VMTypeOK
  <1>c7. RetInv'
    BY <1>1, <1>2, <1>3 DEF VMInv, RetInv, AwayPC, VMPC, VMTypeOK
  <1>. QED
    BY <1>c1, <1>c2, <1>c3, <1>c4, <1>c5, <1>c6, <1>c7 DEF VMInv

\* The steps that change who has the VM, who waits for it, or who is woken.

\* startup keeps the VM lock's invariant.
LEMMA StartupStep == ASSUME VMInv, NEW p \in VProcs, startup(p) PROVE VMInv'
  <1>1. /\ p \in Procs /\ pc[p] = "startup"
        /\ UNCHANGED <<ret, q, sem, vmq, rp, rl>> /\ creating' = FALSE
    BY ProcKinds DEF startup
  <1>2. ~Holds(p) /\ sem[p] = 0 /\ rp # p /\ ~In(p, idlevmq)
    BY <1>1, SchedAssumption
    DEF VMInv, VMTypeOK, QueueInv, SemInv, RpInv, Holds, VMPC, WaitPC, IdlePC
  <1>3. CASE idle
    <2>1. idle' = FALSE /\ pc' = [pc EXCEPT ![p] = "loop"] /\ idlevmq' = idlevmq
      BY <1>3 DEF startup
    <2>2. pc'[p] = "loop" /\ \A x \in Procs \ {p} : pc'[x] = pc[x]
      BY <1>1, <2>1 DEF VMInv, VMTypeOK
    <2>3. \A x \in Procs : Holds(x)' <=> x = p
      BY <1>1, <1>3, <2>1, <2>2 DEF VMInv, HolderInv, Holds, VMPC
    <2>4. \A x \in Procs : ~Holds(x)
      BY <1>3 DEF VMInv, HolderInv
    <2>c1. VMTypeOK'
      BY <1>1, <2>1, ProcKinds DEF VMInv, VMTypeOK, VMPC
    <2>c2. QueueInv'
      BY <1>1, <2>1, <2>2 DEF VMInv, QueueInv, WaitPC, IdlePC
    <2>c3. HolderInv'
      BY <1>1, <2>1, <2>3 DEF HolderInv
    <2>c4. GiveInv'
      BY <1>1, <2>1, <2>2, <2>4 DEF VMInv, GiveInv, GivePC
    <2>c5. SemInv'
      BY <1>1, <1>2, <2>1, <2>2, <2>4 DEF VMInv, SemInv
    <2>c6. RpInv'
      BY <1>1, <1>2, <2>1, <2>2 DEF VMInv, RpInv, VMTypeOK
    <2>c7. RetInv'
      BY <1>1, <2>1, <2>2 DEF VMInv, RetInv, AwayPC
    <2>. QED
      BY <2>c1, <2>c2, <2>c3, <2>c4, <2>c5, <2>c6, <2>c7 DEF VMInv
  <1>4. CASE ~idle
    <2>1. idle' = idle /\ pc' = [pc EXCEPT ![p] = "parked"] /\ idlevmq' = <<p>> \o idlevmq
      BY <1>4 DEF startup
    <2>2. pc'[p] = "parked" /\ \A x \in Procs \ {p} : pc'[x] = pc[x]
      BY <1>1, <2>1 DEF VMInv, VMTypeOK
    <2>3. /\ idlevmq' \in Seq(VProcs) /\ Distinct(idlevmq')
          /\ \A x : In(x, idlevmq') <=> x = p \/ In(x, idlevmq)
      BY <1>2, <2>1, ConsIn DEF VMInv, VMTypeOK, QueueInv
    <2>4. \A x \in Procs : Holds(x)' <=> Holds(x)
      BY <1>1, <1>2, <2>2, <2>3 DEF Holds, VMPC, WaitPC
    <2>c1. VMTypeOK'
      BY <1>1, <2>1, <2>3, ProcKinds DEF VMInv, VMTypeOK, OtherPC
    <2>c2. QueueInv'
      BY <1>1, <2>2, <2>3 DEF VMInv, QueueInv, WaitPC, IdlePC
    <2>c3. HolderInv'
      BY <1>1, <2>1, <2>4 DEF VMInv, HolderInv
    <2>c4. GiveInv'
      BY <1>1, <1>2, <2>2, <2>3, <2>4 DEF VMInv, GiveInv, GivePC
    <2>c5. SemInv'
      BY <1>1, <1>2, <2>2, <2>4 DEF VMInv, SemInv
    <2>c6. RpInv'
      BY <1>1, <1>2, <2>2 DEF VMInv, RpInv, VMTypeOK
    <2>c7. RetInv'
      BY <1>1, <2>2 DEF VMInv, RetInv, AwayPC
    <2>. QED
      BY <2>c1, <2>c2, <2>c3, <2>c4, <2>c5, <2>c6, <2>c7 DEF VMInv
  <1>. QED
    BY <1>3, <1>4

\* Who sleeps on its semaphore goes on.
LEMMA SemacquireStep ==
  ASSUME VMInv, NEW p \in Procs, NEW b \in VMPC \ {"asleep"},
         pc[p] \in {"parked", "yielded", "asleep", "acqblock"},
         b = "restore" => pc[p] = "acqblock",
         pc' = [pc EXCEPT ![p] = b], Semacquire(p),
         UNCHANGED <<ret, q, vmvars, rp, rl>>
  PROVE  VMInv'
  <1>1. UNCHANGED <<ret, q, idle, creating, vmq, idlevmq, rp, rl>>
    BY DEF vmvars
  <1>2. pc'[p] = b /\ \A x \in Procs \ {p} : pc'[x] = pc[x]
    BY DEF VMInv, VMTypeOK
  <1>3. sem[p] = 1 /\ sem'[p] = 0 /\ \A x \in Procs \ {p} : sem'[x] = sem[x]
    BY DEF VMInv, VMTypeOK, Semacquire
  <1>4. Holds(p) /\ rp # p
    BY <1>3, SchedAssumption DEF VMInv, SemInv, RpInv, VMTypeOK, Holds, VMPC
  <1>5. \A x \in Procs : Holds(x)' <=> Holds(x)
    BY <1>1, <1>2, <1>4 DEF Holds
  <1>6. ~In(p, vmq) /\ ~In(p, idlevmq)
    BY <1>4 DEF VMInv, QueueInv, Holds, WaitPC, IdlePC, VMPC
  <1>c1. VMTypeOK'
    <2>1. sem' \in [Procs -> {0, 1}]
      BY <1>3 DEF VMInv, VMTypeOK, Semacquire
    <2>2. pc' \in [Procs -> VMPC \cup OtherPC]
      BY DEF VMInv, VMTypeOK
    <2>. QED
      BY <1>1, <2>1, <2>2 DEF VMInv, VMTypeOK
  <1>c2. QueueInv'
    BY <1>1, <1>2, <1>6 DEF VMInv, QueueInv
  <1>c3. HolderInv'
    BY <1>1, <1>5 DEF VMInv, HolderInv
  <1>c4. GiveInv'
    <2>1. \A x \in Procs : pc[x] \notin GivePC
      BY <1>3, <1>4 DEF VMInv, GiveInv, HolderInv
    <2>. QED
      BY <1>2, <2>1 DEF GiveInv, GivePC, VMPC
  <1>c5. SemInv'
    BY <1>1, <1>2, <1>3, <1>5 DEF VMInv, SemInv
  <1>c6. RpInv'
    BY <1>1, <1>2, <1>3, <1>4 DEF VMInv, RpInv, VMTypeOK
  <1>c7. RetInv'
    BY <1>1, <1>2 DEF VMInv, RetInv, AwayPC, VMPC
  <1>. QED
    BY <1>c1, <1>c2, <1>c3, <1>c4, <1>c5, <1>c6, <1>c7 DEF VMInv

\* iyield keeps the VM lock's invariant.
LEMMA iyieldStep == ASSUME VMInv, NEW p \in VProcs, iyield(p) PROVE VMInv'
  <1>. DEFINE h == Head(vmq)
  <1>1. /\ p \in Procs /\ pc[p] = "iyield" /\ pc' = [pc EXCEPT ![p] = "yready"] /\ vmq # <<>>
        /\ q' = [q EXCEPT ![p] = h] /\ vmq' = Tail(vmq) /\ idlevmq' = <<p>> \o idlevmq
        /\ UNCHANGED <<ret, sem, idle, creating, rp, rl>>
    BY ProcKinds DEF iyield, Goto
  <1>2. pc'[p] = "yready" /\ \A x \in Procs \ {p} : pc'[x] = pc[x]
    BY <1>1 DEF VMInv, VMTypeOK
  <1>3. /\ h \in Procs /\ vmq' \in Seq(Procs) /\ Distinct(vmq') /\ In(h, vmq)
        /\ \A x : In(x, vmq') <=> x # h /\ In(x, vmq)
    BY <1>1, TailIn DEF VMInv, VMTypeOK, QueueInv
  <1>. HIDE DEF h
  <1>4. h # p /\ pc[h] \in WaitPC /\ ~In(p, vmq) /\ ~In(p, idlevmq)
    BY <1>1, <1>3 DEF VMInv, QueueInv, WaitPC, IdlePC
  <1>5. /\ idlevmq' \in Seq(VProcs) /\ Distinct(idlevmq')
        /\ \A x : In(x, idlevmq') <=> x = p \/ In(x, idlevmq)
    BY <1>1, <1>4, ConsIn DEF VMInv, VMTypeOK, QueueInv
  <1>6. Holds(p) /\ ~Holds(h) /\ \A x \in Procs : Holds(x) => x = p
    BY <1>1, <1>3, <1>4 DEF VMInv, HolderInv, Holds, VMPC, WaitPC
  <1>7. \A x \in Procs : Holds(x)' <=> x = h
    BY <1>1, <1>2, <1>3, <1>4, <1>5, <1>6 DEF Holds, VMPC, WaitPC
  <1>8. sem[h] = 0 /\ rp = NoProc
    BY <1>1, <1>3, <1>4, <1>6 DEF VMInv, SemInv, RpInv, VMTypeOK, Holds, VMPC, WaitPC
  <1>9. q'[p] = h /\ \A x \in Procs : pc[x] \notin GivePC
    <2>1. q'[p] = h
      BY <1>1 DEF VMInv, VMTypeOK
    <2>2. \A x \in Procs : pc[x] \notin GivePC
      BY <1>1, <1>6 DEF VMInv, GiveInv, Holds, VMPC
    <2>. QED
      BY <2>1, <2>2
  <1>c1. VMTypeOK'
    BY <1>1, <1>3, <1>5 DEF VMInv, VMTypeOK, OtherPC
  <1>c2. QueueInv'
    BY <1>2, <1>3, <1>4, <1>5 DEF VMInv, QueueInv, WaitPC, IdlePC
  <1>c3. HolderInv'
    BY <1>1, <1>3, <1>6, <1>7 DEF VMInv, HolderInv
  <1>c4. GiveInv'
    BY <1>1, <1>2, <1>3, <1>4, <1>5, <1>7, <1>8, <1>9 DEF GiveInv, GivePC, VMPC, WaitPC
  <1>c5. SemInv'
    BY <1>1, <1>2, <1>4, <1>6, <1>8 DEF VMInv, SemInv, VMTypeOK, Holds, VMPC
  <1>c6. RpInv'
    BY <1>1, <1>8 DEF RpInv
  <1>c7. RetInv'
    BY <1>1, <1>2 DEF VMInv, RetInv, AwayPC
  <1>. QED
    BY <1>c1, <1>c2, <1>c3, <1>c4, <1>c5, <1>c6, <1>c7 DEF VMInv

\* osready keeps the VM lock's invariant.
LEMMA ReadyStep == ASSUME VMInv, NEW p \in Procs, Ready(p) PROVE VMInv'
  <1>. DEFINE h == q[p]
  <1>1. PICK b \in {"yielded", "host"} :
          /\ pc[p] = IF b = "yielded" THEN "yready" ELSE "relready"
          /\ pc' = [pc EXCEPT ![p] = b]
    BY DEF Ready, Goto
  <1>2. /\ sem' = [sem EXCEPT ![h] = @ + 1] /\ q' = [q EXCEPT ![p] = NoProc]
        /\ UNCHANGED <<ret, idle, creating, vmq, idlevmq, rp, rl>>
    BY DEF Ready, vmvars
  <1>3. pc'[p] = b /\ \A x \in Procs \ {p} : pc'[x] = pc[x]
    BY <1>1 DEF VMInv, VMTypeOK
  <1>4. /\ h \in Procs /\ Holds(h) /\ pc[h] \notin VMPC /\ sem[h] = 0 /\ h # p
        /\ \A x \in Procs : pc[x] \in GivePC => x = p
    BY <1>1 DEF VMInv, GiveInv, GivePC, Holds, VMPC, WaitPC
  <1>. HIDE DEF h
  <1>5. sem'[h] = 1 /\ \A x \in Procs \ {h} : sem'[x] = sem[x]
    BY <1>2, <1>4 DEF VMInv, VMTypeOK
  <1>6. ~Holds(p) /\ pc[p] \notin VMPC
    BY <1>4, <1>1 DEF VMInv, HolderInv, VMPC
  <1>7. \A x \in Procs : Holds(x)' <=> Holds(x)
    <2>1. ~Holds(p)'
      <3>1. CASE b = "host"
        BY <3>1, <1>3 DEF Holds, VMPC, WaitPC
      <3>2. CASE b = "yielded"
        <4>1. In(p, idlevmq)
          BY <3>2, <1>1 DEF VMInv, GiveInv, GivePC
        <4>. QED
          BY <3>2, <4>1, <1>2, <1>3 DEF Holds, VMPC, WaitPC
      <3>. QED
        BY <3>1, <3>2
    <2>. QED
      BY <2>1, <1>2, <1>3, <1>6 DEF Holds
  <1>c1. VMTypeOK'
    BY <1>1, <1>2, <1>4 DEF VMInv, VMTypeOK, OtherPC
  <1>c2. QueueInv'
    BY <1>1, <1>2, <1>3 DEF VMInv, QueueInv, WaitPC, IdlePC
  <1>c3. HolderInv'
    BY <1>2, <1>7 DEF VMInv, HolderInv
  <1>c4. GiveInv'
    BY <1>1, <1>3, <1>4 DEF GiveInv, GivePC
  <1>c5. SemInv'
    BY <1>1, <1>2, <1>3, <1>4, <1>5, <1>6, <1>7 DEF VMInv, SemInv
  <1>c6. RpInv'
    BY <1>1, <1>2, <1>3, <1>4, <1>5 DEF VMInv, RpInv, VMTypeOK, VMPC
  <1>c7. RetInv'
    BY <1>1, <1>2, <1>3 DEF VMInv, RetInv, AwayPC
  <1>. QED
    BY <1>c1, <1>c2, <1>c3, <1>c4, <1>c5, <1>c6, <1>c7 DEF VMInv

RunPC == {"quantum", "resume", "failed", "gcidle", "gcbusy", "kproc_vm"}

\* release keeps the VM lock's invariant.
LEMMA releaseStep ==
  ASSUME VMInv, NEW p \in Procs, pc[p] \in RunPC, NEW r \in Rets \ {"nowhere"}, NEW dtor,
         release(p, r, dtor)
  PROVE  VMInv'
  <1>1. ret' = [ret EXCEPT ![p] = r] /\ UNCHANGED <<sem, rp, rl>>
    BY DEF release
  <1>2. /\ pc[p] \in VMPC /\ Holds(p) /\ (\A x \in Procs : Holds(x) => x = p)
        /\ ~In(p, vmq) /\ ~In(p, idlevmq) /\ idle = FALSE
    BY DEF VMInv, VMTypeOK, HolderInv, QueueInv, Holds, RunPC, VMPC, WaitPC, IdlePC
  <1>3. rp = NoProc /\ sem[p] = 0
    BY <1>2 DEF VMInv, SemInv, RpInv, VMTypeOK, Holds, RunPC, VMPC
  <1>4. \A x \in Procs : pc[x] \notin GivePC
    BY <1>2 DEF VMInv, GiveInv, HolderInv
  <1>5. ret' \in [Procs -> Rets] /\ ret'[p] = r /\ \A x \in Procs \ {p} : ret'[x] = ret[x]
    BY <1>1 DEF VMInv, VMTypeOK
  <1>6. ASSUME NEW h \in Procs, h # p, q' = [q EXCEPT ![p] = h],
               pc' = [pc EXCEPT ![p] = "relready"], UNCHANGED <<idle, creating>>,
               vmq' \in Seq(Procs), Distinct(vmq'), idlevmq' \in Seq(VProcs), Distinct(idlevmq'),
               \/ /\ pc[h] \in WaitPC /\ \A x : In(x, vmq') <=> x # h /\ In(x, vmq)
                  /\ idlevmq' = idlevmq /\ In(h, vmq)
               \/ /\ pc[h] \in IdlePC /\ \A x : In(x, idlevmq') <=> x # h /\ In(x, idlevmq)
                  /\ vmq' = vmq /\ In(h, idlevmq)
        PROVE  VMInv'
    <2>1. pc'[p] = "relready" /\ \A x \in Procs \ {p} : pc'[x] = pc[x]
      BY <1>6 DEF VMInv, VMTypeOK
    <2>2. q'[p] = h
      BY <1>6 DEF VMInv, VMTypeOK
    <2>3. \A x \in Procs : Holds(x)' <=> x = h
      <3>1. ~Holds(p)'
        BY <2>1 DEF Holds, VMPC, WaitPC
      <3>2. Holds(h)'
        BY <1>4, <1>6, <2>1 DEF Holds, WaitPC, IdlePC, GivePC
      <3>3. \A x \in Procs \ {p, h} : Holds(x)' <=> Holds(x)
        BY <1>6, <2>1 DEF Holds
      <3>. QED
        BY <1>2, <3>1, <3>2, <3>3
    <2>4. sem[h] = 0 /\ ~Holds(h)
      BY <1>2, <1>3, <1>6 DEF VMInv, SemInv, Holds, VMTypeOK, WaitPC, IdlePC
    <2>c1. VMTypeOK'
      BY <1>1, <1>5, <1>6 DEF VMInv, VMTypeOK, OtherPC
    <2>c2. QueueInv'
      BY <1>2, <1>6, <2>1 DEF VMInv, QueueInv
    <2>c3. HolderInv'
      BY <1>2, <1>6, <2>3 DEF HolderInv
    <2>c4. GiveInv'
      BY <1>1, <1>4, <1>6, <2>1, <2>2, <2>3, <2>4 DEF GiveInv, GivePC, VMPC, WaitPC, IdlePC
    <2>c5. SemInv'
      BY <1>1, <1>2, <1>3, <2>1 DEF VMInv, SemInv, VMTypeOK, Holds
    <2>c6. RpInv'
      BY <1>1, <1>3 DEF RpInv
    <2>c7. RetInv'
      BY <1>5, <2>1 DEF VMInv, RetInv
    <2>. QED
      BY <2>c1, <2>c2, <2>c3, <2>c4, <2>c5, <2>c6, <2>c7 DEF VMInv
  <1>7. CASE vmq # <<>>
    <2>1. /\ q' = [q EXCEPT ![p] = Head(vmq)] /\ vmq' = Tail(vmq)
          /\ pc' = [pc EXCEPT ![p] = "relready"] /\ UNCHANGED <<idle, creating, idlevmq>>
      BY <1>7 DEF release
    <2>2. /\ Head(vmq) \in Procs /\ vmq' \in Seq(Procs) /\ Distinct(vmq') /\ In(Head(vmq), vmq)
          /\ \A x : In(x, vmq') <=> x # Head(vmq) /\ In(x, vmq)
      BY <1>7, <2>1, TailIn DEF VMInv, VMTypeOK, QueueInv
    <2>3. pc[Head(vmq)] \in WaitPC /\ Head(vmq) # p
      BY <1>2, <2>2 DEF VMInv, QueueInv
    <2>4. idlevmq' \in Seq(VProcs) /\ Distinct(idlevmq')
      BY <2>1 DEF VMInv, VMTypeOK, QueueInv
    <2>. QED
      BY <1>6, <2>1, <2>2, <2>3, <2>4
  <1>8. CASE vmq = <<>> /\ idlevmq # <<>>
    <2>1. /\ q' = [q EXCEPT ![p] = Head(idlevmq)] /\ idlevmq' = Tail(idlevmq)
          /\ pc' = [pc EXCEPT ![p] = "relready"] /\ UNCHANGED <<idle, creating, vmq>>
      BY <1>8 DEF release
    <2>2. /\ Head(idlevmq) \in Procs /\ idlevmq' \in Seq(VProcs) /\ Distinct(idlevmq')
          /\ In(Head(idlevmq), idlevmq)
          /\ \A x : In(x, idlevmq') <=> x # Head(idlevmq) /\ In(x, idlevmq)
      BY <1>8, <2>1, TailIn, ProcKinds DEF VMInv, VMTypeOK, QueueInv
    <2>3. pc[Head(idlevmq)] \in IdlePC /\ Head(idlevmq) # p
      BY <1>2, <2>2 DEF VMInv, QueueInv
    <2>4. vmq' \in Seq(Procs) /\ Distinct(vmq')
      BY <2>1 DEF VMInv, VMTypeOK, QueueInv
    <2>. QED
      BY <1>6, <2>1, <2>2, <2>3, <2>4
  <1>9. CASE vmq = <<>> /\ idlevmq = <<>>
    <2>1. PICK b \in {"host", "newvm"} : pc' = [pc EXCEPT ![p] = b]
      BY <1>9 DEF release
    <2>2. idle' = TRUE /\ creating' = TRUE /\ UNCHANGED <<q, vmq, idlevmq>>
      BY <1>9 DEF release
    <2>3. pc'[p] = b /\ \A x \in Procs \ {p} : pc'[x] = pc[x]
      BY <2>1 DEF VMInv, VMTypeOK
    <2>4. \A x \in Procs : ~Holds(x)'
      BY <1>2, <2>2, <2>3 DEF Holds, VMPC, WaitPC
    <2>c1. VMTypeOK'
      BY <1>1, <1>5, <2>1, <2>2 DEF VMInv, VMTypeOK, OtherPC
    <2>c2. QueueInv'
      BY <1>2, <2>2, <2>3 DEF VMInv, QueueInv
    <2>c3. HolderInv'
      BY <2>2, <2>4 DEF HolderInv
    <2>c4. GiveInv'
      BY <1>4, <2>3 DEF GiveInv, GivePC
    <2>c5. SemInv'
      BY <1>1, <1>2, <1>3, <2>3 DEF VMInv, SemInv, VMTypeOK, Holds
    <2>c6. RpInv'
      BY <1>1, <1>3 DEF RpInv
    <2>c7. RetInv'
      BY <1>5, <2>3 DEF VMInv, RetInv
    <2>. QED
      BY <2>c1, <2>c2, <2>c3, <2>c4, <2>c5, <2>c6, <2>c7 DEF VMInv
  <1>. QED
    BY <1>7, <1>8, <1>9

\* A process starts, or goes on, outside the VM.
LEMMA OutsideStep ==
  ASSUME VMInv, NEW p \in Procs, NEW k \in Procs, NEW b \in {"host", "startup"},
         pc[p] = "newvm" \/ pc[p] = "quantum", pc[k] = "off",
         pc' = IF pc[p] = "newvm" THEN [pc EXCEPT ![p] = "host", ![k] = b] ELSE [pc EXCEPT ![k] = b],
         ret' = IF b = "host" THEN [ret EXCEPT ![k] = "kproc_vm"] ELSE ret,
         UNCHANGED <<q, sem, vmvars, rp, rl>>
  PROVE  VMInv'
  <1>1. UNCHANGED <<q, sem, idle, creating, vmq, idlevmq, rp, rl>>
    BY DEF vmvars
  <1>2. /\ pc'[k] = b /\ \A x \in Procs \ {p, k} : pc'[x] = pc[x]
        /\ pc'[p] = IF pc[p] = "newvm" THEN "host" ELSE pc[p]
    BY DEF VMInv, VMTypeOK
  <1>3. pc' \in [Procs -> VMPC \cup OtherPC]
    BY DEF VMInv, VMTypeOK, OtherPC
  <1>4. /\ ret' \in [Procs -> Rets] /\ \A x \in Procs \ {k} : ret'[x] = ret[x]
        /\ b = "host" => ret'[k] = "kproc_vm"
    BY DEF VMInv, VMTypeOK, Rets
  <1>5. \A x \in Procs : pc[x] # pc'[x] => /\ pc[x] \in {"newvm", "off"} /\ pc'[x] \in {"host", "startup"}
                                           /\ ~Holds(x) /\ sem[x] = 0
    BY <1>2 DEF Holds, VMInv, VMTypeOK, SemInv, WaitPC, VMPC
  <1>6. \A x \in Procs : Holds(x)' <=> Holds(x)
    BY <1>1, <1>5 DEF Holds, VMPC, WaitPC
  <1>c1. VMTypeOK'
    BY <1>1, <1>3, <1>4 DEF VMInv, VMTypeOK
  <1>c2. QueueInv'
    BY <1>1, <1>5 DEF VMInv, QueueInv, WaitPC, IdlePC
  <1>c3. HolderInv'
    BY <1>1, <1>6 DEF VMInv, HolderInv
  <1>c4. GiveInv'
    <2>1. \A x \in Procs : pc'[x] \in GivePC \/ Holds(x) => pc'[x] = pc[x]
      BY <1>5 DEF GivePC
    <2>. QED
      BY <1>1, <1>6, <2>1 DEF VMInv, GiveInv
  <1>c5. SemInv'
    BY <1>1, <1>5, <1>6 DEF VMInv, SemInv
  <1>c6. RpInv'
    BY <1>1, <1>5 DEF VMInv, RpInv, VMTypeOK
  <1>c7. RetInv'
    BY <1>2, <1>4 DEF VMInv, RetInv, AwayPC
  <1>. QED
    BY <1>c1, <1>c2, <1>c3, <1>c4, <1>c5, <1>c6, <1>c7 DEF VMInv

\* acquire keeps the VM lock's invariant.
LEMMA acquireStep ==
  ASSUME VMInv, NEW p \in Procs, acquire(p), ret' \in {ret, [ret EXCEPT ![p] = "failed"]}
  PROVE  VMInv'
  <1>1. pc[p] = "host" /\ UNCHANGED <<q, sem, creating, idlevmq, rp, rl>>
    BY DEF acquire
  <1>2. /\ ret' \in [Procs -> Rets] /\ \A x \in Procs \ {p} : ret'[x] = ret[x]
        /\ ret'[p] # "nowhere"
    BY <1>1 DEF VMInv, VMTypeOK, RetInv, AwayPC, Rets
  <1>3. ~Holds(p) /\ ~In(p, vmq) /\ ~In(p, idlevmq) /\ sem[p] = 0 /\ rp # p
    BY <1>1, SchedAssumption
    DEF VMInv, VMTypeOK, QueueInv, SemInv, RpInv, Holds, VMPC, WaitPC, IdlePC
  <1>4. CASE idle
    <2>1. idle' = FALSE /\ pc' = [pc EXCEPT ![p] = "restore"] /\ vmq' = vmq
      BY <1>4 DEF acquire
    <2>2. pc'[p] = "restore" /\ \A x \in Procs \ {p} : pc'[x] = pc[x]
      BY <2>1 DEF VMInv, VMTypeOK
    <2>3. \A x \in Procs : ~Holds(x)
      BY <1>4 DEF VMInv, HolderInv
    <2>4. \A x \in Procs : Holds(x)' <=> x = p
      BY <1>1, <2>1, <2>2, <2>3 DEF Holds, VMPC
    <2>c1. VMTypeOK'
      BY <1>1, <1>2, <2>1 DEF VMInv, VMTypeOK, VMPC
    <2>c2. QueueInv'
      BY <1>1, <1>3, <2>1, <2>2 DEF VMInv, QueueInv
    <2>c3. HolderInv'
      BY <2>1, <2>4 DEF HolderInv
    <2>c4. GiveInv'
      BY <1>1, <2>2, <2>3 DEF VMInv, GiveInv, GivePC
    <2>c5. SemInv'
      BY <1>1, <1>3, <2>2, <2>3 DEF VMInv, SemInv
    <2>c6. RpInv'
      BY <1>1, <1>3, <2>2 DEF VMInv, RpInv, VMTypeOK
    <2>c7. RetInv'
      BY <1>2, <2>2 DEF VMInv, RetInv
    <2>. QED
      BY <2>c1, <2>c2, <2>c3, <2>c4, <2>c5, <2>c6, <2>c7 DEF VMInv
  <1>5. CASE ~idle
    <2>1. PICK b \in WaitPC : pc' = [pc EXCEPT ![p] = b]
      BY <1>5 DEF acquire, WaitPC
    <2>2. idle' = idle /\ vmq' = Append(vmq, p)
      BY <1>5 DEF acquire
    <2>3. pc'[p] = b /\ \A x \in Procs \ {p} : pc'[x] = pc[x]
      BY <2>1 DEF VMInv, VMTypeOK
    <2>4. /\ vmq' \in Seq(Procs) /\ Distinct(vmq')
          /\ \A x : In(x, vmq') <=> x = p \/ In(x, vmq)
      BY <1>3, <2>2, AppendIn DEF VMInv, VMTypeOK, QueueInv
    <2>5. \A x \in Procs : Holds(x)' <=> Holds(x)
      BY <1>1, <1>3, <2>3, <2>4 DEF Holds, VMPC, WaitPC
    <2>c1. VMTypeOK'
      BY <1>1, <1>2, <2>1, <2>2, <2>4 DEF VMInv, VMTypeOK, OtherPC, WaitPC
    <2>c2. QueueInv'
      BY <1>1, <1>3, <2>3, <2>4 DEF VMInv, QueueInv
    <2>c3. HolderInv'
      BY <2>2, <2>5 DEF VMInv, HolderInv
    <2>c4. GiveInv'
      BY <1>1, <1>3, <2>3, <2>5 DEF VMInv, GiveInv, GivePC, WaitPC
    <2>c5. SemInv'
      BY <1>1, <1>3, <2>3, <2>5 DEF VMInv, SemInv
    <2>c6. RpInv'
      BY <1>1, <1>3, <2>3 DEF VMInv, RpInv, VMTypeOK
    <2>c7. RetInv'
      BY <1>2, <2>3 DEF VMInv, RetInv
    <2>. QED
      BY <2>c1, <2>c2, <2>c3, <2>c4, <2>c5, <2>c6, <2>c7 DEF VMInv
  <1>. QED
    BY <1>4, <1>5

\* Waking irend keeps the VM lock's invariant.
LEMMA WakeIrendStep == ASSUME VMInv, NEW p \in Procs, WakeIrend(p) PROVE VMInv'
  <1>1. /\ pc[p] = "wakeirend" /\ pc' = [pc EXCEPT ![p] = "acqblock"] /\ rp' = NoProc
        /\ UNCHANGED <<ret, q, idle, creating, vmq, idlevmq, rl>>
        /\ sem' = [w \in Procs |-> IF w = rp THEN sem[w] + 1 ELSE sem[w]]
    BY DEF WakeIrend, Goto, vmvars
  <1>2. pc'[p] = "acqblock" /\ \A x \in Procs \ {p} : pc'[x] = pc[x]
    BY <1>1 DEF VMInv, VMTypeOK
  <1>3. \A x \in Procs : sem'[x] = IF x = rp THEN 1 ELSE sem[x]
    BY <1>1, SchedAssumption DEF VMInv, VMTypeOK, RpInv
  <1>4. \A x \in Procs : Holds(x)' <=> Holds(x)
    BY <1>1, <1>2 DEF Holds, VMPC, WaitPC
  <1>5. \A x \in Procs : x = rp => Holds(x) /\ x # p
    BY <1>1, SchedAssumption DEF VMInv, RpInv, Holds, VMPC
  <1>c1. VMTypeOK'
    <2>1. sem' \in [Procs -> {0, 1}]
      BY <1>1, <1>3 DEF VMInv, VMTypeOK
    <2>. QED
      BY <1>1, <2>1 DEF VMInv, VMTypeOK, OtherPC
  <1>c2. QueueInv'
    BY <1>1, <1>2 DEF VMInv, QueueInv, WaitPC, IdlePC
  <1>c3. HolderInv'
    BY <1>1, <1>4 DEF VMInv, HolderInv
  <1>c4. GiveInv'
    <2>1. \A x \in Procs : x = rp => pc[x] \in VMPC
      BY SchedAssumption DEF VMInv, RpInv, VMPC
    <2>2. \A x \in Procs : pc[x] \in GivePC => q[x] # rp
      BY <2>1 DEF VMInv, GiveInv
    <2>. QED
      BY <1>1, <1>2, <1>3, <1>4, <2>2 DEF VMInv, GiveInv, GivePC, VMPC
  <1>c5. SemInv'
    <2>1. ASSUME NEW x \in Procs, x = rp PROVE pc'[x] = "asleep" /\ rp' # x
      BY <1>1, <1>2, <1>5, <2>1, SchedAssumption DEF VMInv, RpInv
    <2>2. ASSUME NEW x \in Procs, x # rp, sem[x] # 0
          PROVE  \/ Holds(x)' /\ pc'[x] \notin VMPC
                 \/ pc'[x] = "asleep" /\ rp' # x
      BY <1>1, <1>2, <1>4, <2>2, SchedAssumption DEF VMInv, SemInv, VMPC
    <2>. QED
      BY <1>3, <2>1, <2>2 DEF SemInv
  <1>c6. RpInv'
    BY <1>1 DEF RpInv
  <1>c7. RetInv'
    BY <1>1, <1>2 DEF VMInv, RetInv, AwayPC
  <1>. QED
    BY <1>c1, <1>c2, <1>c3, <1>c4, <1>c5, <1>c6, <1>c7 DEF VMInv

\* Every step keeps the VM lock's invariant.
LEMMA VMNext == VMInv /\ [Next]_vars => VMInv'
  <1>. SUFFICES ASSUME VMInv PROVE [Next]_vars => VMInv'
    OBVIOUS
  <1>1. ASSUME NEW p \in VProcs, startup(p) PROVE VMInv'
    BY <1>1, StartupStep
  <1>2. ASSUME NEW p \in VProcs, Unpark(p) PROVE VMInv'
    <2>1. PICK b \in {"loop", "run"} :
            /\ pc[p] \in {"parked", "yielded"} /\ pc' = [pc EXCEPT ![p] = b]
            /\ Semacquire(p) /\ UNCHANGED <<ret, q, vmvars, rp, rl>>
      BY <1>2 DEF Unpark, Goto
    <2>2. b \in VMPC \ {"asleep"}
      BY DEF VMPC
    <2>. QED
      BY <2>1, <2>2, SemacquireStep, ProcKinds
  <1>3. ASSUME NEW p \in VProcs, Loop(p) PROVE VMInv'
    <2>1. PICK b \in {"yieldtest", "idlegc", "sleep"} :
            /\ pc[p] \in VMPC \ {"asleep", "restore"} /\ pc' = [pc EXCEPT ![p] = b]
            /\ UNCHANGED <<ret, q, sem, vmvars>> /\ rp' = IF b = "asleep" THEN p ELSE rp
            /\ rl' \in Procs \cup {NoProc}
      BY <1>3, ProcKinds DEF Loop, Goto, VMPC, VMInv, VMTypeOK
    <2>2. b \in VMPC \ {"restore"}
      BY DEF VMPC
    <2>. QED
      BY <2>1, <2>2, QuietStep, ProcKinds
  <1>4. ASSUME NEW p \in VProcs, IdleGC(p) PROVE VMInv'
    <2>1. PICK b \in {"gcidle"} :
            /\ pc[p] \in VMPC \ {"asleep", "restore"} /\ pc' = [pc EXCEPT ![p] = b]
            /\ UNCHANGED <<ret, q, sem, vmvars>> /\ rp' = IF b = "asleep" THEN p ELSE rp
            /\ rl' \in Procs \cup {NoProc}
      BY <1>4, ProcKinds DEF IdleGC, Goto, VMPC, VMInv, VMTypeOK
    <2>2. b \in VMPC \ {"restore"}
      BY DEF VMPC
    <2>. QED
      BY <2>1, <2>2, QuietStep, ProcKinds
  <1>5. ASSUME NEW p \in VProcs, BusyGC(p) PROVE VMInv'
    <2>1. PICK b \in {"gcbusy"} :
            /\ pc[p] \in VMPC \ {"asleep", "restore"} /\ pc' = [pc EXCEPT ![p] = b]
            /\ UNCHANGED <<ret, q, sem, vmvars>> /\ rp' = IF b = "asleep" THEN p ELSE rp
            /\ rl' \in Procs \cup {NoProc}
      BY <1>5, ProcKinds DEF BusyGC, Goto, VMPC, VMInv, VMTypeOK
    <2>2. b \in VMPC \ {"restore"}
      BY DEF VMPC
    <2>. QED
      BY <2>1, <2>2, QuietStep, ProcKinds
  <1>6. ASSUME NEW p \in VProcs, NoGC(p) PROVE VMInv'
    <2>1. PICK b \in {"loop"} :
            /\ pc[p] \in VMPC \ {"asleep", "restore"} /\ pc' = [pc EXCEPT ![p] = b]
            /\ UNCHANGED <<ret, q, sem, vmvars>> /\ rp' = IF b = "asleep" THEN p ELSE rp
            /\ rl' \in Procs \cup {NoProc}
      BY <1>6, ProcKinds DEF NoGC, Goto, VMPC, VMInv, VMTypeOK
    <2>2. b \in VMPC \ {"restore"}
      BY DEF VMPC
    <2>. QED
      BY <2>1, <2>2, QuietStep, ProcKinds
  <1>7. ASSUME NEW p \in VProcs, GCEnd(p) PROVE VMInv'
    <2>1. PICK b \in {"sleep", "loop"} :
            /\ pc[p] \in VMPC \ {"asleep", "restore"} /\ pc' = [pc EXCEPT ![p] = b]
            /\ UNCHANGED <<ret, q, sem, vmvars>> /\ rp' = IF b = "asleep" THEN p ELSE rp
            /\ rl' \in Procs \cup {NoProc}
      BY <1>7, ProcKinds DEF GCEnd, Goto, VMPC, VMInv, VMTypeOK
    <2>2. b \in VMPC \ {"restore"}
      BY DEF VMPC
    <2>. QED
      BY <2>1, <2>2, QuietStep, ProcKinds
  <1>8. ASSUME NEW p \in VProcs, SleepLock(p) PROVE VMInv'
    <2>1. PICK b \in {"sleeptest"} :
            /\ pc[p] \in VMPC \ {"asleep", "restore"} /\ pc' = [pc EXCEPT ![p] = b]
            /\ UNCHANGED <<ret, q, sem, vmvars>> /\ rp' = IF b = "asleep" THEN p ELSE rp
            /\ rl' \in Procs \cup {NoProc}
      BY <1>8, ProcKinds DEF SleepLock, Goto, VMPC, VMInv, VMTypeOK
    <2>2. b \in VMPC \ {"restore"}
      BY DEF VMPC
    <2>. QED
      BY <2>1, <2>2, QuietStep, ProcKinds
  <1>9. ASSUME NEW p \in VProcs, SleepReady(p) PROVE VMInv'
    <2>1. PICK b \in {"yieldtest"} :
            /\ pc[p] \in VMPC \ {"asleep", "restore"} /\ pc' = [pc EXCEPT ![p] = b]
            /\ UNCHANGED <<ret, q, sem, vmvars>> /\ rp' = IF b = "asleep" THEN p ELSE rp
            /\ rl' \in Procs \cup {NoProc}
      BY <1>9, ProcKinds DEF SleepReady, Goto, VMPC, VMInv, VMTypeOK
    <2>2. b \in VMPC \ {"restore"}
      BY DEF VMPC
    <2>. QED
      BY <2>1, <2>2, QuietStep, ProcKinds
  <1>10. ASSUME NEW p \in VProcs, SleepCommit(p) PROVE VMInv'
    <2>1. PICK b \in {"asleep"} :
            /\ pc[p] \in VMPC \ {"asleep", "restore"} /\ pc' = [pc EXCEPT ![p] = b]
            /\ UNCHANGED <<ret, q, sem, vmvars>> /\ rp' = IF b = "asleep" THEN p ELSE rp
            /\ rl' \in Procs \cup {NoProc}
      BY <1>10, ProcKinds DEF SleepCommit, Goto, VMPC, VMInv, VMTypeOK
    <2>2. b \in VMPC \ {"restore"}
      BY DEF VMPC
    <2>. QED
      BY <2>1, <2>2, QuietStep, ProcKinds
  <1>11. ASSUME NEW p \in VProcs, Awake(p) PROVE VMInv'
    <2>1. PICK b \in {"yieldtest"} :
            /\ pc[p] \in {"asleep"} /\ pc' = [pc EXCEPT ![p] = b]
            /\ Semacquire(p) /\ UNCHANGED <<ret, q, vmvars, rp, rl>>
      BY <1>11 DEF Awake, Goto
    <2>2. b \in VMPC \ {"asleep"}
      BY DEF VMPC
    <2>. QED
      BY <2>1, <2>2, SemacquireStep, ProcKinds
  <1>12. ASSUME NEW p \in VProcs, NoYield(p) PROVE VMInv'
    <2>1. PICK b \in {"run"} :
            /\ pc[p] \in VMPC \ {"asleep", "restore"} /\ pc' = [pc EXCEPT ![p] = b]
            /\ UNCHANGED <<ret, q, sem, vmvars>> /\ rp' = IF b = "asleep" THEN p ELSE rp
            /\ rl' \in Procs \cup {NoProc}
      BY <1>12, ProcKinds DEF NoYield, Goto, VMPC, VMInv, VMTypeOK
    <2>2. b \in VMPC \ {"restore"}
      BY DEF VMPC
    <2>. QED
      BY <2>1, <2>2, QuietStep, ProcKinds
  <1>13. ASSUME NEW p \in VProcs, Yield(p) PROVE VMInv'
    <2>1. PICK b \in {"iyield"} :
            /\ pc[p] \in VMPC \ {"asleep", "restore"} /\ pc' = [pc EXCEPT ![p] = b]
            /\ UNCHANGED <<ret, q, sem, vmvars>> /\ rp' = IF b = "asleep" THEN p ELSE rp
            /\ rl' \in Procs \cup {NoProc}
      BY <1>13, ProcKinds DEF Yield, Goto, VMPC, VMInv, VMTypeOK
    <2>2. b \in VMPC \ {"restore"}
      BY DEF VMPC
    <2>. QED
      BY <2>1, <2>2, QuietStep, ProcKinds
  <1>14. ASSUME NEW p \in VProcs, iyield(p) PROVE VMInv'
    BY <1>14, iyieldStep
  <1>15. ASSUME NEW p \in VProcs, Run(p) PROVE VMInv'
    <2>1. PICK b \in {"quantum", "loop"} :
            /\ pc[p] \in VMPC \ {"asleep", "restore"} /\ pc' = [pc EXCEPT ![p] = b]
            /\ UNCHANGED <<ret, q, sem, vmvars>> /\ rp' = IF b = "asleep" THEN p ELSE rp
            /\ rl' \in Procs \cup {NoProc}
      BY <1>15, ProcKinds DEF Run, Goto, VMPC, VMInv, VMTypeOK
    <2>2. b \in VMPC \ {"restore"}
      BY DEF VMPC
    <2>. QED
      BY <2>1, <2>2, QuietStep, ProcKinds
  <1>16. ASSUME NEW p \in VProcs, QuantumEnd(p) PROVE VMInv'
    <2>1. PICK b \in {"gctest"} :
            /\ pc[p] \in VMPC \ {"asleep", "restore"} /\ pc' = [pc EXCEPT ![p] = b]
            /\ UNCHANGED <<ret, q, sem, vmvars>> /\ rp' = IF b = "asleep" THEN p ELSE rp
            /\ rl' \in Procs \cup {NoProc}
      BY <1>16, ProcKinds DEF QuantumEnd, Goto, VMPC, VMInv, VMTypeOK
    <2>2. b \in VMPC \ {"restore"}
      BY DEF VMPC
    <2>. QED
      BY <2>1, <2>2, QuietStep, ProcKinds
  <1>17. ASSUME NEW p \in VProcs, delrun(p) PROVE VMInv'
    <2>1. PICK b \in {"gctest"} :
            /\ pc[p] \in VMPC \ {"asleep", "restore"} /\ pc' = [pc EXCEPT ![p] = b]
            /\ UNCHANGED <<ret, q, sem, vmvars>> /\ rp' = IF b = "asleep" THEN p ELSE rp
            /\ rl' \in Procs \cup {NoProc}
      BY <1>17, ProcKinds DEF delrun, Goto, VMPC, VMInv, VMTypeOK
    <2>2. b \in VMPC \ {"restore"}
      BY DEF VMPC
    <2>. QED
      BY <2>1, <2>2, QuietStep, ProcKinds
  <1>18. ASSUME NEW p \in VProcs, Error(p) PROVE VMInv'
    <2>1. PICK b \in {"failed"} :
            /\ pc[p] \in VMPC \ {"asleep", "restore"} /\ pc' = [pc EXCEPT ![p] = b]
            /\ UNCHANGED <<ret, q, sem, vmvars>> /\ rp' = IF b = "asleep" THEN p ELSE rp
            /\ rl' \in Procs \cup {NoProc}
      BY <1>18, ProcKinds DEF Error, Goto, VMPC, VMInv, VMTypeOK
    <2>2. b \in VMPC \ {"restore"}
      BY DEF VMPC
    <2>. QED
      BY <2>1, <2>2, QuietStep, ProcKinds
  <1>19. ASSUME NEW p \in VProcs, Handled(p) PROVE VMInv'
    <2>1. PICK b \in {"loop"} :
            /\ pc[p] \in VMPC \ {"asleep", "restore"} /\ pc' = [pc EXCEPT ![p] = b]
            /\ UNCHANGED <<ret, q, sem, vmvars>> /\ rp' = IF b = "asleep" THEN p ELSE rp
            /\ rl' \in Procs \cup {NoProc}
      BY <1>19, ProcKinds DEF Handled, Goto, VMPC, VMInv, VMTypeOK
    <2>2. b \in VMPC \ {"restore"}
      BY DEF VMPC
    <2>. QED
      BY <2>1, <2>2, QuietStep, ProcKinds
  <1>20. ASSUME NEW p \in VProcs, delprog(p) PROVE VMInv'
    <2>1. PICK b \in {"loop", "cleanexit"} :
            /\ pc[p] \in VMPC \ {"asleep", "restore"} /\ pc' = [pc EXCEPT ![p] = b]
            /\ UNCHANGED <<ret, q, sem, vmvars>> /\ rp' = IF b = "asleep" THEN p ELSE rp
            /\ rl' \in Procs \cup {NoProc}
      BY <1>20, ProcKinds DEF delprog, Goto, VMPC, VMInv, VMTypeOK
    <2>2. b \in VMPC \ {"restore"}
      BY DEF VMPC
    <2>. QED
      BY <2>1, <2>2, QuietStep, ProcKinds
  <1>21. ASSUME NEW p \in VProcs, NEW k \in KProcs, StartKProc(p, k) PROVE VMInv'
    <2>1. /\ pc[p] = "quantum" /\ pc[k] = "off" /\ pc' = [pc EXCEPT ![k] = "host"]
          /\ ret' = [ret EXCEPT ![k] = "kproc_vm"]
          /\ UNCHANGED <<q, sem, vmvars, rp, rl>>
      BY <1>21 DEF StartKProc
    <2>. QED
      BY <2>1, OutsideStep, ProcKinds
  <1>22. ASSUME NEW p \in Procs, Ready(p) PROVE VMInv'
    BY <1>22, ReadyStep
  <1>23. ASSUME NEW p \in Procs, Release(p) PROVE VMInv'
    <2>1. PICK r \in Rets \ {"nowhere"}, dtor \in BOOLEAN : pc[p] \in RunPC /\ release(p, r, dtor)
      BY <1>23, SchedAssumption DEF Release, RunPC, Rets
    <2>. QED
      BY <2>1, releaseStep
  <1>24. ASSUME NEW p \in Procs, Acquire(p) PROVE VMInv'
    BY <1>24, acquireStep DEF Acquire
  <1>25. ASSUME NEW p \in Procs, AcquireError(p) PROVE VMInv'
    BY <1>25, acquireStep DEF AcquireError
  <1>26. ASSUME NEW p \in Procs, WakeIrend(p) PROVE VMInv'
    BY <1>26, WakeIrendStep
  <1>27. ASSUME NEW p \in Procs, Acquired(p) PROVE VMInv'
    <2>1. PICK b \in {"restore"} :
            /\ pc[p] \in {"acqblock"} /\ pc' = [pc EXCEPT ![p] = b]
            /\ Semacquire(p) /\ UNCHANGED <<ret, q, vmvars, rp, rl>>
      BY <1>27 DEF Acquired, Goto
    <2>2. b \in VMPC \ {"asleep"}
      BY DEF VMPC
    <2>. QED
      BY <2>1, <2>2, SemacquireStep, ProcKinds
  <1>28. ASSUME NEW p \in Procs, Restore(p) PROVE VMInv'
    <2>1. /\ pc[p] = "restore" /\ pc' = [pc EXCEPT ![p] = ret[p]]
          /\ ret' = [ret EXCEPT ![p] = "nowhere"]
          /\ UNCHANGED <<q, sem, vmvars, rp, rl>>
      BY <1>28 DEF Restore, Goto
    <2>2. ret[p] \in VMPC \ {"restore", "asleep"} /\ pc[p] \in VMPC \ {"asleep"}
      BY <2>1 DEF VMInv, VMTypeOK, RetInv, AwayPC, Rets, VMPC
    <2>. QED
      BY <2>1, <2>2, QuietStep DEF VMInv, VMTypeOK
  <1>29. ASSUME NEW p \in Procs, NEW v \in VProcs, NewVM(p, v) PROVE VMInv'
    <2>1. /\ pc[p] = "newvm" /\ pc[v] = "off" /\ pc' = [pc EXCEPT ![p] = "host", ![v] = "startup"]
          /\ UNCHANGED <<ret, q, sem, vmvars, rp, rl>>
      BY <1>29 DEF NewVM
    <2>. QED
      BY <2>1, OutsideStep, ProcKinds
  <1>30. ASSUME NEW p \in Procs, NEW g \in Progs, addrun(p, g) PROVE VMInv'
    <2>1. /\ pc[p] \in VMPC \ {"asleep", "restore"} /\ pc' = [pc EXCEPT ![p] = pc[p]]
          /\ UNCHANGED <<ret, q, sem, vmvars, rp, rl>>
      BY <1>30 DEF addrun, VMPC, VMInv, VMTypeOK
    <2>. QED
      BY <2>1, QuietStep DEF VMInv, VMTypeOK
  <1>31. ASSUME UNCHANGED vars PROVE VMInv'
    BY <1>31 DEF vars, vmvars, VMInv, VMTypeOK, QueueInv, HolderInv, GiveInv, SemInv, RpInv, RetInv, Holds
  <1>. QED
    BY <1>1, <1>2, <1>3, <1>4, <1>5, <1>6, <1>7, <1>8, <1>9, <1>10, <1>11, <1>12, <1>13, <1>14, <1>15,
       <1>16, <1>17, <1>18, <1>19, <1>20, <1>21, <1>22, <1>23, <1>24, <1>25, <1>26, <1>27, <1>28, <1>29, <1>30, <1>31
    DEF Next, VStep, PStep

\* At most one process holds the VM.
LEMMA HoldersBound ==
  ASSUME VMInv
  PROVE  OneVM
  <1>. DEFINE S == {p \in Procs : HasVM(p)}
  <1>1. \A p \in Procs : Holds(p) <=> HasVM(p)
    BY HoldsIsHasVM DEF VMInv
  <1>2. CASE idle
    <2>1. S = {}
      BY <1>1, <1>2 DEF VMInv, HolderInv
    <2>. QED
      BY <1>2, <2>1, FS_EmptySet DEF OneVM
  <1>3. CASE ~idle
    <2>1. PICK p \in Procs : Holds(p)
      BY <1>3 DEF VMInv, HolderInv
    <2>2. S = {p}
      BY <1>1, <2>1 DEF VMInv, HolderInv
    <2>. QED
      BY <1>3, <2>2, FS_Singleton DEF OneVM
  <1>. QED
    BY <1>2, <1>3

\* The VM is never lost and never given twice: at every moment exactly one process
\* has it, or none has it and isched.idle says so, whatever the interleaving of
\* release, acquire, iyield and startup with the wakeup of irend (dis.c:800-925).
THEOREM OneVMHolds == Spec => []OneVM
  <1>1. VMInv => OneVM
    BY HoldersBound
  <1>. QED
    BY VMInit, VMNext, <1>1, PTL DEF Spec

-----------------------------------------------------------------------------
(* A process to run the VM.                                                *)

Coming(p) == pc[p] \in {"newvm", "startup"}

\* At most one process is on its way to run the VM, there is one when the VM is idle
\* or isched.creating is set, and, after the first, creating is set while there is.
ComingInv ==
  /\ \A p1, p2 \in Procs : Coming(p1) /\ Coming(p2) => p1 = p2
  /\ creating \/ idle => \E p \in Procs : Coming(p)
  /\ \/ creating
     \/ \A p \in Procs : ~Coming(p)
     \/ \A p \in Procs : pc[p] \in {"off", "startup"}

\* A step that changes neither who is coming nor the flags keeps ComingInv.
LEMMA ComingKept ==
  ASSUME ComingInv, NEW p \in Procs, pc[p] \notin {"off", "startup"},
         \A x \in Procs : Coming(x)' <=> Coming(x), creating' = creating, idle' => idle
  PROVE  ComingInv'
  BY DEF ComingInv

\* Nobody is coming at first.
LEMMA ComingInit == Init => ComingInv
  <1>. SUFFICES ASSUME Init PROVE ComingInv
    OBVIOUS
  <1>1. PICK b \in VProcs : pc = [p \in Procs |-> IF p = b THEN "startup" ELSE "off"]
    BY DEF Init
  <1>2. b \in Procs
    BY ProcKinds
  <1>3. pc[b] = "startup" /\ \A p \in Procs \ {b} : pc[p] = "off"
    BY <1>1, <1>2
  <1>. QED
    BY <1>2, <1>3 DEF ComingInv, Coming

\* release that leaves the VM to nobody makes its caller the one who starts an interpreter.
LEMMA ComingRelease ==
  ASSUME VMInv, ComingInv, NEW p \in Procs, pc[p] \in RunPC, NEW r, NEW dtor, release(p, r, dtor)
  PROVE  ComingInv'
  <1>1. pc \in [Procs -> VMPC \cup OtherPC] /\ idle = FALSE
    BY DEF VMInv, VMTypeOK, HolderInv, Holds, RunPC, VMPC
  <1>2. ~Coming(p) /\ pc[p] \notin {"off", "startup"}
    BY DEF Coming, RunPC
  <1>3. CASE vmq # <<>> \/ idlevmq # <<>>
    <2>1. pc' = [pc EXCEPT ![p] = "relready"] /\ UNCHANGED <<idle, creating>>
      BY <1>3 DEF release
    <2>. QED
      BY <1>1, <1>2, <2>1, ComingKept DEF Coming
  <1>4. CASE vmq = <<>> /\ idlevmq = <<>>
    <2>1. pc' = [pc EXCEPT ![p] = IF creating THEN "host" ELSE "newvm"] /\ creating' = TRUE
      BY <1>4 DEF release
    <2>2. CASE creating
      <3>1. \A x \in Procs : Coming(x)' <=> Coming(x)
        BY <1>1, <1>2, <2>1, <2>2 DEF Coming
      <3>. QED
        BY <3>1, <2>1, <2>2 DEF ComingInv
    <2>3. CASE ~creating
      <3>1. \A x \in Procs : ~Coming(x)
        BY <1>2, <2>3 DEF ComingInv
      <3>2. \A x \in Procs : Coming(x)' <=> x = p
        BY <1>1, <2>1, <2>3, <3>1 DEF Coming
      <3>. QED
        BY <3>2, <2>1 DEF ComingInv
    <2>. QED
      BY <2>2, <2>3
  <1>. QED
    BY <1>3, <1>4

\* Every step keeps who is coming for the VM.
LEMMA ComingNext == VMInv /\ ComingInv /\ [Next]_vars => ComingInv'
  <1>. SUFFICES ASSUME VMInv, ComingInv PROVE [Next]_vars => ComingInv'
    OBVIOUS
  <1>. USE ProcKinds
  <1>0. pc \in [Procs -> VMPC \cup OtherPC]
    BY DEF VMInv, VMTypeOK
  <1>1. ASSUME NEW p \in VProcs, startup(p) PROVE ComingInv'
    <2>1. pc[p] = "startup" /\ creating' = FALSE /\ idle' = FALSE
      BY <1>1 DEF startup, VMInv, VMTypeOK
    <2>2. \A x \in Procs : ~Coming(x)'
      BY <1>0, <1>1 DEF startup, ComingInv, Coming
    <2>. QED
      BY <2>1, <2>2 DEF ComingInv
  <1>2. ASSUME NEW p \in VProcs, Unpark(p) PROVE ComingInv'
    <2>1. PICK b : /\ pc[p] \notin {"off", "newvm", "startup"} /\ b \notin {"newvm", "startup"}
                   /\ pc' = [pc EXCEPT ![p] = b] /\ creating' = creating /\ (idle' => idle)
      BY <1>0, <1>2 DEF Unpark, Goto, vmvars
    <2>. QED
      BY <1>0, <2>1, ComingKept DEF Coming
  <1>3. ASSUME NEW p \in VProcs, Loop(p) PROVE ComingInv'
    <2>1. PICK b : /\ pc[p] \notin {"off", "newvm", "startup"} /\ b \notin {"newvm", "startup"}
                   /\ pc' = [pc EXCEPT ![p] = b] /\ creating' = creating /\ (idle' => idle)
      BY <1>0, <1>3 DEF Loop, Goto, vmvars
    <2>. QED
      BY <1>0, <2>1, ComingKept DEF Coming
  <1>4. ASSUME NEW p \in VProcs, IdleGC(p) PROVE ComingInv'
    <2>1. PICK b : /\ pc[p] \notin {"off", "newvm", "startup"} /\ b \notin {"newvm", "startup"}
                   /\ pc' = [pc EXCEPT ![p] = b] /\ creating' = creating /\ (idle' => idle)
      BY <1>0, <1>4 DEF IdleGC, Goto, vmvars
    <2>. QED
      BY <1>0, <2>1, ComingKept DEF Coming
  <1>5. ASSUME NEW p \in VProcs, BusyGC(p) PROVE ComingInv'
    <2>1. PICK b : /\ pc[p] \notin {"off", "newvm", "startup"} /\ b \notin {"newvm", "startup"}
                   /\ pc' = [pc EXCEPT ![p] = b] /\ creating' = creating /\ (idle' => idle)
      BY <1>0, <1>5 DEF BusyGC, Goto, vmvars
    <2>. QED
      BY <1>0, <2>1, ComingKept DEF Coming
  <1>6. ASSUME NEW p \in VProcs, NoGC(p) PROVE ComingInv'
    <2>1. PICK b : /\ pc[p] \notin {"off", "newvm", "startup"} /\ b \notin {"newvm", "startup"}
                   /\ pc' = [pc EXCEPT ![p] = b] /\ creating' = creating /\ (idle' => idle)
      BY <1>0, <1>6 DEF NoGC, Goto, vmvars
    <2>. QED
      BY <1>0, <2>1, ComingKept DEF Coming
  <1>7. ASSUME NEW p \in VProcs, GCEnd(p) PROVE ComingInv'
    <2>1. PICK b : /\ pc[p] \notin {"off", "newvm", "startup"} /\ b \notin {"newvm", "startup"}
                   /\ pc' = [pc EXCEPT ![p] = b] /\ creating' = creating /\ (idle' => idle)
      BY <1>0, <1>7 DEF GCEnd, Goto, vmvars
    <2>. QED
      BY <1>0, <2>1, ComingKept DEF Coming
  <1>8. ASSUME NEW p \in VProcs, SleepLock(p) PROVE ComingInv'
    <2>1. PICK b : /\ pc[p] \notin {"off", "newvm", "startup"} /\ b \notin {"newvm", "startup"}
                   /\ pc' = [pc EXCEPT ![p] = b] /\ creating' = creating /\ (idle' => idle)
      BY <1>0, <1>8 DEF SleepLock, Goto, vmvars
    <2>. QED
      BY <1>0, <2>1, ComingKept DEF Coming
  <1>9. ASSUME NEW p \in VProcs, SleepReady(p) PROVE ComingInv'
    <2>1. PICK b : /\ pc[p] \notin {"off", "newvm", "startup"} /\ b \notin {"newvm", "startup"}
                   /\ pc' = [pc EXCEPT ![p] = b] /\ creating' = creating /\ (idle' => idle)
      BY <1>0, <1>9 DEF SleepReady, Goto, vmvars
    <2>. QED
      BY <1>0, <2>1, ComingKept DEF Coming
  <1>10. ASSUME NEW p \in VProcs, SleepCommit(p) PROVE ComingInv'
    <2>1. PICK b : /\ pc[p] \notin {"off", "newvm", "startup"} /\ b \notin {"newvm", "startup"}
                   /\ pc' = [pc EXCEPT ![p] = b] /\ creating' = creating /\ (idle' => idle)
      BY <1>0, <1>10 DEF SleepCommit, Goto, vmvars
    <2>. QED
      BY <1>0, <2>1, ComingKept DEF Coming
  <1>11. ASSUME NEW p \in VProcs, Awake(p) PROVE ComingInv'
    <2>1. PICK b : /\ pc[p] \notin {"off", "newvm", "startup"} /\ b \notin {"newvm", "startup"}
                   /\ pc' = [pc EXCEPT ![p] = b] /\ creating' = creating /\ (idle' => idle)
      BY <1>0, <1>11 DEF Awake, Goto, vmvars
    <2>. QED
      BY <1>0, <2>1, ComingKept DEF Coming
  <1>12. ASSUME NEW p \in VProcs, NoYield(p) PROVE ComingInv'
    <2>1. PICK b : /\ pc[p] \notin {"off", "newvm", "startup"} /\ b \notin {"newvm", "startup"}
                   /\ pc' = [pc EXCEPT ![p] = b] /\ creating' = creating /\ (idle' => idle)
      BY <1>0, <1>12 DEF NoYield, Goto, vmvars
    <2>. QED
      BY <1>0, <2>1, ComingKept DEF Coming
  <1>13. ASSUME NEW p \in VProcs, Yield(p) PROVE ComingInv'
    <2>1. PICK b : /\ pc[p] \notin {"off", "newvm", "startup"} /\ b \notin {"newvm", "startup"}
                   /\ pc' = [pc EXCEPT ![p] = b] /\ creating' = creating /\ (idle' => idle)
      BY <1>0, <1>13 DEF Yield, Goto, vmvars
    <2>. QED
      BY <1>0, <2>1, ComingKept DEF Coming
  <1>14. ASSUME NEW p \in VProcs, iyield(p) PROVE ComingInv'
    <2>1. PICK b : /\ pc[p] \notin {"off", "newvm", "startup"} /\ b \notin {"newvm", "startup"}
                   /\ pc' = [pc EXCEPT ![p] = b] /\ creating' = creating /\ (idle' => idle)
      BY <1>0, <1>14 DEF iyield, Goto, vmvars
    <2>. QED
      BY <1>0, <2>1, ComingKept DEF Coming
  <1>15. ASSUME NEW p \in VProcs, Run(p) PROVE ComingInv'
    <2>1. PICK b : /\ pc[p] \notin {"off", "newvm", "startup"} /\ b \notin {"newvm", "startup"}
                   /\ pc' = [pc EXCEPT ![p] = b] /\ creating' = creating /\ (idle' => idle)
      BY <1>0, <1>15 DEF Run, Goto, vmvars
    <2>. QED
      BY <1>0, <2>1, ComingKept DEF Coming
  <1>16. ASSUME NEW p \in VProcs, QuantumEnd(p) PROVE ComingInv'
    <2>1. PICK b : /\ pc[p] \notin {"off", "newvm", "startup"} /\ b \notin {"newvm", "startup"}
                   /\ pc' = [pc EXCEPT ![p] = b] /\ creating' = creating /\ (idle' => idle)
      BY <1>0, <1>16 DEF QuantumEnd, Goto, vmvars
    <2>. QED
      BY <1>0, <2>1, ComingKept DEF Coming
  <1>17. ASSUME NEW p \in VProcs, delrun(p) PROVE ComingInv'
    <2>1. PICK b : /\ pc[p] \notin {"off", "newvm", "startup"} /\ b \notin {"newvm", "startup"}
                   /\ pc' = [pc EXCEPT ![p] = b] /\ creating' = creating /\ (idle' => idle)
      BY <1>0, <1>17 DEF delrun, Goto, vmvars
    <2>. QED
      BY <1>0, <2>1, ComingKept DEF Coming
  <1>18. ASSUME NEW p \in VProcs, Error(p) PROVE ComingInv'
    <2>1. PICK b : /\ pc[p] \notin {"off", "newvm", "startup"} /\ b \notin {"newvm", "startup"}
                   /\ pc' = [pc EXCEPT ![p] = b] /\ creating' = creating /\ (idle' => idle)
      BY <1>0, <1>18 DEF Error, Goto, vmvars
    <2>. QED
      BY <1>0, <2>1, ComingKept DEF Coming
  <1>19. ASSUME NEW p \in VProcs, Handled(p) PROVE ComingInv'
    <2>1. PICK b : /\ pc[p] \notin {"off", "newvm", "startup"} /\ b \notin {"newvm", "startup"}
                   /\ pc' = [pc EXCEPT ![p] = b] /\ creating' = creating /\ (idle' => idle)
      BY <1>0, <1>19 DEF Handled, Goto, vmvars
    <2>. QED
      BY <1>0, <2>1, ComingKept DEF Coming
  <1>20. ASSUME NEW p \in VProcs, delprog(p) PROVE ComingInv'
    <2>1. PICK b : /\ pc[p] \notin {"off", "newvm", "startup"} /\ b \notin {"newvm", "startup"}
                   /\ pc' = [pc EXCEPT ![p] = b] /\ creating' = creating /\ (idle' => idle)
      BY <1>0, <1>20 DEF delprog, Goto, vmvars
    <2>. QED
      BY <1>0, <2>1, ComingKept DEF Coming
  <1>21. ASSUME NEW p \in VProcs, NEW k \in KProcs, StartKProc(p, k) PROVE ComingInv'
    <2>1. pc[p] = "quantum" /\ pc[k] = "off" /\ pc' = [pc EXCEPT ![k] = "host"] /\ UNCHANGED <<idle, creating>>
      BY <1>21 DEF StartKProc, vmvars
    <2>. QED
      BY <1>0, <2>1, ComingKept DEF Coming
  <1>22. ASSUME NEW p \in Procs, Ready(p) PROVE ComingInv'
    <2>1. PICK b : /\ pc[p] \notin {"off", "newvm", "startup"} /\ b \notin {"newvm", "startup"}
                   /\ pc' = [pc EXCEPT ![p] = b] /\ creating' = creating /\ (idle' => idle)
      BY <1>0, <1>22 DEF Ready, Goto, vmvars
    <2>. QED
      BY <1>0, <2>1, ComingKept DEF Coming
  <1>23. ASSUME NEW p \in Procs, Release(p) PROVE ComingInv'
    <2>1. PICK r \in Rets \ {"nowhere"}, dtor \in BOOLEAN : pc[p] \in RunPC /\ release(p, r, dtor)
      BY <1>23, SchedAssumption DEF Release, RunPC, Rets
    <2>. QED
      BY <2>1, ComingRelease
  <1>24. ASSUME NEW p \in Procs, Acquire(p) PROVE ComingInv'
    <2>1. PICK b : /\ pc[p] \notin {"off", "newvm", "startup"} /\ b \notin {"newvm", "startup"}
                   /\ pc' = [pc EXCEPT ![p] = b] /\ creating' = creating /\ (idle' => idle)
      BY <1>0, <1>24 DEF Acquire, acquire, Goto, vmvars
    <2>. QED
      BY <1>0, <2>1, ComingKept DEF Coming
  <1>25. ASSUME NEW p \in Procs, AcquireError(p) PROVE ComingInv'
    <2>1. PICK b : /\ pc[p] \notin {"off", "newvm", "startup"} /\ b \notin {"newvm", "startup"}
                   /\ pc' = [pc EXCEPT ![p] = b] /\ creating' = creating /\ (idle' => idle)
      BY <1>0, <1>25 DEF AcquireError, acquire, Goto, vmvars
    <2>. QED
      BY <1>0, <2>1, ComingKept DEF Coming
  <1>26. ASSUME NEW p \in Procs, WakeIrend(p) PROVE ComingInv'
    <2>1. PICK b : /\ pc[p] \notin {"off", "newvm", "startup"} /\ b \notin {"newvm", "startup"}
                   /\ pc' = [pc EXCEPT ![p] = b] /\ creating' = creating /\ (idle' => idle)
      BY <1>0, <1>26 DEF WakeIrend, Goto, vmvars
    <2>. QED
      BY <1>0, <2>1, ComingKept DEF Coming
  <1>27. ASSUME NEW p \in Procs, Acquired(p) PROVE ComingInv'
    <2>1. PICK b : /\ pc[p] \notin {"off", "newvm", "startup"} /\ b \notin {"newvm", "startup"}
                   /\ pc' = [pc EXCEPT ![p] = b] /\ creating' = creating /\ (idle' => idle)
      BY <1>0, <1>27 DEF Acquired, Goto, vmvars
    <2>. QED
      BY <1>0, <2>1, ComingKept DEF Coming
  <1>28. ASSUME NEW p \in Procs, Restore(p) PROVE ComingInv'
    <2>1. pc[p] = "restore" /\ pc' = [pc EXCEPT ![p] = ret[p]] /\ UNCHANGED <<idle, creating>>
      BY <1>28 DEF Restore, Goto, vmvars
    <2>2. ret[p] \notin {"newvm", "startup"}
      BY DEF VMInv, VMTypeOK, Rets
    <2>. QED
      BY <1>0, <2>1, <2>2, ComingKept DEF Coming
  <1>29. ASSUME NEW p \in Procs, NEW v \in VProcs, NewVM(p, v) PROVE ComingInv'
    <2>1. /\ pc[p] = "newvm" /\ pc[v] = "off" /\ pc' = [pc EXCEPT ![p] = "host", ![v] = "startup"]
          /\ UNCHANGED <<idle, creating>>
      BY <1>29 DEF NewVM, vmvars
    <2>2. creating /\ \A x \in Procs : Coming(x) => x = p
      BY <2>1 DEF ComingInv, Coming
    <2>3. \A x \in Procs : Coming(x)' <=> x = v
      BY <1>0, <2>1, <2>2 DEF Coming
    <2>. QED
      BY <2>1, <2>2, <2>3 DEF ComingInv
  <1>30. ASSUME NEW p \in Procs, NEW g \in Progs, addrun(p, g) PROVE ComingInv'
    <2>1. PICK b : /\ pc[p] \notin {"off", "newvm", "startup"} /\ b \notin {"newvm", "startup"}
                   /\ pc' = [pc EXCEPT ![p] = b] /\ creating' = creating /\ (idle' => idle)
      BY <1>0, <1>30 DEF addrun, Goto, vmvars
    <2>. QED
      BY <1>0, <2>1, ComingKept DEF Coming
  <1>31. ASSUME UNCHANGED vars PROVE ComingInv'
    BY <1>31 DEF vars, vmvars, ComingInv, Coming
  <1>. QED
    BY <1>1, <1>2, <1>3, <1>4, <1>5, <1>6, <1>7, <1>8, <1>9, <1>10, <1>11, <1>12, <1>13, <1>14, <1>15,
       <1>16, <1>17, <1>18, <1>19, <1>20, <1>21, <1>22, <1>23, <1>24, <1>25, <1>26, <1>27, <1>28, <1>29, <1>30, <1>31
    DEF Next, VStep, PStep

\* ComingInv implies that the VM is not left to nobody.
LEMMA ComingOne == ComingInv => NotStranded
  <1>. SUFFICES ASSUME ComingInv PROVE NotStranded
    OBVIOUS
  <1>. DEFINE coming == {p \in Procs : pc[p] \in {"newvm", "startup"}}
  <1>1. coming = {} \/ \E p \in Procs : coming = {p}
    BY DEF ComingInv, Coming
  <1>2. Cardinality(coming) <= 1
    BY <1>1, FS_EmptySet, FS_Singleton
  <1>3. idle => coming # {}
    BY DEF ComingInv, Coming
  <1>. QED
    BY <1>2, <1>3 DEF NotStranded

-----------------------------------------------------------------------------
(* The run queue.                                                          *)

HeadPC == {"quantum", "resume", "failed", "exited"}
OwnPC == {"gcidle", "gcbusy", "kproc_vm"}
InterpPC == (VMPC \ {"gcidle", "gcbusy", "kproc_vm", "restore"}) \cup IdlePC

ProgTypeOK ==
  /\ interp \in [Procs -> BOOLEAN]
  /\ cycles \in [VProcs -> 0..Cycles]
  /\ iprog \in [Procs -> Progs \cup {NoProg}]
  /\ R \in Progs \cup {NoProg}
  /\ pstate \in [Progs -> {"none", "ready", "blocked", "release"}]
  /\ runq \in Seq(Progs \cup Procs)
  /\ gchalters \subseteq Procs

\* A process is of type Interp while it runs vmachine for a prog, also when it is
\* away in host code on a prog's behalf.
InterpOK(p) ==
  /\ p \in KProcs =>
       /\ ~interp[p] /\ ret[p] \in {"nowhere", "kproc_vm"}
       /\ pc[p] \in AwayPC \cup {"off", "kproc_vm"}
  /\ p \in VProcs =>
       /\ ret[p] # "kproc_vm" /\ pc[p] # "kproc_vm"
       /\ pc[p] \in {"gcidle", "gcbusy"} => ~interp[p]
       /\ pc[p] \in InterpPC => interp[p]
       /\ pc[p] \in AwayPC => (interp[p] <=> ret[p] \in {"resume", "exited", "failed"})

\* A process that is away for a prog remembers it, and the prog is off the run queue.
IprogOK(p) ==
  IF pc[p] \in AwayPC /\ interp[p]
  THEN iprog[p] \in Progs /\ pstate[iprog[p]] = "release"
  ELSE iprog[p] = NoProg

Mine(p) ==
  /\ pc[p] \in HeadPC => runq # <<>> /\ Head(runq) = R /\ iprog[p] = NoProg
  /\ pc[p] \in OwnPC => runq # <<>> /\ Head(runq) = p

IprogApart ==
  \A p1, p2 \in Procs : iprog[p1] # NoProg /\ iprog[p1] = iprog[p2] => p1 = p2

\* The run queue holds each ready prog once, and a process only as its own prog.
RunqInv ==
  /\ Distinct(runq)
  /\ \A g \in Progs : In(g, runq) <=> pstate[g] = "ready"
  /\ \A p \in Procs : In(p, runq) => pc[p] \in OwnPC

ProgInv ==
  /\ ProgTypeOK /\ IprogApart /\ RunqInv
  /\ \A p \in Procs : InterpOK(p) /\ IprogOK(p) /\ Mine(p)

\* The property TLC checks, process by process.
LEMMA MineIsCurrun == CurrunIsMine <=> \A p \in Procs : Mine(p)
  BY DEF CurrunIsMine, Mine, HeadPC, OwnPC

\* At first no prog runs.
LEMMA ProgInit == Init => ProgInv
  <1>. SUFFICES ASSUME Init PROVE ProgInv
    OBVIOUS
  <1>. USE SchedAssumption, ProcKinds
  <1>1. PICK b \in VProcs : pc = [p \in Procs |-> IF p = b THEN "startup" ELSE "off"]
    BY DEF Init
  <1>2. \A p \in Procs : pc[p] \in {"startup", "off"} /\ (p \in KProcs => pc[p] = "off")
    BY <1>1
  <1>3. PICK g \in Progs :
          pstate = [h \in Progs |-> IF h = g THEN "ready" ELSE "none"] /\ runq = <<g>>
    BY DEF Init
  <1>4. \A p \in Procs : interp[p] = FALSE /\ ret[p] = "nowhere" /\ iprog[p] = NoProg
    BY DEF Init
  <1>5. Len(runq) = 1 /\ runq[1] = g /\ runq \in Seq(Progs \cup Procs)
    BY <1>3
  <1>6. ProgTypeOK
    <2>1. cycles \in [VProcs -> 0..Cycles]
      BY DEF Init
    <2>2. pstate \in [Progs -> {"none", "ready", "blocked", "release"}]
      BY <1>3
    <2>3. interp \in [Procs -> BOOLEAN] /\ iprog \in [Procs -> Progs \cup {NoProg}]
      BY DEF Init
    <2>4. R = NoProg /\ gchalters = {}
      BY DEF Init
    <2>. QED
      BY <1>5, <2>1, <2>2, <2>3, <2>4 DEF ProgTypeOK
  <1>7. RunqInv
    <2>1. \A x : In(x, runq) <=> x = g
      BY <1>5 DEF In
    <2>2. Distinct(runq)
      BY <1>5 DEF Distinct
    <2>. QED
      BY <1>3, <2>1, <2>2 DEF RunqInv
  <1>8. \A p \in Procs : InterpOK(p) /\ IprogOK(p) /\ Mine(p)
    BY <1>2, <1>4
    DEF InterpOK, IprogOK, Mine, HeadPC, OwnPC, InterpPC, VMPC, IdlePC, AwayPC
  <1>. QED
    BY <1>4, <1>6, <1>7, <1>8 DEF ProgInv, IprogApart

\* What is so of the process that has the VM, and of the others.
LEMMA RunnerFacts ==
  ASSUME VMInv, ProgInv, NEW p \in Procs, pc[p] \in VMPC
  PROVE  /\ \A x \in Procs \ {p} : pc[x] \notin VMPC /\ ~In(x, runq)
         /\ In(p, runq) => pc[p] \in OwnPC
         /\ runq # <<>> => Head(runq) \in Progs \cup {p}
         /\ pc[p] \in HeadPC => /\ p \in VProcs /\ interp[p] /\ R \in Progs /\ runq # <<>>
                                /\ Head(runq) = R /\ pstate[R] = "ready"
         /\ pc[p] \in OwnPC => runq # <<>> /\ Head(runq) = p /\ ~interp[p] /\ p \notin Progs
  <1>1. \A x \in Procs \ {p} : pc[x] \notin VMPC
    BY DEF VMInv, HolderInv, Holds
  <1>2. \A x \in Procs \ {p} : ~In(x, runq)
    BY <1>1 DEF ProgInv, RunqInv, OwnPC, VMPC
  <1>3. In(p, runq) => pc[p] \in OwnPC
    BY DEF ProgInv, RunqInv
  <1>4. runq # <<>> => Head(runq) \in Progs \cup Procs /\ In(Head(runq), runq)
    BY TailIn DEF ProgInv, ProgTypeOK, RunqInv
  <1>5. runq # <<>> => Head(runq) \in Progs \cup {p}
    BY <1>2, <1>4
  <1>6. ASSUME pc[p] \in HeadPC
        PROVE  /\ p \in VProcs /\ interp[p] /\ R \in Progs /\ runq # <<>>
               /\ Head(runq) = R /\ pstate[R] = "ready"
    <2>1. runq # <<>> /\ Head(runq) = R
      BY <1>6 DEF ProgInv, Mine
    <2>2. p \in VProcs /\ interp[p]
      BY <1>6 DEF ProgInv, InterpOK, Procs, HeadPC, AwayPC, InterpPC, VMPC
    <2>3. R # p
      BY <1>3, <1>4, <1>6, <2>1 DEF HeadPC, OwnPC
    <2>. QED
      BY <1>4, <1>5, <2>1, <2>2, <2>3 DEF ProgInv, RunqInv
  <1>7. ASSUME pc[p] \in OwnPC
        PROVE  runq # <<>> /\ Head(runq) = p /\ ~interp[p] /\ p \notin Progs
    <2>1. runq # <<>> /\ Head(runq) = p
      BY <1>7 DEF ProgInv, Mine
    <2>2. ~interp[p]
      BY <1>7 DEF ProgInv, InterpOK, Procs, OwnPC
    <2>. QED
      BY <2>1, <2>2, SchedAssumption
  <1>. QED
    BY <1>1, <1>2, <1>3, <1>5, <1>6, <1>7

\* A step that leaves the run queue and the progs alone.
LEMMA ProgKept ==
  ASSUME ProgInv, ProgTypeOK', UNCHANGED <<iprog, pstate, runq>>,
         NEW p \in Procs, \A x \in Procs \ {p} : pc'[x] = pc[x] /\ interp'[x] = interp[x] /\ ret'[x] = ret[x],
         pc'[p] \in AwayPC <=> pc[p] \in AwayPC,
         pc'[p] \in AwayPC => interp'[p] = interp[p],
         InterpOK(p)', Mine(p)', pc[p] \notin OwnPC,
         R' = R \/ \A x \in Procs : pc[x] \notin HeadPC
  PROVE  ProgInv'
  <1>1. RunqInv'
    BY DEF ProgInv, RunqInv
  <1>2. IprogApart'
    BY DEF ProgInv, IprogApart
  <1>3. \A x \in Procs : IprogOK(x)'
    BY DEF ProgInv, IprogOK
  <1>4. \A x \in Procs \ {p} : InterpOK(x)' /\ Mine(x)'
    BY DEF ProgInv, InterpOK, Mine
  <1>. QED
    BY <1>1, <1>2, <1>3, <1>4 DEF ProgInv

\* A step of the process with the VM that may change the run queue and the progs.
LEMMA ProgChanged ==
  ASSUME VMInv, ProgInv, ProgTypeOK', NEW p \in Procs, pc[p] \in VMPC,
         \A x \in Procs \ {p} :
           pc'[x] = pc[x] /\ interp'[x] = interp[x] /\ ret'[x] = ret[x] /\ iprog'[x] = iprog[x],
         \A g \in Progs : pstate[g] = "release" /\ g # iprog[p] => pstate'[g] = "release",
         iprog'[p] = NoProg \/ (iprog'[p] \in Progs /\ pstate[iprog'[p]] # "release"),
         Distinct(runq'), \A g \in Progs : In(g, runq') <=> pstate'[g] = "ready",
         \A x \in Procs : In(x, runq') => x = p /\ pc'[p] \in OwnPC,
         InterpOK(p)', IprogOK(p)', Mine(p)'
  PROVE  ProgInv'
  <1>1. RunqInv'
    BY DEF RunqInv
  <1>2. \A x \in Procs \ {p} : iprog[x] # NoProg => iprog[x] \in Progs /\ pstate[iprog[x]] = "release"
    BY DEF ProgInv, IprogOK
  <1>3. \A x \in Procs \ {p} : iprog[x] # NoProg => iprog[x] # iprog[p]
    BY DEF ProgInv, IprogApart
  <1>4. IprogApart'
    BY <1>2, <1>3 DEF ProgInv, IprogApart
  <1>5. \A x \in Procs \ {p} : IprogOK(x)'
    BY <1>2, <1>3, SchedAssumption DEF ProgInv, IprogOK
  <1>6. \A x \in Procs \ {p} : InterpOK(x)' /\ Mine(x)'
    <2>1. \A x \in Procs \ {p} : pc[x] \notin HeadPC \cup OwnPC
      BY RunnerFacts DEF HeadPC, OwnPC, VMPC
    <2>. QED
      BY <2>1 DEF ProgInv, InterpOK, Mine
  <1>. QED
    BY <1>1, <1>4, <1>5, <1>6 DEF ProgInv

\* To collect when idle a process queues itself as a prog.
LEMMA ProgIdleGC == ASSUME VMInv, ProgInv, NEW p \in VProcs, IdleGC(p) PROVE ProgInv'
  <1>1. /\ pc[p] = "idlegc" /\ pc' = [pc EXCEPT ![p] = "gcidle"] /\ p \in Procs
        /\ interp' = [interp EXCEPT ![p] = FALSE] /\ runq = <<>> /\ runq' = Append(runq, p)
        /\ UNCHANGED <<ret, cycles, iprog, R, pstate, gchalters>>
    BY ProcKinds DEF IdleGC, Goto, tready, prvars
  <1>2. /\ pc'[p] = "gcidle" /\ interp'[p] = FALSE
        /\ \A x \in Procs \ {p} : pc'[x] = pc[x] /\ interp'[x] = interp[x]
    BY <1>1 DEF VMInv, VMTypeOK, ProgInv, ProgTypeOK
  <1>3. /\ runq' \in Seq(Progs \cup Procs) /\ runq' # <<>> /\ Distinct(runq')
        /\ \A x : In(x, runq') <=> x = p
    <2>1. /\ runq \in Seq(Progs \cup Procs) /\ p \in Progs \cup Procs
          /\ Distinct(runq) /\ \A x : ~In(x, runq)
      BY <1>1, EmptyIn DEF ProgInv, ProgTypeOK, RunqInv
    <2>2. /\ Append(runq, p) \in Seq(Progs \cup Procs) /\ Append(runq, p) # <<>>
          /\ \A x : In(x, Append(runq, p)) <=> x = p \/ In(x, runq)
          /\ Distinct(Append(runq, p))
      BY <2>1, AppendIn
    <2>. QED
      BY <1>1, <2>1, <2>2
  <1>4. Head(runq') = p
    BY <1>1
  <1>5. ProgTypeOK'
    BY <1>1, <1>3 DEF ProgInv, ProgTypeOK
  <1>6. InterpOK(p)' /\ IprogOK(p)' /\ Mine(p)' /\ iprog'[p] = NoProg
    BY <1>1, <1>2, <1>3, <1>4, SchedAssumption
    DEF ProgInv, InterpOK, IprogOK, Mine, HeadPC, OwnPC, InterpPC, VMPC, IdlePC, AwayPC
  <1>7. \A g \in Progs : In(g, runq') <=> pstate'[g] = "ready"
    BY <1>1, <1>3, EmptyIn, SchedAssumption DEF ProgInv, RunqInv
  <1>. QED
    BY <1>1, <1>2, <1>3, <1>5, <1>6, <1>7, ProgChanged DEF OwnPC, VMPC

\* To collect between quanta a process puts itself before the progs.
LEMMA ProgBusyGC == ASSUME VMInv, ProgInv, NEW p \in VProcs, BusyGC(p) PROVE ProgInv'
  <1>1. /\ pc[p] = "gctest" /\ pc' = [pc EXCEPT ![p] = "gcbusy"] /\ p \in Procs
        /\ interp' = [interp EXCEPT ![p] = FALSE] /\ runq' = <<p>> \o runq
        /\ UNCHANGED <<ret, cycles, iprog, R, pstate, gchalters>>
    BY ProcKinds DEF BusyGC, Goto, prvars
  <1>2. /\ pc'[p] = "gcbusy" /\ interp'[p] = FALSE
        /\ \A x \in Procs \ {p} : pc'[x] = pc[x] /\ interp'[x] = interp[x]
    BY <1>1 DEF VMInv, VMTypeOK, ProgInv, ProgTypeOK
  <1>3. \A x \in Procs : ~In(x, runq)
    BY <1>1, RunnerFacts DEF OwnPC, VMPC
  <1>4. /\ runq' \in Seq(Progs \cup Procs) /\ runq' # <<>> /\ Distinct(runq') /\ Head(runq') = p
        /\ \A x : In(x, runq') <=> x = p \/ In(x, runq)
    BY <1>1, <1>3, ConsIn DEF ProgInv, ProgTypeOK, RunqInv
  <1>5. ProgTypeOK'
    BY <1>1, <1>4 DEF ProgInv, ProgTypeOK
  <1>6. InterpOK(p)' /\ IprogOK(p)' /\ Mine(p)' /\ iprog'[p] = NoProg
    BY <1>1, <1>2, <1>4, SchedAssumption
    DEF ProgInv, InterpOK, IprogOK, Mine, HeadPC, OwnPC, InterpPC, VMPC, IdlePC, AwayPC
  <1>7. \A g \in Progs : In(g, runq') <=> pstate'[g] = "ready"
    BY <1>1, <1>4, SchedAssumption DEF ProgInv, RunqInv
  <1>. QED
    BY <1>1, <1>2, <1>3, <1>4, <1>5, <1>6, <1>7, ProgChanged DEF OwnPC, VMPC

\* execatidle takes its thread's prog out of the run queue, if it is there.
LEMMA ProgGCEnd == ASSUME VMInv, ProgInv, NEW p \in VProcs, GCEnd(p) PROVE ProgInv'
  <1>1. PICK b \in {"sleep", "loop"} :
          /\ pc[p] \in {"gcidle", "gcbusy"} /\ pc' = [pc EXCEPT ![p] = b] /\ p \in Procs
          /\ interp' = [interp EXCEPT ![p] = TRUE] /\ delrunq(p)
          /\ UNCHANGED <<ret, cycles, iprog, R, pstate, gchalters>>
    BY ProcKinds DEF GCEnd, Goto, prvars
  <1>2. /\ pc'[p] = b /\ interp'[p] = TRUE
        /\ \A x \in Procs \ {p} : pc'[x] = pc[x] /\ interp'[x] = interp[x]
    BY <1>1 DEF VMInv, VMTypeOK, ProgInv, ProgTypeOK
  <1>3. runq # <<>> /\ Head(runq) = p
    BY <1>1, RunnerFacts DEF VMPC, OwnPC
  <1>4. /\ Tail(runq) \in Seq(Progs \cup Procs) /\ Distinct(Tail(runq)) /\ In(p, runq)
        /\ \A x : In(x, Tail(runq)) <=> x # p /\ In(x, runq)
    BY <1>3, TailIn DEF ProgInv, ProgTypeOK, RunqInv
  <1>5. runq' = Tail(runq)
    <2>1. runq \in Seq(Progs \cup Procs) /\ p \in ToSet(runq)
      BY <1>4, InToSet DEF ProgInv, ProgTypeOK
    <2>2. PICK i \in DOMAIN runq : /\ runq[i] = p /\ \A j \in 1..(i - 1) : runq[j] # p
                                   /\ runq' = RemoveAt(runq, i)
      BY <1>1, <2>1 DEF delrunq
    <2>3. runq[1] = p /\ i \in Nat /\ i >= 1
      BY <1>3, <2>1, <2>2
    <2>4. i = 1
      BY <2>2, <2>3
    <2>. QED
      BY <1>3, <2>1, <2>2, <2>4, RemoveHead
  <1>6. ProgTypeOK'
    BY <1>1, <1>4, <1>5 DEF ProgInv, ProgTypeOK
  <1>7. InterpOK(p)' /\ IprogOK(p)' /\ Mine(p)' /\ iprog'[p] = NoProg
    BY <1>1, <1>2, SchedAssumption
    DEF ProgInv, InterpOK, IprogOK, Mine, HeadPC, OwnPC, InterpPC, VMPC, IdlePC, AwayPC
  <1>8. \A g \in Progs : In(g, runq') <=> pstate'[g] = "ready"
    BY <1>1, <1>4, <1>5, SchedAssumption DEF ProgInv, RunqInv
  <1>9. \A x \in Procs : ~In(x, runq')
    BY <1>1, <1>4, <1>5, RunnerFacts DEF VMPC
  <1>. QED
    BY <1>1, <1>2, <1>4, <1>5, <1>6, <1>7, <1>8, <1>9, ProgChanged DEF VMPC

\* At the end of its quantum a prog goes to the back of the run queue, or out of it.
LEMMA ProgQuantumEnd == ASSUME VMInv, ProgInv, NEW p \in VProcs, QuantumEnd(p) PROVE ProgInv'
  <1>1. /\ pc[p] \in {"quantum", "resume"} /\ pc' = [pc EXCEPT ![p] = "gctest"] /\ p \in Procs
        /\ runq' = IF Head(runq) = R THEN Append(Tail(runq), R) ELSE runq
        /\ UNCHANGED <<ret, interp, cycles, iprog, R, pstate, gchalters>>
    BY ProcKinds DEF QuantumEnd, Goto, prvars
  <1>2. pc'[p] = "gctest" /\ \A x \in Procs \ {p} : pc'[x] = pc[x]
    BY <1>1 DEF VMInv, VMTypeOK
  <1>3. /\ R \in Progs /\ runq # <<>> /\ Head(runq) = R /\ pstate[R] = "ready" /\ interp[p]
        /\ \A x \in Procs : ~In(x, runq)
    BY <1>1, RunnerFacts DEF VMPC, HeadPC, OwnPC
  <1>4. /\ Tail(runq) \in Seq(Progs \cup Procs) /\ Distinct(Tail(runq)) /\ In(R, runq)
        /\ \A x : In(x, Tail(runq)) <=> x # R /\ In(x, runq)
    BY <1>3, TailIn DEF ProgInv, ProgTypeOK, RunqInv
  <1>5. runq' = Append(Tail(runq), R)
    BY <1>1, <1>3
  <1>6. /\ runq' \in Seq(Progs \cup Procs) /\ Distinct(runq')
        /\ \A x : In(x, runq') <=> x = R \/ In(x, Tail(runq))
    <2>. DEFINE t == Tail(runq)
    <2>1. R \in Progs \cup Procs /\ t \in Seq(Progs \cup Procs) /\ Distinct(t) /\ ~In(R, t)
      BY <1>3, <1>4
    <2>. HIDE DEF t
    <2>2. /\ Append(t, R) \in Seq(Progs \cup Procs) /\ Distinct(Append(t, R))
          /\ \A x : In(x, Append(t, R)) <=> x = R \/ In(x, t)
      BY <2>1, AppendIn
    <2>. QED
      BY <1>5, <2>2 DEF t
  <1>7. ProgTypeOK'
    BY <1>1, <1>6 DEF ProgInv, ProgTypeOK
  <1>8. InterpOK(p)' /\ IprogOK(p)' /\ Mine(p)' /\ iprog'[p] = NoProg
    BY <1>1, <1>2
    DEF ProgInv, InterpOK, IprogOK, Mine, HeadPC, OwnPC, InterpPC, VMPC, IdlePC, AwayPC
  <1>9. \A x : In(x, runq') <=> In(x, runq)
    BY <1>4, <1>6
  <1>10. \A g \in Progs : In(g, runq') <=> pstate'[g] = "ready"
    BY <1>1, <1>9 DEF ProgInv, RunqInv
  <1>. QED
    BY <1>1, <1>2, <1>3, <1>6, <1>7, <1>8, <1>9, <1>10, ProgChanged DEF VMPC

\* The prog that runs leaves the run queue.
LEMMA ProgLeaves ==
  ASSUME VMInv, ProgInv, NEW p \in VProcs, NEW b \in {"gctest", "loop", "cleanexit"},
         NEW s \in {"blocked", "none"},
         pc[p] \in HeadPC, pc' = [pc EXCEPT ![p] = b], pstate' = [pstate EXCEPT ![R] = s],
         runq' = Tail(runq), cycles' \in [VProcs -> 0..Cycles],
         UNCHANGED <<ret, interp, iprog, R, gchalters>>
  PROVE  ProgInv'
  <1>1. p \in Procs /\ pc[p] \in VMPC
    BY ProcKinds DEF HeadPC, VMPC
  <1>2. pc'[p] = b /\ \A x \in Procs \ {p} : pc'[x] = pc[x]
    BY <1>1 DEF VMInv, VMTypeOK
  <1>3. /\ R \in Progs /\ runq # <<>> /\ Head(runq) = R /\ pstate[R] = "ready" /\ interp[p]
        /\ \A x \in Procs : ~In(x, runq)
    BY <1>1, RunnerFacts DEF HeadPC, OwnPC
  <1>4. /\ runq' \in Seq(Progs \cup Procs) /\ Distinct(runq')
        /\ \A x : In(x, runq') <=> x # R /\ In(x, runq)
    BY <1>3, TailIn DEF ProgInv, ProgTypeOK, RunqInv
  <1>5. pstate'[R] = s /\ \A g \in Progs \ {R} : pstate'[g] = pstate[g]
    BY <1>3 DEF ProgInv, ProgTypeOK
  <1>6. ProgTypeOK'
    BY <1>3, <1>4 DEF ProgInv, ProgTypeOK
  <1>7. iprog'[p] = NoProg
    BY <1>1 DEF ProgInv, Mine
  <1>8. InterpOK(p)' /\ IprogOK(p)' /\ Mine(p)'
    BY <1>1, <1>2, <1>7
    DEF ProgInv, InterpOK, IprogOK, Mine, HeadPC, OwnPC, InterpPC, VMPC, IdlePC, AwayPC
  <1>9. \A g \in Progs : In(g, runq') <=> pstate'[g] = "ready"
    BY <1>4, <1>5 DEF ProgInv, RunqInv
  <1>10. \A g \in Progs : pstate[g] = "release" => pstate'[g] = "release"
    BY <1>3, <1>5
  <1>. QED
    BY <1>1, <1>2, <1>3, <1>4, <1>6, <1>7, <1>8, <1>9, <1>10, ProgChanged

\* delrun takes the head of the run queue, which is the running prog, out.
LEMMA Progdelrun == ASSUME VMInv, ProgInv, NEW p \in VProcs, delrun(p) PROVE ProgInv'
  <1>1. /\ pc[p] \in HeadPC /\ pc' = [pc EXCEPT ![p] = "gctest"]
        /\ pstate' = [pstate EXCEPT ![Head(runq)] = "blocked"] /\ runq' = Tail(runq)
        /\ UNCHANGED <<ret, interp, cycles, iprog, R, gchalters>>
    BY DEF delrun, Goto, HeadPC
  <1>2. Head(runq) = R
    BY <1>1, ProcKinds DEF ProgInv, Mine
  <1>3. cycles' \in [VProcs -> 0..Cycles]
    BY <1>1 DEF ProgInv, ProgTypeOK
  <1>. QED
    BY <1>1, <1>2, <1>3, ProgLeaves

\* delprog is delrun by a prog that ends.
LEMMA Progdelprog == ASSUME VMInv, ProgInv, NEW p \in VProcs, delprog(p) PROVE ProgInv'
  <1>1. PICK b \in {"loop", "cleanexit"} : pc' = [pc EXCEPT ![p] = b]
    BY DEF delprog, Goto
  <1>2. /\ pc[p] \in HeadPC /\ pstate' = [pstate EXCEPT ![R] = "none"]
        /\ runq' = (IF Head(runq) = R THEN Tail(runq) ELSE runq)
        /\ cycles' = [cycles EXCEPT ![p] = 0]
        /\ UNCHANGED <<ret, interp, iprog, R, gchalters>>
    BY DEF delprog, Goto, HeadPC
  <1>3. Head(runq) = R
    BY <1>2, ProcKinds DEF ProgInv, Mine
  <1>4. cycles' \in [VProcs -> 0..Cycles]
    BY <1>2, SchedAssumption DEF ProgInv, ProgTypeOK
  <1>. QED
    BY <1>1, <1>2, <1>3, <1>4, ProgLeaves

\* addrun puts a prog that was blocked at the back of the run queue.
LEMMA Progaddrun == ASSUME VMInv, ProgInv, NEW p \in Procs, NEW g \in Progs, addrun(p, g) PROVE ProgInv'
  <1>1. /\ pc[p] \in HeadPC \cup OwnPC /\ pc[p] \in VMPC /\ pstate[g] \in {"blocked", "none"}
        /\ pstate' = [pstate EXCEPT ![g] = "ready"] /\ runq' = Append(runq, g)
        /\ UNCHANGED <<pc, ret, interp, cycles, iprog, R, gchalters>>
    BY DEF addrun, HeadPC, OwnPC, VMPC
  <1>2. ~In(g, runq) /\ runq \in Seq(Progs \cup Procs) /\ Distinct(runq)
    BY <1>1 DEF ProgInv, ProgTypeOK, RunqInv
  <1>3. /\ runq' \in Seq(Progs \cup Procs) /\ runq' # <<>> /\ Distinct(runq')
        /\ \A x : In(x, runq') <=> x = g \/ In(x, runq)
    BY <1>1, <1>2, AppendIn
  <1>4. runq # <<>> /\ Head(runq') = Head(runq)
    <2>1. runq # <<>>
      BY <1>1, RunnerFacts
    <2>. QED
      BY <1>1, <1>2, <2>1, AppendHead
  <1>5. pstate'[g] = "ready" /\ \A h \in Progs \ {g} : pstate'[h] = pstate[h]
    BY <1>1 DEF ProgInv, ProgTypeOK
  <1>6. ProgTypeOK'
    BY <1>1, <1>3 DEF ProgInv, ProgTypeOK
  <1>7. \A x \in Procs : IprogOK(x)'
    BY <1>1, <1>5 DEF ProgInv, IprogOK
  <1>8. \A x \in Procs : InterpOK(x)' /\ Mine(x)'
    BY <1>1, <1>3, <1>4 DEF ProgInv, InterpOK, Mine
  <1>9. RunqInv'
    BY <1>1, <1>3, <1>5, SchedAssumption DEF ProgInv, RunqInv
  <1>10. IprogApart'
    BY <1>1 DEF ProgInv, IprogApart
  <1>. QED
    BY <1>6, <1>7, <1>8, <1>9, <1>10 DEF ProgInv

\* release saves the prog of the interpreter that leaves the VM.
LEMMA ProgRelease ==
  ASSUME VMInv, ProgInv, NEW p \in Procs, NEW r \in Rets \ {"nowhere"}, NEW dtor \in BOOLEAN,
         pc[p] \in RunPC, release(p, r, dtor),
         pc[p] \in OwnPC => r = pc[p], pc[p] \notin OwnPC => r \in {"resume", "exited"}
  PROVE  ProgInv'
  <1>. DEFINE g == Head(runq)
  <1>1. PICK b \in {"relready", "host", "newvm"} : pc' = [pc EXCEPT ![p] = b]
    BY DEF release
  <1>2. /\ ret' = [ret EXCEPT ![p] = r] /\ runq' = Tail(runq) /\ gchalters' \subseteq gchalters \cup {p}
        /\ interp[p] => iprog' = [iprog EXCEPT ![p] = g] /\ pstate' = [pstate EXCEPT ![g] = "release"]
        /\ ~interp[p] => UNCHANGED <<iprog, pstate>>
        /\ UNCHANGED <<interp, cycles, R>>
    BY DEF release
  <1>3. /\ pc'[p] = b /\ ret'[p] = r
        /\ \A x \in Procs \ {p} : pc'[x] = pc[x] /\ ret'[x] = ret[x]
    BY <1>1, <1>2 DEF VMInv, VMTypeOK
  <1>4. /\ pc[p] \in VMPC /\ runq # <<>> /\ (pc[p] \in OwnPC <=> ~interp[p])
        /\ interp[p] => p \in VProcs /\ g \in Progs /\ pstate[g] = "ready"
        /\ ~interp[p] => g = p
        /\ \A x \in Procs \ {p} : ~In(x, runq)
        /\ In(p, runq) => pc[p] \in OwnPC
    BY RunnerFacts DEF RunPC, HeadPC, OwnPC, VMPC
  <1>5. /\ runq' \in Seq(Progs \cup Procs) /\ Distinct(runq')
        /\ \A x : In(x, runq') <=> x # g /\ In(x, runq)
    BY <1>2, <1>4, TailIn DEF ProgInv, ProgTypeOK, RunqInv
  <1>. HIDE DEF g
  <1>6. /\ interp[p] => /\ iprog'[p] = g /\ pstate'[g] = "release"
                        /\ \A h \in Progs \ {g} : pstate'[h] = pstate[h]
        /\ \A x \in Procs \ {p} : iprog'[x] = iprog[x]
    BY <1>2, <1>4 DEF ProgInv, ProgTypeOK
  <1>7. iprog[p] = NoProg
    BY <1>4 DEF ProgInv, IprogOK, Mine, RunPC, HeadPC, OwnPC, AwayPC
  <1>8. ProgTypeOK'
    BY <1>2, <1>4, <1>5 DEF ProgInv, ProgTypeOK
  <1>9. InterpOK(p)'
    <2>1. p \in KProcs => p \notin VProcs /\ pc[p] = "kproc_vm"
      BY <1>4, SchedAssumption DEF ProgInv, InterpOK, RunPC, AwayPC
    <2>2. p \in VProcs => pc[p] # "kproc_vm" /\ p \notin KProcs
      BY SchedAssumption DEF ProgInv, InterpOK
    <2>. QED
      BY <1>2, <1>3, <1>4, <2>1, <2>2
      DEF InterpOK, RunPC, OwnPC, AwayPC, InterpPC, VMPC, IdlePC
  <1>10. IprogOK(p)' /\ Mine(p)'
    BY <1>2, <1>3, <1>4, <1>6, <1>7 DEF IprogOK, Mine, AwayPC, HeadPC, OwnPC
  <1>11. \A h \in Progs : In(h, runq') <=> pstate'[h] = "ready"
    BY <1>2, <1>4, <1>5, <1>6, SchedAssumption DEF ProgInv, RunqInv
  <1>12. \A x \in Procs : ~In(x, runq')
    BY <1>4, <1>5
  <1>13. /\ \A h \in Progs : pstate[h] = "release" => pstate'[h] = "release"
         /\ iprog'[p] = NoProg \/ (iprog'[p] \in Progs /\ pstate[iprog'[p]] # "release")
    BY <1>2, <1>4, <1>6, <1>7
  <1>. QED
    BY <1>2, <1>3, <1>4, <1>5, <1>6, <1>8, <1>9, <1>10, <1>11, <1>12, <1>13, ProgChanged

\* acquire puts the saved prog back at the head of the run queue.
LEMMA ProgRestore == ASSUME VMInv, ProgInv, NEW p \in Procs, Restore(p) PROVE ProgInv'
  <1>. DEFINE g == IF interp[p] THEN iprog[p] ELSE p
  <1>1. /\ pc[p] = "restore" /\ pc' = [pc EXCEPT ![p] = ret[p]] /\ ret' = [ret EXCEPT ![p] = "nowhere"]
        /\ runq' = <<g>> \o runq /\ gchalters' = gchalters \ {p} /\ UNCHANGED <<interp, cycles>>
        /\ interp[p] => /\ R' = g /\ iprog' = [iprog EXCEPT ![p] = NoProg]
                        /\ pstate' = [pstate EXCEPT ![g] = "ready"]
        /\ ~interp[p] => UNCHANGED <<R, iprog, pstate>>
    BY DEF Restore, Goto, prvars
  <1>2. /\ pc'[p] = ret[p] /\ ret'[p] = "nowhere"
        /\ \A x \in Procs \ {p} : pc'[x] = pc[x] /\ ret'[x] = ret[x]
    BY <1>1 DEF VMInv, VMTypeOK
  <1>3. /\ ret[p] \in Rets \ {"nowhere"}
        /\ interp[p] <=> ret[p] \in {"resume", "exited", "failed"}
        /\ ret[p] = "kproc_vm" <=> p \notin VProcs
    BY <1>1 DEF VMInv, VMTypeOK, RetInv, ProgInv, InterpOK, AwayPC, Procs
  <1>4. /\ interp[p] => g \in Progs /\ iprog[p] = g /\ pstate[g] = "release"
        /\ ~interp[p] => g = p /\ iprog[p] = NoProg
    BY <1>1 DEF ProgInv, IprogOK, AwayPC
  <1>5. \A x \in Procs : ~In(x, runq)
    BY <1>1, RunnerFacts DEF VMPC, OwnPC
  <1>. HIDE DEF g
  <1>6. g \in Progs \cup Procs /\ ~In(g, runq)
    BY <1>4, <1>5 DEF ProgInv, RunqInv
  <1>7. /\ runq' \in Seq(Progs \cup Procs) /\ runq' # <<>> /\ Distinct(runq') /\ Head(runq') = g
        /\ \A x : In(x, runq') <=> x = g \/ In(x, runq)
    BY <1>1, <1>6, ConsIn DEF ProgInv, ProgTypeOK, RunqInv
  <1>8. /\ interp[p] => pstate'[g] = "ready" /\ \A h \in Progs \ {g} : pstate'[h] = pstate[h]
        /\ iprog'[p] = NoProg /\ \A x \in Procs \ {p} : iprog'[x] = iprog[x]
    BY <1>1, <1>4 DEF ProgInv, ProgTypeOK
  <1>9. ProgTypeOK'
    BY <1>1, <1>4, <1>7 DEF ProgInv, ProgTypeOK
  <1>10. InterpOK(p)'
    <2>1. p \in KProcs => ~interp[p] /\ p \notin VProcs
      BY SchedAssumption DEF ProgInv, InterpOK
    <2>. QED
      BY <1>1, <1>2, <1>3, <2>1 DEF InterpOK, Rets, AwayPC, InterpPC, VMPC, IdlePC
  <1>11. IprogOK(p)' /\ Mine(p)'
    BY <1>1, <1>2, <1>3, <1>4, <1>7, <1>8 DEF IprogOK, Mine, Rets, AwayPC, HeadPC, OwnPC
  <1>12. \A h \in Progs : In(h, runq') <=> pstate'[h] = "ready"
    BY <1>1, <1>4, <1>7, <1>8, SchedAssumption DEF ProgInv, RunqInv
  <1>13. \A x \in Procs : In(x, runq') => x = p /\ pc'[p] \in OwnPC
    BY <1>2, <1>3, <1>4, <1>5, <1>7, SchedAssumption DEF Rets, OwnPC
  <1>14. \A h \in Progs : pstate[h] = "release" /\ h # iprog[p] => pstate'[h] = "release"
    BY <1>1, <1>4, <1>8
  <1>. QED
    BY <1>1, <1>2, <1>7, <1>8, <1>9, <1>10, <1>11, <1>12, <1>13, <1>14, ProgChanged DEF VMPC

\* Every step keeps the run queue and the progs' invariant.
LEMMA ProgNext == VMInv /\ ProgInv /\ [Next]_vars => ProgInv'
  <1>. SUFFICES ASSUME VMInv, ProgInv PROVE [Next]_vars => ProgInv'
    OBVIOUS
  <1>. USE ProcKinds
  <1>0. pc \in [Procs -> VMPC \cup OtherPC] /\ ret \in [Procs -> Rets]
    BY DEF VMInv, VMTypeOK
  <1>1. ASSUME NEW p \in VProcs, startup(p) PROVE ProgInv'
    <2>1. PICK b \in {"loop", "parked"} :
            /\ pc[p] = "startup" /\ pc' = [pc EXCEPT ![p] = b] /\ interp' = [interp EXCEPT ![p] = TRUE]
            /\ UNCHANGED <<ret, cycles, iprog, R, pstate, runq, gchalters>>
      BY <1>1 DEF startup, prvars
    <2>2. ProgTypeOK'
      BY <2>1 DEF ProgInv, ProgTypeOK
    <2>3. /\ pc'[p] = b /\ interp'[p] = TRUE
          /\ \A x \in Procs \ {p} : pc'[x] = pc[x] /\ interp'[x] = interp[x]
      BY <1>0, <2>1 DEF ProgInv, ProgTypeOK
    <2>4. InterpOK(p)'
      BY <2>1, <2>3, SchedAssumption DEF ProgInv, InterpOK, InterpPC, IdlePC, VMPC, AwayPC
    <2>5. Mine(p)'
      BY <2>1, <2>3 DEF ProgInv, Mine, HeadPC, OwnPC
    <2>. QED
      BY <2>1, <2>2, <2>3, <2>4, <2>5, ProgKept DEF AwayPC, OwnPC
  <1>2. ASSUME NEW p \in VProcs, Unpark(p) PROVE ProgInv'
    <2>1. PICK b \in {"loop", "run"} :
            /\ pc[p] \in {"parked", "yielded"} /\ pc' = [pc EXCEPT ![p] = b]
            /\ UNCHANGED <<ret, interp, iprog, R, pstate, runq, gchalters>>
      BY <1>2 DEF Unpark, Goto, prvars
    <2>2. ProgTypeOK'
      BY <1>2, <2>1, SchedAssumption DEF Unpark, ProgInv, ProgTypeOK
    <2>3. pc'[p] = b /\ \A x \in Procs \ {p} : pc'[x] = pc[x]
      BY <1>0, <2>1
    <2>4. InterpOK(p)'
      BY <2>1, <2>3 DEF ProgInv, InterpOK, InterpPC, IdlePC, VMPC, AwayPC
    <2>5. Mine(p)'
      BY <2>1, <2>3 DEF ProgInv, Mine, HeadPC, OwnPC
    <2>. QED
      BY <2>1, <2>2, <2>3, <2>4, <2>5, ProgKept DEF AwayPC, OwnPC
  <1>3. ASSUME NEW p \in VProcs, Loop(p) PROVE ProgInv'
    <2>1. PICK b \in {"yieldtest", "idlegc", "sleep"} :
            /\ pc[p] \in {"loop", "idlegc"} /\ pc' = [pc EXCEPT ![p] = b]
            /\ UNCHANGED <<ret, interp, iprog, R, pstate, runq, gchalters>>
      BY <1>3 DEF Loop, Goto, prvars
    <2>2. ProgTypeOK'
      BY <1>3, <2>1, SchedAssumption DEF Loop, ProgInv, ProgTypeOK
    <2>3. pc'[p] = b /\ \A x \in Procs \ {p} : pc'[x] = pc[x]
      BY <1>0, <2>1
    <2>4. InterpOK(p)'
      BY <2>1, <2>3 DEF ProgInv, InterpOK, InterpPC, IdlePC, VMPC, AwayPC
    <2>5. Mine(p)'
      BY <2>1, <2>3 DEF ProgInv, Mine, HeadPC, OwnPC
    <2>. QED
      BY <2>1, <2>2, <2>3, <2>4, <2>5, ProgKept DEF AwayPC, OwnPC
  <1>4. ASSUME NEW p \in VProcs, IdleGC(p) PROVE ProgInv'
    BY <1>4, ProgIdleGC
  <1>5. ASSUME NEW p \in VProcs, BusyGC(p) PROVE ProgInv'
    BY <1>5, ProgBusyGC
  <1>6. ASSUME NEW p \in VProcs, NoGC(p) PROVE ProgInv'
    <2>1. PICK b \in {"loop"} :
            /\ pc[p] \in {"gctest"} /\ pc' = [pc EXCEPT ![p] = b]
            /\ UNCHANGED <<ret, interp, iprog, R, pstate, runq, gchalters>>
      BY <1>6 DEF NoGC, Goto, prvars
    <2>2. ProgTypeOK'
      BY <1>6, <2>1, SchedAssumption DEF NoGC, ProgInv, ProgTypeOK
    <2>3. pc'[p] = b /\ \A x \in Procs \ {p} : pc'[x] = pc[x]
      BY <1>0, <2>1
    <2>4. InterpOK(p)'
      BY <2>1, <2>3 DEF ProgInv, InterpOK, InterpPC, IdlePC, VMPC, AwayPC
    <2>5. Mine(p)'
      BY <2>1, <2>3 DEF ProgInv, Mine, HeadPC, OwnPC
    <2>. QED
      BY <2>1, <2>2, <2>3, <2>4, <2>5, ProgKept DEF AwayPC, OwnPC
  <1>7. ASSUME NEW p \in VProcs, GCEnd(p) PROVE ProgInv'
    BY <1>7, ProgGCEnd
  <1>8. ASSUME NEW p \in VProcs, SleepLock(p) PROVE ProgInv'
    <2>1. PICK b \in {"sleeptest"} :
            /\ pc[p] \in {"sleep"} /\ pc' = [pc EXCEPT ![p] = b]
            /\ UNCHANGED <<ret, interp, iprog, R, pstate, runq, gchalters>>
      BY <1>8 DEF SleepLock, Goto, prvars
    <2>2. ProgTypeOK'
      BY <1>8, <2>1, SchedAssumption DEF SleepLock, ProgInv, ProgTypeOK
    <2>3. pc'[p] = b /\ \A x \in Procs \ {p} : pc'[x] = pc[x]
      BY <1>0, <2>1
    <2>4. InterpOK(p)'
      BY <2>1, <2>3 DEF ProgInv, InterpOK, InterpPC, IdlePC, VMPC, AwayPC
    <2>5. Mine(p)'
      BY <2>1, <2>3 DEF ProgInv, Mine, HeadPC, OwnPC
    <2>. QED
      BY <2>1, <2>2, <2>3, <2>4, <2>5, ProgKept DEF AwayPC, OwnPC
  <1>9. ASSUME NEW p \in VProcs, SleepReady(p) PROVE ProgInv'
    <2>1. PICK b \in {"yieldtest"} :
            /\ pc[p] \in {"sleeptest"} /\ pc' = [pc EXCEPT ![p] = b]
            /\ UNCHANGED <<ret, interp, iprog, R, pstate, runq, gchalters>>
      BY <1>9 DEF SleepReady, Goto, prvars
    <2>2. ProgTypeOK'
      BY <1>9, <2>1, SchedAssumption DEF SleepReady, ProgInv, ProgTypeOK
    <2>3. pc'[p] = b /\ \A x \in Procs \ {p} : pc'[x] = pc[x]
      BY <1>0, <2>1
    <2>4. InterpOK(p)'
      BY <2>1, <2>3 DEF ProgInv, InterpOK, InterpPC, IdlePC, VMPC, AwayPC
    <2>5. Mine(p)'
      BY <2>1, <2>3 DEF ProgInv, Mine, HeadPC, OwnPC
    <2>. QED
      BY <2>1, <2>2, <2>3, <2>4, <2>5, ProgKept DEF AwayPC, OwnPC
  <1>10. ASSUME NEW p \in VProcs, SleepCommit(p) PROVE ProgInv'
    <2>1. PICK b \in {"asleep"} :
            /\ pc[p] \in {"sleeptest"} /\ pc' = [pc EXCEPT ![p] = b]
            /\ UNCHANGED <<ret, interp, iprog, R, pstate, runq, gchalters>>
      BY <1>10 DEF SleepCommit, Goto, prvars
    <2>2. ProgTypeOK'
      BY <1>10, <2>1, SchedAssumption DEF SleepCommit, ProgInv, ProgTypeOK
    <2>3. pc'[p] = b /\ \A x \in Procs \ {p} : pc'[x] = pc[x]
      BY <1>0, <2>1
    <2>4. InterpOK(p)'
      BY <2>1, <2>3 DEF ProgInv, InterpOK, InterpPC, IdlePC, VMPC, AwayPC
    <2>5. Mine(p)'
      BY <2>1, <2>3 DEF ProgInv, Mine, HeadPC, OwnPC
    <2>. QED
      BY <2>1, <2>2, <2>3, <2>4, <2>5, ProgKept DEF AwayPC, OwnPC
  <1>11. ASSUME NEW p \in VProcs, Awake(p) PROVE ProgInv'
    <2>1. PICK b \in {"yieldtest"} :
            /\ pc[p] \in {"asleep"} /\ pc' = [pc EXCEPT ![p] = b]
            /\ UNCHANGED <<ret, interp, iprog, R, pstate, runq, gchalters>>
      BY <1>11 DEF Awake, Goto, prvars
    <2>2. ProgTypeOK'
      BY <1>11, <2>1, SchedAssumption DEF Awake, ProgInv, ProgTypeOK
    <2>3. pc'[p] = b /\ \A x \in Procs \ {p} : pc'[x] = pc[x]
      BY <1>0, <2>1
    <2>4. InterpOK(p)'
      BY <2>1, <2>3 DEF ProgInv, InterpOK, InterpPC, IdlePC, VMPC, AwayPC
    <2>5. Mine(p)'
      BY <2>1, <2>3 DEF ProgInv, Mine, HeadPC, OwnPC
    <2>. QED
      BY <2>1, <2>2, <2>3, <2>4, <2>5, ProgKept DEF AwayPC, OwnPC
  <1>12. ASSUME NEW p \in VProcs, NoYield(p) PROVE ProgInv'
    <2>1. PICK b \in {"run"} :
            /\ pc[p] \in {"yieldtest"} /\ pc' = [pc EXCEPT ![p] = b]
            /\ UNCHANGED <<ret, interp, iprog, R, pstate, runq, gchalters>>
      BY <1>12 DEF NoYield, Goto, prvars
    <2>2. ProgTypeOK'
      BY <1>12, <2>1, SchedAssumption DEF NoYield, ProgInv, ProgTypeOK
    <2>3. pc'[p] = b /\ \A x \in Procs \ {p} : pc'[x] = pc[x]
      BY <1>0, <2>1
    <2>4. InterpOK(p)'
      BY <2>1, <2>3 DEF ProgInv, InterpOK, InterpPC, IdlePC, VMPC, AwayPC
    <2>5. Mine(p)'
      BY <2>1, <2>3 DEF ProgInv, Mine, HeadPC, OwnPC
    <2>. QED
      BY <2>1, <2>2, <2>3, <2>4, <2>5, ProgKept DEF AwayPC, OwnPC
  <1>13. ASSUME NEW p \in VProcs, Yield(p) PROVE ProgInv'
    <2>1. PICK b \in {"iyield"} :
            /\ pc[p] \in {"yieldtest"} /\ pc' = [pc EXCEPT ![p] = b]
            /\ UNCHANGED <<ret, interp, iprog, R, pstate, runq, gchalters>>
      BY <1>13 DEF Yield, Goto, prvars
    <2>2. ProgTypeOK'
      BY <1>13, <2>1, SchedAssumption DEF Yield, ProgInv, ProgTypeOK
    <2>3. pc'[p] = b /\ \A x \in Procs \ {p} : pc'[x] = pc[x]
      BY <1>0, <2>1
    <2>4. InterpOK(p)'
      BY <2>1, <2>3 DEF ProgInv, InterpOK, InterpPC, IdlePC, VMPC, AwayPC
    <2>5. Mine(p)'
      BY <2>1, <2>3 DEF ProgInv, Mine, HeadPC, OwnPC
    <2>. QED
      BY <2>1, <2>2, <2>3, <2>4, <2>5, ProgKept DEF AwayPC, OwnPC
  <1>14. ASSUME NEW p \in VProcs, iyield(p) PROVE ProgInv'
    <2>1. PICK b \in {"yready"} :
            /\ pc[p] \in {"iyield"} /\ pc' = [pc EXCEPT ![p] = b]
            /\ UNCHANGED <<ret, interp, iprog, R, pstate, runq, gchalters>>
      BY <1>14 DEF iyield, Goto, prvars
    <2>2. ProgTypeOK'
      BY <1>14, <2>1, SchedAssumption DEF iyield, ProgInv, ProgTypeOK
    <2>3. pc'[p] = b /\ \A x \in Procs \ {p} : pc'[x] = pc[x]
      BY <1>0, <2>1
    <2>4. InterpOK(p)'
      BY <2>1, <2>3 DEF ProgInv, InterpOK, InterpPC, IdlePC, VMPC, AwayPC
    <2>5. Mine(p)'
      BY <2>1, <2>3 DEF ProgInv, Mine, HeadPC, OwnPC
    <2>. QED
      BY <2>1, <2>2, <2>3, <2>4, <2>5, ProgKept DEF AwayPC, OwnPC
  <1>15. ASSUME NEW p \in VProcs, Run(p) PROVE ProgInv'
    <2>1. PICK b \in {"quantum", "loop"} :
            /\ pc[p] = "run" /\ pc' = [pc EXCEPT ![p] = b]
            /\ IF b = "quantum" THEN runq # <<>> /\ R' = Head(runq) ELSE R' = R
            /\ UNCHANGED <<ret, interp, cycles, iprog, pstate, runq, gchalters>>
      BY <1>15 DEF Run, Goto
    <2>2. /\ \A x \in Procs : pc[x] \notin HeadPC
          /\ runq # <<>> => Head(runq) \in Progs
      <3>1. \A x \in Procs \ {p} : pc[x] \notin VMPC
        BY <2>1, RunnerFacts DEF VMPC
      <3>2. runq # <<>> => Head(runq) \in Progs \cup {p} /\ (In(p, runq) => pc[p] \in OwnPC)
        BY <2>1, RunnerFacts DEF VMPC
      <3>3. runq # <<>> => In(Head(runq), runq)
        BY TailIn DEF ProgInv, ProgTypeOK, RunqInv
      <3>. QED
        BY <2>1, <3>1, <3>2, <3>3 DEF HeadPC, OwnPC, VMPC
    <2>3. pc'[p] = b /\ \A x \in Procs \ {p} : pc'[x] = pc[x]
      BY <1>0, <2>1
    <2>4. ProgTypeOK'
      BY <2>1, <2>2 DEF ProgInv, ProgTypeOK
    <2>5. InterpOK(p)'
      BY <2>1, <2>3 DEF ProgInv, InterpOK, InterpPC, IdlePC, VMPC, AwayPC
    <2>6. iprog'[p] = NoProg
      BY <2>1 DEF ProgInv, IprogOK, AwayPC
    <2>7. Mine(p)'
      BY <2>1, <2>3, <2>6 DEF Mine, HeadPC, OwnPC
    <2>. QED
      BY <2>1, <2>2, <2>3, <2>4, <2>5, <2>7, ProgKept DEF AwayPC, OwnPC
  <1>16. ASSUME NEW p \in VProcs, QuantumEnd(p) PROVE ProgInv'
    BY <1>16, ProgQuantumEnd
  <1>17. ASSUME NEW p \in VProcs, delrun(p) PROVE ProgInv'
    BY <1>17, Progdelrun
  <1>18. ASSUME NEW p \in VProcs, Error(p) PROVE ProgInv'
    <2>1. PICK b \in {"failed"} :
            /\ pc[p] \in {"quantum", "resume"} /\ pc' = [pc EXCEPT ![p] = b]
            /\ UNCHANGED <<ret, interp, iprog, R, pstate, runq, gchalters>>
      BY <1>18 DEF Error, Goto, prvars
    <2>2. ProgTypeOK'
      BY <1>18, <2>1, SchedAssumption DEF Error, ProgInv, ProgTypeOK
    <2>3. pc'[p] = b /\ \A x \in Procs \ {p} : pc'[x] = pc[x]
      BY <1>0, <2>1
    <2>4. InterpOK(p)'
      BY <2>1, <2>3 DEF ProgInv, InterpOK, InterpPC, IdlePC, VMPC, AwayPC
    <2>5. Mine(p)'
      BY <2>1, <2>3 DEF ProgInv, Mine, HeadPC, OwnPC
    <2>. QED
      BY <2>1, <2>2, <2>3, <2>4, <2>5, ProgKept DEF AwayPC, OwnPC
  <1>19. ASSUME NEW p \in VProcs, Handled(p) PROVE ProgInv'
    <2>1. PICK b \in {"loop"} :
            /\ pc[p] \in {"failed"} /\ pc' = [pc EXCEPT ![p] = b]
            /\ UNCHANGED <<ret, interp, iprog, R, pstate, runq, gchalters>>
      BY <1>19 DEF Handled, Goto, prvars
    <2>2. ProgTypeOK'
      BY <1>19, <2>1, SchedAssumption DEF Handled, ProgInv, ProgTypeOK
    <2>3. pc'[p] = b /\ \A x \in Procs \ {p} : pc'[x] = pc[x]
      BY <1>0, <2>1
    <2>4. InterpOK(p)'
      BY <2>1, <2>3 DEF ProgInv, InterpOK, InterpPC, IdlePC, VMPC, AwayPC
    <2>5. Mine(p)'
      BY <2>1, <2>3 DEF ProgInv, Mine, HeadPC, OwnPC
    <2>. QED
      BY <2>1, <2>2, <2>3, <2>4, <2>5, ProgKept DEF AwayPC, OwnPC
  <1>20. ASSUME NEW p \in VProcs, delprog(p) PROVE ProgInv'
    BY <1>20, Progdelprog
  <1>21. ASSUME NEW p \in VProcs, NEW k \in KProcs, StartKProc(p, k) PROVE ProgInv'
    <2>1. /\ pc[k] = "off" /\ pc' = [pc EXCEPT ![k] = "host"] /\ ret' = [ret EXCEPT ![k] = "kproc_vm"]
          /\ UNCHANGED <<interp, cycles, iprog, R, pstate, runq, gchalters>>
      BY <1>21 DEF StartKProc, prvars
    <2>2. ProgTypeOK'
      BY <2>1 DEF ProgInv, ProgTypeOK
    <2>3. /\ pc'[k] = "host" /\ ret'[k] = "kproc_vm"
          /\ \A x \in Procs \ {k} : pc'[x] = pc[x] /\ ret'[x] = ret[x]
      BY <1>0, <2>1
    <2>4. k \notin VProcs /\ ~interp[k]
      BY SchedAssumption DEF ProgInv, InterpOK
    <2>5. InterpOK(k)'
      BY <2>1, <2>3, <2>4 DEF InterpOK, AwayPC
    <2>6. iprog[k] = NoProg
      BY <2>4 DEF ProgInv, IprogOK
    <2>7. Mine(k)' /\ IprogOK(k)'
      BY <2>1, <2>3, <2>4, <2>6 DEF Mine, IprogOK, HeadPC, OwnPC
    <2>8. \A x \in Procs \ {k} : InterpOK(x)' /\ Mine(x)' /\ IprogOK(x)'
      BY <2>1, <2>3 DEF ProgInv, InterpOK, Mine, IprogOK
    <2>9. RunqInv' /\ IprogApart'
      BY <2>1, <2>3 DEF ProgInv, RunqInv, IprogApart, OwnPC
    <2>. QED
      BY <2>2, <2>5, <2>7, <2>8, <2>9 DEF ProgInv
  <1>22. ASSUME NEW p \in Procs, Ready(p) PROVE ProgInv'
    <2>1. PICK b \in {"yielded", "host"} :
            /\ pc[p] = IF b = "yielded" THEN "yready" ELSE "relready"
            /\ pc' = [pc EXCEPT ![p] = b]
            /\ UNCHANGED <<ret, interp, cycles, iprog, R, pstate, runq, gchalters>>
      BY <1>22 DEF Ready, Goto, prvars
    <2>2. ProgTypeOK'
      BY <2>1 DEF ProgInv, ProgTypeOK
    <2>3. pc'[p] = b /\ \A x \in Procs \ {p} : pc'[x] = pc[x]
      BY <1>0, <2>1
    <2>4. InterpOK(p)'
      BY <2>1, <2>3 DEF ProgInv, InterpOK, InterpPC, IdlePC, VMPC, AwayPC
    <2>5. Mine(p)'
      BY <2>1, <2>3 DEF ProgInv, Mine, HeadPC, OwnPC
    <2>. QED
      BY <2>1, <2>2, <2>3, <2>4, <2>5, ProgKept DEF AwayPC, OwnPC
  <1>23. ASSUME NEW p \in Procs, Release(p) PROVE ProgInv'
    <2>1. PICK r \in Rets \ {"nowhere"}, dtor \in BOOLEAN :
            /\ pc[p] \in RunPC /\ release(p, r, dtor)
            /\ pc[p] \in OwnPC => r = pc[p]
            /\ pc[p] \notin OwnPC => r \in {"resume", "exited"}
      BY <1>23, SchedAssumption DEF Release, RunPC, OwnPC, Rets
    <2>. QED
      BY <2>1, ProgRelease
  <1>24. ASSUME NEW p \in Procs, Acquire(p) PROVE ProgInv'
    <2>1. PICK b \in {"restore", "wakeirend", "acqblock"} :
            /\ pc[p] \in {"host"} /\ pc' = [pc EXCEPT ![p] = b]
            /\ UNCHANGED <<ret, interp, iprog, R, pstate, runq, gchalters>>
      BY <1>24 DEF Acquire, acquire, Goto, prvars
    <2>2. ProgTypeOK'
      BY <1>24, <2>1, SchedAssumption DEF Acquire, acquire, ProgInv, ProgTypeOK
    <2>3. pc'[p] = b /\ \A x \in Procs \ {p} : pc'[x] = pc[x]
      BY <1>0, <2>1
    <2>4. InterpOK(p)'
      BY <2>1, <2>3 DEF ProgInv, InterpOK, InterpPC, IdlePC, VMPC, AwayPC
    <2>5. Mine(p)'
      BY <2>1, <2>3 DEF ProgInv, Mine, HeadPC, OwnPC
    <2>. QED
      BY <2>1, <2>2, <2>3, <2>4, <2>5, ProgKept DEF AwayPC, OwnPC
  <1>25. ASSUME NEW p \in Procs, AcquireError(p) PROVE ProgInv'
    <2>1. PICK b \in {"restore", "wakeirend", "acqblock"} :
            /\ pc[p] = "host" /\ pc' = [pc EXCEPT ![p] = b]
            /\ ret[p] = "resume" /\ ret' = [ret EXCEPT ![p] = "failed"]
            /\ UNCHANGED <<interp, cycles, iprog, R, pstate, runq, gchalters>>
      BY <1>25 DEF AcquireError, acquire, prvars
    <2>2. ProgTypeOK'
      BY <2>1 DEF ProgInv, ProgTypeOK
    <2>3. pc'[p] = b /\ ret'[p] = "failed" /\ \A x \in Procs \ {p} : pc'[x] = pc[x] /\ ret'[x] = ret[x]
      BY <1>0, <2>1
    <2>4. InterpOK(p)'
      BY <2>1, <2>3 DEF ProgInv, InterpOK, InterpPC, IdlePC, VMPC, AwayPC
    <2>5. Mine(p)'
      BY <2>1, <2>3 DEF ProgInv, Mine, HeadPC, OwnPC
    <2>. QED
      BY <2>1, <2>2, <2>3, <2>4, <2>5, ProgKept DEF AwayPC, OwnPC
  <1>26. ASSUME NEW p \in Procs, WakeIrend(p) PROVE ProgInv'
    <2>1. PICK b \in {"acqblock"} :
            /\ pc[p] \in {"wakeirend"} /\ pc' = [pc EXCEPT ![p] = b]
            /\ UNCHANGED <<ret, interp, iprog, R, pstate, runq, gchalters>>
      BY <1>26 DEF WakeIrend, Goto, prvars
    <2>2. ProgTypeOK'
      BY <1>26, <2>1, SchedAssumption DEF WakeIrend, ProgInv, ProgTypeOK
    <2>3. pc'[p] = b /\ \A x \in Procs \ {p} : pc'[x] = pc[x]
      BY <1>0, <2>1
    <2>4. InterpOK(p)'
      BY <2>1, <2>3 DEF ProgInv, InterpOK, InterpPC, IdlePC, VMPC, AwayPC
    <2>5. Mine(p)'
      BY <2>1, <2>3 DEF ProgInv, Mine, HeadPC, OwnPC
    <2>. QED
      BY <2>1, <2>2, <2>3, <2>4, <2>5, ProgKept DEF AwayPC, OwnPC
  <1>27. ASSUME NEW p \in Procs, Acquired(p) PROVE ProgInv'
    <2>1. PICK b \in {"restore"} :
            /\ pc[p] \in {"acqblock"} /\ pc' = [pc EXCEPT ![p] = b]
            /\ UNCHANGED <<ret, interp, iprog, R, pstate, runq, gchalters>>
      BY <1>27 DEF Acquired, Goto, prvars
    <2>2. ProgTypeOK'
      BY <1>27, <2>1, SchedAssumption DEF Acquired, ProgInv, ProgTypeOK
    <2>3. pc'[p] = b /\ \A x \in Procs \ {p} : pc'[x] = pc[x]
      BY <1>0, <2>1
    <2>4. InterpOK(p)'
      BY <2>1, <2>3 DEF ProgInv, InterpOK, InterpPC, IdlePC, VMPC, AwayPC
    <2>5. Mine(p)'
      BY <2>1, <2>3 DEF ProgInv, Mine, HeadPC, OwnPC
    <2>. QED
      BY <2>1, <2>2, <2>3, <2>4, <2>5, ProgKept DEF AwayPC, OwnPC
  <1>28. ASSUME NEW p \in Procs, Restore(p) PROVE ProgInv'
    BY <1>28, ProgRestore
  <1>29. ASSUME NEW p \in Procs, NEW v \in VProcs, NewVM(p, v) PROVE ProgInv'
    <2>1. /\ pc[p] = "newvm" /\ pc[v] = "off" /\ pc' = [pc EXCEPT ![p] = "host", ![v] = "startup"]
          /\ UNCHANGED <<ret, interp, cycles, iprog, R, pstate, runq, gchalters>>
      BY <1>29 DEF NewVM, prvars
    <2>2. ProgTypeOK'
      BY <2>1 DEF ProgInv, ProgTypeOK
    <2>3. /\ pc'[p] = "host" /\ pc'[v] = "startup" /\ p # v
          /\ \A x \in Procs \ {p, v} : pc'[x] = pc[x]
      BY <1>0, <2>1
    <2>4. \A x \in Procs : InterpOK(x)'
      BY <2>1, <2>3, SchedAssumption DEF ProgInv, InterpOK, InterpPC, IdlePC, VMPC, AwayPC
    <2>5. \A x \in Procs : Mine(x)' /\ IprogOK(x)'
      BY <2>1, <2>3 DEF ProgInv, Mine, IprogOK, HeadPC, OwnPC, AwayPC
    <2>6. RunqInv' /\ IprogApart'
      BY <2>1, <2>3 DEF ProgInv, RunqInv, IprogApart, OwnPC
    <2>. QED
      BY <2>2, <2>4, <2>5, <2>6 DEF ProgInv
  <1>30. ASSUME NEW p \in Procs, NEW g \in Progs, addrun(p, g) PROVE ProgInv'
    BY <1>30, Progaddrun
  <1>31. ASSUME UNCHANGED vars PROVE ProgInv'
    <2>1. UNCHANGED <<pc, ret, interp, cycles, iprog, R, pstate, runq, gchalters>>
      BY <1>31 DEF vars, prvars
    <2>. QED
      BY <2>1 DEF ProgInv, ProgTypeOK, IprogApart, RunqInv, InterpOK, IprogOK, Mine
  <1>. QED
    BY <1>1, <1>2, <1>3, <1>4, <1>5, <1>6, <1>7, <1>8, <1>9, <1>10, <1>11, <1>12, <1>13, <1>14, <1>15,
       <1>16, <1>17, <1>18, <1>19, <1>20, <1>21, <1>22, <1>23, <1>24, <1>25, <1>26, <1>27, <1>28, <1>29, <1>30, <1>31
    DEF Next, VStep, PStep

\* Whoever has the VM and takes the head of the run queue for its own prog is right:
\* no release, acquire, collection, kill or error in between puts another prog there
\* (currun, release and acquire).
THEOREM CurrunHolds == Spec => []CurrunIsMine
  <1>1. Init => VMInv /\ ProgInv
    BY VMInit, ProgInit
  <1>2. VMInv /\ ProgInv /\ [Next]_vars => (VMInv /\ ProgInv)'
    BY VMNext, ProgNext
  <1>3. ProgInv => CurrunIsMine
    BY MineIsCurrun DEF ProgInv
  <1>. QED
    BY <1>1, <1>2, <1>3, PTL DEF Spec

\* Every variable stays in its type; in particular no semaphore is raised twice, and
\* the registers and the progs away in host code are always those of a prog.
THEOREM TypeCorrect == Spec => []TypeOK
  <1>1. Init => VMInv /\ ProgInv
    BY VMInit, ProgInit
  <1>2. VMInv /\ ProgInv /\ [Next]_vars => (VMInv /\ ProgInv)'
    BY VMNext, ProgNext
  <1>3. VMInv /\ ProgInv => TypeOK
    BY DEF VMInv, VMTypeOK, ProgInv, ProgTypeOK, TypeOK, Rets
  <1>. QED
    BY <1>1, <1>2, <1>3, PTL DEF Spec

-----------------------------------------------------------------------------
(* How many processes run vmachine.                                        *)

\* Away in a destructor of the collector.
GCAway(p) == pc[p] \in AwayPC /\ ret[p] \in {"gcidle", "gcbusy"}

HaltInv ==
  /\ \A p \in Procs : GCAway(p) => p \in gchalters
  /\ \A p1, p2 \in Procs : GCAway(p1) /\ GCAway(p2) => p1 = p2

Started == {p \in VProcs : pc[p] # "off"}

CountInv ==
  /\ Cardinality(Started) <= Cardinality(Progs) + 2
  /\ (\E p \in Procs : pc[p] = "newvm") => Cardinality(Started) <= Cardinality(Progs) + 1

LoadInv == VMInv /\ ComingInv /\ ProgInv /\ HaltInv

\* When release finds nobody to give the VM to, every process that runs vmachine is
\* away for a prog of its own, but for one that may be away in a collection.
IdleBound ==
  LoadInv /\ idle /\ vmq = <<>> /\ idlevmq = <<>> /\ (\E p \in Procs : pc[p] = "newvm") =>
    Cardinality(Started) <= Cardinality(Progs) + 1

\* Who asks for a new interpreter leaves room for it.
LEMMA IdleCount == IdleBound
  <1>. SUFFICES ASSUME LoadInv, idle, vmq = <<>>, idlevmq = <<>>, NEW p \in Procs, pc[p] = "newvm"
                PROVE  Cardinality(Started) <= Cardinality(Progs) + 1
    BY DEF IdleBound
  <1>. USE SchedAssumption, ProcKinds
  <1>1. \A x \in Procs : ~Holds(x)
    BY DEF LoadInv, VMInv, HolderInv
  <1>2. ASSUME NEW x \in Started PROVE pc[x] \in AwayPC /\ x \in Procs
    <2>1. x \in Procs /\ pc[x] \in (VMPC \cup OtherPC) \ {"off"}
      BY DEF Started, LoadInv, VMInv, VMTypeOK
    <2>2. pc[x] # "startup"
      BY <2>1 DEF LoadInv, ComingInv, Coming
    <2>3. pc[x] \notin GivePC
      BY <1>1, <2>1 DEF LoadInv, VMInv, GiveInv
    <2>4. pc[x] \notin VMPC \cup WaitPC \cup {"parked", "yielded"}
      BY <1>1, <2>1, EmptyIn DEF Holds
    <2>. QED
      BY <2>1, <2>2, <2>3, <2>4 DEF OtherPC, GivePC, WaitPC, AwayPC
  <1>. DEFINE S == {x \in Started : interp[x]}
              T == {x \in Started : ~interp[x]}
              f == [x \in S |-> iprog[x]]
  <1>3. Cardinality(S) <= Cardinality(Progs) /\ IsFiniteSet(S)
    <2>1. \A x \in S : iprog[x] \in Progs
      BY <1>2 DEF LoadInv, ProgInv, IprogOK
    <2>2. \A x, y \in S : iprog[x] = iprog[y] => x = y
      BY <1>2, <2>1 DEF LoadInv, ProgInv, IprogApart
    <2>3. f \in Injection(S, Progs)
      BY <2>1, <2>2 DEF Injection, IsInjective
    <2>. HIDE DEF f, S
    <2>. QED
      BY <2>3, FS_Injection
  <1>4. T = {} \/ \E x : T = {x}
    <2>1. \A x \in T : GCAway(x)
      BY <1>2 DEF Started, LoadInv, ProgInv, InterpOK, GCAway, VMInv, VMTypeOK, RetInv, Rets
    <2>2. \A x, y \in T : x = y
      BY <1>2, <2>1 DEF LoadInv, HaltInv
    <2>. HIDE DEF T
    <2>. QED
      BY <2>2
  <1>5. Cardinality(Started) <= Cardinality(S) + 1
    <2>1. CASE T = {}
      <3>1. Started = S
        BY <2>1
      <3>. HIDE DEF S
      <3>. QED
        BY <1>3, <3>1, FS_CardinalityType
    <2>2. CASE T # {}
      <3>1. PICK x : T = {x}
        BY <2>2, <1>4
      <3>2. Started = S \cup {x}
        BY <3>1
      <3>. HIDE DEF S
      <3>3. Cardinality(S \cup {x}) = IF x \in S THEN Cardinality(S) ELSE Cardinality(S) + 1
        BY <1>3, FS_AddElement
      <3>4. Cardinality(S) \in Nat
        BY <1>3, FS_CardinalityType
      <3>. QED
        BY <3>2, <3>3, <3>4
    <2>. QED
      BY <2>1, <2>2
  <1>. HIDE DEF S, T
  <1>6. Cardinality(S) \in Nat /\ Cardinality(Progs) \in Nat /\ IsFiniteSet(Started)
    <2>1. Started \subseteq VProcs
      BY DEF Started
    <2>. QED
      BY <1>3, <2>1, FS_CardinalityType, FS_Subset
  <1>7. Cardinality(Started) \in Nat
    BY <1>6, FS_CardinalityType
  <1>. QED
    BY <1>3, <1>5, <1>6, <1>7

\* release asks for a process only when the bound allows one more.
LEMMA CountRelease ==
  ASSUME LoadInv, LoadInv', CountInv, NEW p \in Procs, pc[p] \in RunPC, NEW r, NEW dtor,
         release(p, r, dtor)
  PROVE  CountInv'
  <1>1. PICK b \in {"relready", "host", "newvm"} :
          /\ pc' = [pc EXCEPT ![p] = b]
          /\ b = "newvm" => idle' /\ vmq' = <<>> /\ idlevmq' = <<>>
    BY DEF release
  <1>2. pc'[p] = b /\ \A x \in Procs \ {p} : pc'[x] = pc[x]
    BY <1>1 DEF LoadInv, VMInv, VMTypeOK
  <1>3. Started' = Started
    BY <1>2, ProcKinds DEF Started, RunPC
  <1>4. CASE b = "newvm"
    <2>1. IdleBound'
      BY IdleCount, PTL
    <2>. QED
      BY <1>1, <1>2, <1>3, <1>4, <2>1 DEF IdleBound, CountInv
  <1>5. CASE b # "newvm"
    BY <1>2, <1>3, <1>5 DEF CountInv
  <1>. QED
    BY <1>4, <1>5

\* A step that sends nobody away in a collection keeps HaltInv.
LEMMA HaltKept ==
  ASSUME HaltInv, gchalters' = gchalters, \A x \in Procs : GCAway(x)' => GCAway(x)
  PROVE  HaltInv'
  BY DEF HaltInv

\* release keeps HaltInv, for a collection as well.
LEMMA HaltRelease ==
  ASSUME VMInv, HaltInv, NEW p \in Procs, NEW r, NEW dtor, pc[p] \in RunPC, release(p, r, dtor),
         r \in {"gcidle", "gcbusy"} => dtor /\ gchalters = {}
  PROVE  HaltInv'
  <1>1. PICK b : pc' = [pc EXCEPT ![p] = b]
    BY DEF release
  <1>2. ret' = [ret EXCEPT ![p] = r] /\ gchalters' = IF dtor THEN gchalters \cup {p} ELSE gchalters
    BY DEF release
  <1>3. ret'[p] = r /\ \A x \in Procs \ {p} : pc'[x] = pc[x] /\ ret'[x] = ret[x]
    BY <1>1, <1>2 DEF VMInv, VMTypeOK
  <1>4. \A x \in Procs \ {p} : GCAway(x)' <=> GCAway(x)
    BY <1>3 DEF GCAway
  <1>5. CASE r \in {"gcidle", "gcbusy"}
    BY <1>2, <1>4, <1>5 DEF HaltInv
  <1>6. CASE r \notin {"gcidle", "gcbusy"}
    <2>1. ~GCAway(p)'
      BY <1>3, <1>6 DEF GCAway
    <2>. QED
      BY <1>2, <1>4, <2>1 DEF HaltInv
  <1>. QED
    BY <1>5, <1>6

\* Every step keeps the invariant of the processes away in a collection.
LEMMA HaltNext == VMInv /\ HaltInv /\ [Next]_vars => HaltInv'
  <1>. SUFFICES ASSUME VMInv, HaltInv PROVE [Next]_vars => HaltInv'
    OBVIOUS
  <1>. USE ProcKinds
  <1>0. pc \in [Procs -> VMPC \cup OtherPC] /\ ret \in [Procs -> Rets]
    BY DEF VMInv, VMTypeOK
  <1>1. ASSUME NEW p \in VProcs, startup(p) PROVE HaltInv'
    <2>1. PICK b : /\ pc' = [pc EXCEPT ![p] = b] /\ (b \in AwayPC => pc[p] \in AwayPC)
                   /\ UNCHANGED <<ret, gchalters>>
      BY <1>0, <1>1 DEF startup, Goto, AwayPC
    <2>. QED
      BY <1>0, <2>1, HaltKept DEF GCAway
  <1>2. ASSUME NEW p \in VProcs, Unpark(p) PROVE HaltInv'
    <2>1. PICK b : /\ pc' = [pc EXCEPT ![p] = b] /\ (b \in AwayPC => pc[p] \in AwayPC)
                   /\ UNCHANGED <<ret, gchalters>>
      BY <1>0, <1>2 DEF Unpark, Goto, AwayPC
    <2>. QED
      BY <1>0, <2>1, HaltKept DEF GCAway
  <1>3. ASSUME NEW p \in VProcs, Loop(p) PROVE HaltInv'
    <2>1. PICK b : /\ pc' = [pc EXCEPT ![p] = b] /\ (b \in AwayPC => pc[p] \in AwayPC)
                   /\ UNCHANGED <<ret, gchalters>>
      BY <1>0, <1>3 DEF Loop, Goto, AwayPC
    <2>. QED
      BY <1>0, <2>1, HaltKept DEF GCAway
  <1>4. ASSUME NEW p \in VProcs, IdleGC(p) PROVE HaltInv'
    <2>1. PICK b : /\ pc' = [pc EXCEPT ![p] = b] /\ (b \in AwayPC => pc[p] \in AwayPC)
                   /\ UNCHANGED <<ret, gchalters>>
      BY <1>0, <1>4 DEF IdleGC, Goto, AwayPC
    <2>. QED
      BY <1>0, <2>1, HaltKept DEF GCAway
  <1>5. ASSUME NEW p \in VProcs, BusyGC(p) PROVE HaltInv'
    <2>1. PICK b : /\ pc' = [pc EXCEPT ![p] = b] /\ (b \in AwayPC => pc[p] \in AwayPC)
                   /\ UNCHANGED <<ret, gchalters>>
      BY <1>0, <1>5 DEF BusyGC, Goto, AwayPC
    <2>. QED
      BY <1>0, <2>1, HaltKept DEF GCAway
  <1>6. ASSUME NEW p \in VProcs, NoGC(p) PROVE HaltInv'
    <2>1. PICK b : /\ pc' = [pc EXCEPT ![p] = b] /\ (b \in AwayPC => pc[p] \in AwayPC)
                   /\ UNCHANGED <<ret, gchalters>>
      BY <1>0, <1>6 DEF NoGC, Goto, AwayPC
    <2>. QED
      BY <1>0, <2>1, HaltKept DEF GCAway
  <1>7. ASSUME NEW p \in VProcs, GCEnd(p) PROVE HaltInv'
    <2>1. PICK b : /\ pc' = [pc EXCEPT ![p] = b] /\ (b \in AwayPC => pc[p] \in AwayPC)
                   /\ UNCHANGED <<ret, gchalters>>
      BY <1>0, <1>7 DEF GCEnd, Goto, AwayPC
    <2>. QED
      BY <1>0, <2>1, HaltKept DEF GCAway
  <1>8. ASSUME NEW p \in VProcs, SleepLock(p) PROVE HaltInv'
    <2>1. PICK b : /\ pc' = [pc EXCEPT ![p] = b] /\ (b \in AwayPC => pc[p] \in AwayPC)
                   /\ UNCHANGED <<ret, gchalters>>
      BY <1>0, <1>8 DEF SleepLock, Goto, AwayPC
    <2>. QED
      BY <1>0, <2>1, HaltKept DEF GCAway
  <1>9. ASSUME NEW p \in VProcs, SleepReady(p) PROVE HaltInv'
    <2>1. PICK b : /\ pc' = [pc EXCEPT ![p] = b] /\ (b \in AwayPC => pc[p] \in AwayPC)
                   /\ UNCHANGED <<ret, gchalters>>
      BY <1>0, <1>9 DEF SleepReady, Goto, AwayPC
    <2>. QED
      BY <1>0, <2>1, HaltKept DEF GCAway
  <1>10. ASSUME NEW p \in VProcs, SleepCommit(p) PROVE HaltInv'
    <2>1. PICK b : /\ pc' = [pc EXCEPT ![p] = b] /\ (b \in AwayPC => pc[p] \in AwayPC)
                   /\ UNCHANGED <<ret, gchalters>>
      BY <1>0, <1>10 DEF SleepCommit, Goto, AwayPC
    <2>. QED
      BY <1>0, <2>1, HaltKept DEF GCAway
  <1>11. ASSUME NEW p \in VProcs, Awake(p) PROVE HaltInv'
    <2>1. PICK b : /\ pc' = [pc EXCEPT ![p] = b] /\ (b \in AwayPC => pc[p] \in AwayPC)
                   /\ UNCHANGED <<ret, gchalters>>
      BY <1>0, <1>11 DEF Awake, Goto, AwayPC
    <2>. QED
      BY <1>0, <2>1, HaltKept DEF GCAway
  <1>12. ASSUME NEW p \in VProcs, NoYield(p) PROVE HaltInv'
    <2>1. PICK b : /\ pc' = [pc EXCEPT ![p] = b] /\ (b \in AwayPC => pc[p] \in AwayPC)
                   /\ UNCHANGED <<ret, gchalters>>
      BY <1>0, <1>12 DEF NoYield, Goto, AwayPC
    <2>. QED
      BY <1>0, <2>1, HaltKept DEF GCAway
  <1>13. ASSUME NEW p \in VProcs, Yield(p) PROVE HaltInv'
    <2>1. PICK b : /\ pc' = [pc EXCEPT ![p] = b] /\ (b \in AwayPC => pc[p] \in AwayPC)
                   /\ UNCHANGED <<ret, gchalters>>
      BY <1>0, <1>13 DEF Yield, Goto, AwayPC
    <2>. QED
      BY <1>0, <2>1, HaltKept DEF GCAway
  <1>14. ASSUME NEW p \in VProcs, iyield(p) PROVE HaltInv'
    <2>1. PICK b : /\ pc' = [pc EXCEPT ![p] = b] /\ (b \in AwayPC => pc[p] \in AwayPC)
                   /\ UNCHANGED <<ret, gchalters>>
      BY <1>0, <1>14 DEF iyield, Goto, AwayPC
    <2>. QED
      BY <1>0, <2>1, HaltKept DEF GCAway
  <1>15. ASSUME NEW p \in VProcs, Run(p) PROVE HaltInv'
    <2>1. PICK b : /\ pc' = [pc EXCEPT ![p] = b] /\ (b \in AwayPC => pc[p] \in AwayPC)
                   /\ UNCHANGED <<ret, gchalters>>
      BY <1>0, <1>15 DEF Run, Goto, AwayPC
    <2>. QED
      BY <1>0, <2>1, HaltKept DEF GCAway
  <1>16. ASSUME NEW p \in VProcs, QuantumEnd(p) PROVE HaltInv'
    <2>1. PICK b : /\ pc' = [pc EXCEPT ![p] = b] /\ (b \in AwayPC => pc[p] \in AwayPC)
                   /\ UNCHANGED <<ret, gchalters>>
      BY <1>0, <1>16 DEF QuantumEnd, Goto, AwayPC
    <2>. QED
      BY <1>0, <2>1, HaltKept DEF GCAway
  <1>17. ASSUME NEW p \in VProcs, delrun(p) PROVE HaltInv'
    <2>1. PICK b : /\ pc' = [pc EXCEPT ![p] = b] /\ (b \in AwayPC => pc[p] \in AwayPC)
                   /\ UNCHANGED <<ret, gchalters>>
      BY <1>0, <1>17 DEF delrun, Goto, AwayPC
    <2>. QED
      BY <1>0, <2>1, HaltKept DEF GCAway
  <1>18. ASSUME NEW p \in VProcs, Error(p) PROVE HaltInv'
    <2>1. PICK b : /\ pc' = [pc EXCEPT ![p] = b] /\ (b \in AwayPC => pc[p] \in AwayPC)
                   /\ UNCHANGED <<ret, gchalters>>
      BY <1>0, <1>18 DEF Error, Goto, AwayPC
    <2>. QED
      BY <1>0, <2>1, HaltKept DEF GCAway
  <1>19. ASSUME NEW p \in VProcs, Handled(p) PROVE HaltInv'
    <2>1. PICK b : /\ pc' = [pc EXCEPT ![p] = b] /\ (b \in AwayPC => pc[p] \in AwayPC)
                   /\ UNCHANGED <<ret, gchalters>>
      BY <1>0, <1>19 DEF Handled, Goto, AwayPC
    <2>. QED
      BY <1>0, <2>1, HaltKept DEF GCAway
  <1>20. ASSUME NEW p \in VProcs, delprog(p) PROVE HaltInv'
    <2>1. PICK b : /\ pc' = [pc EXCEPT ![p] = b] /\ (b \in AwayPC => pc[p] \in AwayPC)
                   /\ UNCHANGED <<ret, gchalters>>
      BY <1>0, <1>20 DEF delprog, Goto, AwayPC
    <2>. QED
      BY <1>0, <2>1, HaltKept DEF GCAway
  <1>21. ASSUME NEW p \in VProcs, NEW k \in KProcs, StartKProc(p, k) PROVE HaltInv'
    <2>1. pc' = [pc EXCEPT ![k] = "host"] /\ ret' = [ret EXCEPT ![k] = "kproc_vm"] /\ UNCHANGED gchalters
      BY <1>21 DEF StartKProc
    <2>. QED
      BY <1>0, <2>1, HaltKept DEF GCAway
  <1>22. ASSUME NEW p \in Procs, Ready(p) PROVE HaltInv'
    <2>1. PICK b : /\ pc' = [pc EXCEPT ![p] = b] /\ (b \in AwayPC => pc[p] \in AwayPC)
                   /\ UNCHANGED <<ret, gchalters>>
      BY <1>0, <1>22 DEF Ready, Goto, AwayPC
    <2>. QED
      BY <1>0, <2>1, HaltKept DEF GCAway
  <1>23. ASSUME NEW p \in Procs, Release(p) PROVE HaltInv'
    <2>1. pc[p] \in RunPC
      BY <1>23 DEF Release, RunPC
    <2>2. \/ \E dtor \in {FALSE, Collects} : release(p, "resume", dtor)
          \/ release(p, "exited", FALSE) \/ release(p, "kproc_vm", FALSE)
          \/ gchalters = {} /\ release(p, pc[p], TRUE)
      BY <1>23 DEF Release
    <2>3. ASSUME NEW dtor, release(p, "resume", dtor) PROVE HaltInv'
      BY <2>1, <2>3, HaltRelease
    <2>4. ASSUME release(p, "exited", FALSE) \/ release(p, "kproc_vm", FALSE) PROVE HaltInv'
      BY <2>1, <2>4, HaltRelease
    <2>5. ASSUME gchalters = {}, release(p, pc[p], TRUE) PROVE HaltInv'
      BY <2>1, <2>5, HaltRelease
    <2>. QED
      BY <2>2, <2>3, <2>4, <2>5
  <1>24. ASSUME NEW p \in Procs, Acquire(p) PROVE HaltInv'
    <2>1. PICK b : /\ pc' = [pc EXCEPT ![p] = b] /\ (b \in AwayPC => pc[p] \in AwayPC)
                   /\ UNCHANGED <<ret, gchalters>>
      BY <1>0, <1>24 DEF Acquire, acquire, Goto, AwayPC
    <2>. QED
      BY <1>0, <2>1, HaltKept DEF GCAway
  <1>25. ASSUME NEW p \in Procs, AcquireError(p) PROVE HaltInv'
    <2>1. PICK b : /\ pc[p] = "host" /\ pc' = [pc EXCEPT ![p] = b]
                   /\ ret' = [ret EXCEPT ![p] = "failed"] /\ UNCHANGED gchalters
      BY <1>25 DEF AcquireError, acquire
    <2>. QED
      BY <1>0, <2>1, HaltKept DEF GCAway
  <1>26. ASSUME NEW p \in Procs, WakeIrend(p) PROVE HaltInv'
    <2>1. PICK b : /\ pc' = [pc EXCEPT ![p] = b] /\ (b \in AwayPC => pc[p] \in AwayPC)
                   /\ UNCHANGED <<ret, gchalters>>
      BY <1>0, <1>26 DEF WakeIrend, Goto, AwayPC
    <2>. QED
      BY <1>0, <2>1, HaltKept DEF GCAway
  <1>27. ASSUME NEW p \in Procs, Acquired(p) PROVE HaltInv'
    <2>1. PICK b : /\ pc' = [pc EXCEPT ![p] = b] /\ (b \in AwayPC => pc[p] \in AwayPC)
                   /\ UNCHANGED <<ret, gchalters>>
      BY <1>0, <1>27 DEF Acquired, Goto, AwayPC
    <2>. QED
      BY <1>0, <2>1, HaltKept DEF GCAway
  <1>28. ASSUME NEW p \in Procs, Restore(p) PROVE HaltInv'
    <2>1. /\ pc' = [pc EXCEPT ![p] = ret[p]] /\ pc[p] = "restore" /\ ret' = [ret EXCEPT ![p] = "nowhere"]
          /\ gchalters' = gchalters \ {p}
      BY <1>28 DEF Restore, Goto
    <2>2. ~GCAway(p)' /\ \A x \in Procs \ {p} : GCAway(x)' <=> GCAway(x)
      BY <1>0, <2>1 DEF GCAway
    <2>. QED
      BY <2>1, <2>2 DEF HaltInv
  <1>29. ASSUME NEW p \in Procs, NEW v \in VProcs, NewVM(p, v) PROVE HaltInv'
    <2>1. /\ pc[p] = "newvm" /\ pc' = [pc EXCEPT ![p] = "host", ![v] = "startup"]
          /\ UNCHANGED <<ret, gchalters>>
      BY <1>29 DEF NewVM
    <2>. QED
      BY <1>0, <2>1, HaltKept DEF GCAway, AwayPC
  <1>30. ASSUME NEW p \in Procs, NEW g \in Progs, addrun(p, g) PROVE HaltInv'
    <2>1. PICK b : /\ pc' = [pc EXCEPT ![p] = b] /\ (b \in AwayPC => pc[p] \in AwayPC)
                   /\ UNCHANGED <<ret, gchalters>>
      BY <1>0, <1>30 DEF addrun, Goto, AwayPC
    <2>. QED
      BY <1>0, <2>1, HaltKept DEF GCAway
  <1>31. ASSUME UNCHANGED vars PROVE HaltInv'
    BY <1>31 DEF vars, HaltInv, GCAway
  <1>. QED
    BY <1>1, <1>2, <1>3, <1>4, <1>5, <1>6, <1>7, <1>8, <1>9, <1>10, <1>11, <1>12, <1>13, <1>14, <1>15,
       <1>16, <1>17, <1>18, <1>19, <1>20, <1>21, <1>22, <1>23, <1>24, <1>25, <1>26, <1>27, <1>28, <1>29, <1>30, <1>31
    DEF Next, VStep, PStep

\* A step that starts no process and asks for none keeps CountInv.
LEMMA CountKept ==
  ASSUME CountInv, Started' = Started, \A x \in Procs : pc'[x] = "newvm" => pc[x] = "newvm"
  PROVE  CountInv'
  BY DEF CountInv

\* Starting the process that was asked for keeps CountInv.
LEMMA CountNewVM ==
  ASSUME LoadInv, CountInv, NEW p \in Procs, NEW v \in VProcs, NewVM(p, v)
  PROVE  CountInv'
  <1>1. pc[p] = "newvm" /\ pc[v] = "off" /\ pc' = [pc EXCEPT ![p] = "host", ![v] = "startup"]
    BY DEF NewVM
  <1>2. /\ pc'[p] = "host" /\ pc'[v] = "startup" /\ \A x \in Procs \ {p, v} : pc'[x] = pc[x]
        /\ p # v
    BY <1>1, ProcKinds DEF LoadInv, VMInv, VMTypeOK
  <1>3. Started' = Started \cup {v}
    BY <1>1, <1>2, ProcKinds DEF Started
  <1>4. \A x \in Procs : pc'[x] # "newvm"
    BY <1>1, <1>2 DEF LoadInv, ComingInv, Coming
  <1>5. IsFiniteSet(Started) /\ Cardinality(Started) \in Nat /\ Cardinality(Progs) \in Nat
    <2>1. Started \subseteq VProcs
      BY DEF Started
    <2>2. IsFiniteSet(Started)
      BY <2>1, SchedAssumption, FS_Subset
    <2>. QED
      BY <2>2, SchedAssumption, FS_CardinalityType
  <1>6. Cardinality(Started \cup {v}) <= Cardinality(Started) + 1
    <2>1. Cardinality(Started \cup {v}) =
            IF v \in Started THEN Cardinality(Started) ELSE Cardinality(Started) + 1
      BY <1>5, FS_AddElement
    <2>. QED
      BY <1>5, <2>1
  <1>7. Cardinality(Started) <= Cardinality(Progs) + 1
    BY <1>1 DEF CountInv
  <1>8. Cardinality(Started)' = Cardinality(Started \cup {v}) /\ Cardinality(Started \cup {v}) \in Nat
    <2>1. IsFiniteSet(Started \cup {v})
      BY <1>5, FS_AddElement
    <2>. QED
      BY <1>3, <2>1, FS_CardinalityType
  <1>. QED
    BY <1>4, <1>5, <1>6, <1>7, <1>8 DEF CountInv

\* Every step keeps the number of interpreters within what the progs need.
LEMMA CountNext == LoadInv /\ LoadInv' /\ CountInv /\ [Next]_vars => CountInv'
  <1>. SUFFICES ASSUME LoadInv, LoadInv', CountInv PROVE [Next]_vars => CountInv'
    OBVIOUS
  <1>. USE ProcKinds
  <1>0. pc \in [Procs -> VMPC \cup OtherPC] /\ ret \in [Procs -> Rets]
    BY DEF LoadInv, VMInv, VMTypeOK
  <1>1. ASSUME NEW p \in VProcs, startup(p) PROVE CountInv'
    <2>1. PICK b : pc[p] # "off" /\ b \notin {"off", "newvm"} /\ pc' = [pc EXCEPT ![p] = b]
      BY <1>0, <1>1 DEF startup, Goto
    <2>2. Started' = Started /\ \A x \in Procs : pc'[x] = "newvm" => pc[x] = "newvm"
      BY <1>0, <2>1 DEF Started
    <2>. QED
      BY <2>2, CountKept
  <1>2. ASSUME NEW p \in VProcs, Unpark(p) PROVE CountInv'
    <2>1. PICK b : pc[p] # "off" /\ b \notin {"off", "newvm"} /\ pc' = [pc EXCEPT ![p] = b]
      BY <1>0, <1>2 DEF Unpark, Goto
    <2>2. Started' = Started /\ \A x \in Procs : pc'[x] = "newvm" => pc[x] = "newvm"
      BY <1>0, <2>1 DEF Started
    <2>. QED
      BY <2>2, CountKept
  <1>3. ASSUME NEW p \in VProcs, Loop(p) PROVE CountInv'
    <2>1. PICK b : pc[p] # "off" /\ b \notin {"off", "newvm"} /\ pc' = [pc EXCEPT ![p] = b]
      BY <1>0, <1>3 DEF Loop, Goto
    <2>2. Started' = Started /\ \A x \in Procs : pc'[x] = "newvm" => pc[x] = "newvm"
      BY <1>0, <2>1 DEF Started
    <2>. QED
      BY <2>2, CountKept
  <1>4. ASSUME NEW p \in VProcs, IdleGC(p) PROVE CountInv'
    <2>1. PICK b : pc[p] # "off" /\ b \notin {"off", "newvm"} /\ pc' = [pc EXCEPT ![p] = b]
      BY <1>0, <1>4 DEF IdleGC, Goto
    <2>2. Started' = Started /\ \A x \in Procs : pc'[x] = "newvm" => pc[x] = "newvm"
      BY <1>0, <2>1 DEF Started
    <2>. QED
      BY <2>2, CountKept
  <1>5. ASSUME NEW p \in VProcs, BusyGC(p) PROVE CountInv'
    <2>1. PICK b : pc[p] # "off" /\ b \notin {"off", "newvm"} /\ pc' = [pc EXCEPT ![p] = b]
      BY <1>0, <1>5 DEF BusyGC, Goto
    <2>2. Started' = Started /\ \A x \in Procs : pc'[x] = "newvm" => pc[x] = "newvm"
      BY <1>0, <2>1 DEF Started
    <2>. QED
      BY <2>2, CountKept
  <1>6. ASSUME NEW p \in VProcs, NoGC(p) PROVE CountInv'
    <2>1. PICK b : pc[p] # "off" /\ b \notin {"off", "newvm"} /\ pc' = [pc EXCEPT ![p] = b]
      BY <1>0, <1>6 DEF NoGC, Goto
    <2>2. Started' = Started /\ \A x \in Procs : pc'[x] = "newvm" => pc[x] = "newvm"
      BY <1>0, <2>1 DEF Started
    <2>. QED
      BY <2>2, CountKept
  <1>7. ASSUME NEW p \in VProcs, GCEnd(p) PROVE CountInv'
    <2>1. PICK b : pc[p] # "off" /\ b \notin {"off", "newvm"} /\ pc' = [pc EXCEPT ![p] = b]
      BY <1>0, <1>7 DEF GCEnd, Goto
    <2>2. Started' = Started /\ \A x \in Procs : pc'[x] = "newvm" => pc[x] = "newvm"
      BY <1>0, <2>1 DEF Started
    <2>. QED
      BY <2>2, CountKept
  <1>8. ASSUME NEW p \in VProcs, SleepLock(p) PROVE CountInv'
    <2>1. PICK b : pc[p] # "off" /\ b \notin {"off", "newvm"} /\ pc' = [pc EXCEPT ![p] = b]
      BY <1>0, <1>8 DEF SleepLock, Goto
    <2>2. Started' = Started /\ \A x \in Procs : pc'[x] = "newvm" => pc[x] = "newvm"
      BY <1>0, <2>1 DEF Started
    <2>. QED
      BY <2>2, CountKept
  <1>9. ASSUME NEW p \in VProcs, SleepReady(p) PROVE CountInv'
    <2>1. PICK b : pc[p] # "off" /\ b \notin {"off", "newvm"} /\ pc' = [pc EXCEPT ![p] = b]
      BY <1>0, <1>9 DEF SleepReady, Goto
    <2>2. Started' = Started /\ \A x \in Procs : pc'[x] = "newvm" => pc[x] = "newvm"
      BY <1>0, <2>1 DEF Started
    <2>. QED
      BY <2>2, CountKept
  <1>10. ASSUME NEW p \in VProcs, SleepCommit(p) PROVE CountInv'
    <2>1. PICK b : pc[p] # "off" /\ b \notin {"off", "newvm"} /\ pc' = [pc EXCEPT ![p] = b]
      BY <1>0, <1>10 DEF SleepCommit, Goto
    <2>2. Started' = Started /\ \A x \in Procs : pc'[x] = "newvm" => pc[x] = "newvm"
      BY <1>0, <2>1 DEF Started
    <2>. QED
      BY <2>2, CountKept
  <1>11. ASSUME NEW p \in VProcs, Awake(p) PROVE CountInv'
    <2>1. PICK b : pc[p] # "off" /\ b \notin {"off", "newvm"} /\ pc' = [pc EXCEPT ![p] = b]
      BY <1>0, <1>11 DEF Awake, Goto
    <2>2. Started' = Started /\ \A x \in Procs : pc'[x] = "newvm" => pc[x] = "newvm"
      BY <1>0, <2>1 DEF Started
    <2>. QED
      BY <2>2, CountKept
  <1>12. ASSUME NEW p \in VProcs, NoYield(p) PROVE CountInv'
    <2>1. PICK b : pc[p] # "off" /\ b \notin {"off", "newvm"} /\ pc' = [pc EXCEPT ![p] = b]
      BY <1>0, <1>12 DEF NoYield, Goto
    <2>2. Started' = Started /\ \A x \in Procs : pc'[x] = "newvm" => pc[x] = "newvm"
      BY <1>0, <2>1 DEF Started
    <2>. QED
      BY <2>2, CountKept
  <1>13. ASSUME NEW p \in VProcs, Yield(p) PROVE CountInv'
    <2>1. PICK b : pc[p] # "off" /\ b \notin {"off", "newvm"} /\ pc' = [pc EXCEPT ![p] = b]
      BY <1>0, <1>13 DEF Yield, Goto
    <2>2. Started' = Started /\ \A x \in Procs : pc'[x] = "newvm" => pc[x] = "newvm"
      BY <1>0, <2>1 DEF Started
    <2>. QED
      BY <2>2, CountKept
  <1>14. ASSUME NEW p \in VProcs, iyield(p) PROVE CountInv'
    <2>1. PICK b : pc[p] # "off" /\ b \notin {"off", "newvm"} /\ pc' = [pc EXCEPT ![p] = b]
      BY <1>0, <1>14 DEF iyield, Goto
    <2>2. Started' = Started /\ \A x \in Procs : pc'[x] = "newvm" => pc[x] = "newvm"
      BY <1>0, <2>1 DEF Started
    <2>. QED
      BY <2>2, CountKept
  <1>15. ASSUME NEW p \in VProcs, Run(p) PROVE CountInv'
    <2>1. PICK b : pc[p] # "off" /\ b \notin {"off", "newvm"} /\ pc' = [pc EXCEPT ![p] = b]
      BY <1>0, <1>15 DEF Run, Goto
    <2>2. Started' = Started /\ \A x \in Procs : pc'[x] = "newvm" => pc[x] = "newvm"
      BY <1>0, <2>1 DEF Started
    <2>. QED
      BY <2>2, CountKept
  <1>16. ASSUME NEW p \in VProcs, QuantumEnd(p) PROVE CountInv'
    <2>1. PICK b : pc[p] # "off" /\ b \notin {"off", "newvm"} /\ pc' = [pc EXCEPT ![p] = b]
      BY <1>0, <1>16 DEF QuantumEnd, Goto
    <2>2. Started' = Started /\ \A x \in Procs : pc'[x] = "newvm" => pc[x] = "newvm"
      BY <1>0, <2>1 DEF Started
    <2>. QED
      BY <2>2, CountKept
  <1>17. ASSUME NEW p \in VProcs, delrun(p) PROVE CountInv'
    <2>1. PICK b : pc[p] # "off" /\ b \notin {"off", "newvm"} /\ pc' = [pc EXCEPT ![p] = b]
      BY <1>0, <1>17 DEF delrun, Goto
    <2>2. Started' = Started /\ \A x \in Procs : pc'[x] = "newvm" => pc[x] = "newvm"
      BY <1>0, <2>1 DEF Started
    <2>. QED
      BY <2>2, CountKept
  <1>18. ASSUME NEW p \in VProcs, Error(p) PROVE CountInv'
    <2>1. PICK b : pc[p] # "off" /\ b \notin {"off", "newvm"} /\ pc' = [pc EXCEPT ![p] = b]
      BY <1>0, <1>18 DEF Error, Goto
    <2>2. Started' = Started /\ \A x \in Procs : pc'[x] = "newvm" => pc[x] = "newvm"
      BY <1>0, <2>1 DEF Started
    <2>. QED
      BY <2>2, CountKept
  <1>19. ASSUME NEW p \in VProcs, Handled(p) PROVE CountInv'
    <2>1. PICK b : pc[p] # "off" /\ b \notin {"off", "newvm"} /\ pc' = [pc EXCEPT ![p] = b]
      BY <1>0, <1>19 DEF Handled, Goto
    <2>2. Started' = Started /\ \A x \in Procs : pc'[x] = "newvm" => pc[x] = "newvm"
      BY <1>0, <2>1 DEF Started
    <2>. QED
      BY <2>2, CountKept
  <1>20. ASSUME NEW p \in VProcs, delprog(p) PROVE CountInv'
    <2>1. PICK b : pc[p] # "off" /\ b \notin {"off", "newvm"} /\ pc' = [pc EXCEPT ![p] = b]
      BY <1>0, <1>20 DEF delprog, Goto
    <2>2. Started' = Started /\ \A x \in Procs : pc'[x] = "newvm" => pc[x] = "newvm"
      BY <1>0, <2>1 DEF Started
    <2>. QED
      BY <2>2, CountKept
  <1>21. ASSUME NEW p \in VProcs, NEW k \in KProcs, StartKProc(p, k) PROVE CountInv'
    <2>1. pc' = [pc EXCEPT ![k] = "host"] /\ k \notin VProcs
      BY <1>21, SchedAssumption DEF StartKProc
    <2>2. Started' = Started /\ \A x \in Procs : pc'[x] = "newvm" => pc[x] = "newvm"
      BY <1>0, <2>1 DEF Started
    <2>. QED
      BY <2>2, CountKept
  <1>22. ASSUME NEW p \in Procs, Ready(p) PROVE CountInv'
    <2>1. PICK b : pc[p] # "off" /\ b \notin {"off", "newvm"} /\ pc' = [pc EXCEPT ![p] = b]
      BY <1>0, <1>22 DEF Ready, Goto
    <2>2. Started' = Started /\ \A x \in Procs : pc'[x] = "newvm" => pc[x] = "newvm"
      BY <1>0, <2>1 DEF Started
    <2>. QED
      BY <2>2, CountKept
  <1>23. ASSUME NEW p \in Procs, Release(p) PROVE CountInv'
    <2>1. PICK r \in Rets \ {"nowhere"}, dtor \in BOOLEAN : pc[p] \in RunPC /\ release(p, r, dtor)
      BY <1>23, SchedAssumption DEF Release, RunPC, Rets
    <2>. QED
      BY <2>1, CountRelease
  <1>24. ASSUME NEW p \in Procs, Acquire(p) PROVE CountInv'
    <2>1. PICK b : pc[p] # "off" /\ b \notin {"off", "newvm"} /\ pc' = [pc EXCEPT ![p] = b]
      BY <1>0, <1>24 DEF Acquire, acquire, Goto
    <2>2. Started' = Started /\ \A x \in Procs : pc'[x] = "newvm" => pc[x] = "newvm"
      BY <1>0, <2>1 DEF Started
    <2>. QED
      BY <2>2, CountKept
  <1>25. ASSUME NEW p \in Procs, AcquireError(p) PROVE CountInv'
    <2>1. PICK b : pc[p] # "off" /\ b \notin {"off", "newvm"} /\ pc' = [pc EXCEPT ![p] = b]
      BY <1>0, <1>25 DEF AcquireError, acquire, Goto
    <2>2. Started' = Started /\ \A x \in Procs : pc'[x] = "newvm" => pc[x] = "newvm"
      BY <1>0, <2>1 DEF Started
    <2>. QED
      BY <2>2, CountKept
  <1>26. ASSUME NEW p \in Procs, WakeIrend(p) PROVE CountInv'
    <2>1. PICK b : pc[p] # "off" /\ b \notin {"off", "newvm"} /\ pc' = [pc EXCEPT ![p] = b]
      BY <1>0, <1>26 DEF WakeIrend, Goto
    <2>2. Started' = Started /\ \A x \in Procs : pc'[x] = "newvm" => pc[x] = "newvm"
      BY <1>0, <2>1 DEF Started
    <2>. QED
      BY <2>2, CountKept
  <1>27. ASSUME NEW p \in Procs, Acquired(p) PROVE CountInv'
    <2>1. PICK b : pc[p] # "off" /\ b \notin {"off", "newvm"} /\ pc' = [pc EXCEPT ![p] = b]
      BY <1>0, <1>27 DEF Acquired, Goto
    <2>2. Started' = Started /\ \A x \in Procs : pc'[x] = "newvm" => pc[x] = "newvm"
      BY <1>0, <2>1 DEF Started
    <2>. QED
      BY <2>2, CountKept
  <1>28. ASSUME NEW p \in Procs, Restore(p) PROVE CountInv'
    <2>1. pc[p] = "restore" /\ pc' = [pc EXCEPT ![p] = ret[p]] /\ ret[p] \notin {"off", "newvm"}
      BY <1>0, <1>28 DEF Restore, Goto, Rets
    <2>2. Started' = Started /\ \A x \in Procs : pc'[x] = "newvm" => pc[x] = "newvm"
      BY <1>0, <2>1 DEF Started
    <2>. QED
      BY <2>2, CountKept
  <1>29. ASSUME NEW p \in Procs, NEW v \in VProcs, NewVM(p, v) PROVE CountInv'
    BY <1>29, CountNewVM
  <1>30. ASSUME NEW p \in Procs, NEW g \in Progs, addrun(p, g) PROVE CountInv'
    <2>1. PICK b : pc[p] # "off" /\ b \notin {"off", "newvm"} /\ pc' = [pc EXCEPT ![p] = b]
      BY <1>0, <1>30 DEF addrun, Goto
    <2>2. Started' = Started /\ \A x \in Procs : pc'[x] = "newvm" => pc[x] = "newvm"
      BY <1>0, <2>1 DEF Started
    <2>. QED
      BY <2>2, CountKept
  <1>31. ASSUME UNCHANGED vars PROVE CountInv'
    BY <1>31 DEF vars, CountInv, Started
  <1>. QED
    BY <1>1, <1>2, <1>3, <1>4, <1>5, <1>6, <1>7, <1>8, <1>9, <1>10, <1>11, <1>12, <1>13, <1>14, <1>15,
       <1>16, <1>17, <1>18, <1>19, <1>20, <1>21, <1>22, <1>23, <1>24, <1>25, <1>26, <1>27, <1>28, <1>29, <1>30, <1>31
    DEF Next, VStep, PStep

\* The load invariants hold at first.
LEMMA LoadInit == Init => LoadInv /\ CountInv
  <1>. SUFFICES ASSUME Init PROVE LoadInv /\ CountInv
    OBVIOUS
  <1>1. PICK b \in VProcs : pc = [p \in Procs |-> IF p = b THEN "startup" ELSE "off"]
    BY DEF Init
  <1>2. HaltInv
    BY <1>1 DEF HaltInv, GCAway, AwayPC
  <1>3. Started = {b} /\ \A p \in Procs : pc[p] # "newvm"
    BY <1>1, ProcKinds DEF Started
  <1>4. Cardinality(Started) = 1 /\ Cardinality(Progs) \in Nat
    BY <1>3, SchedAssumption, FS_Singleton, FS_CardinalityType
  <1>. QED
    BY <1>2, <1>3, <1>4, VMInit, ComingInit, ProgInit DEF LoadInv, CountInv

\* Every step keeps the load invariants.
LEMMA LoadNext == LoadInv /\ [Next]_vars => LoadInv'
  BY VMNext, ComingNext, ProgNext, HaltNext DEF LoadInv

\* A process to run the VM is there when it is needed, and release makes no more of
\* them than that: with nobody left to give the VM to, every process that runs
\* vmachine is out in host code for a prog of its own, or is the one that may be out
\* in a collection, which gclock makes one (dis.c:858-866, gc.c gclock).
THEOREM VMsAsNeededHolds == Spec => []VMsAsNeeded
  <1>1. LoadInv /\ CountInv /\ [Next]_vars => (LoadInv /\ CountInv)'
    BY LoadNext, CountNext
  <1>2. LoadInv /\ CountInv => VMsAsNeeded
    BY ComingOne DEF VMsAsNeeded, VMsBounded, CountInv, Started, LoadInv
  <1>. QED
    BY LoadInit, <1>1, <1>2, PTL DEF Spec

=============================================================================
