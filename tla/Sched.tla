------------------------------- MODULE Sched -------------------------------
(***************************************************************************)
(* The scheduler of the Dis virtual machine (emu/port/dis.c).              *)
(*                                                                         *)
(* At most one kernel process runs the VM.  A process that is about to     *)
(* block in host code gives the VM away (release) and asks for it back     *)
(* afterwards (acquire); a process running vmachine that sees others       *)
(* waiting yields to them (iyield) and is kept on a stack of idle ones     *)
(* for the next release.  Dis progs are scheduled on a run queue that only *)
(* the process with the VM touches.                                        *)
(*                                                                         *)
(* Each critical section of isched.l is one step.  The steps of Sleep and  *)
(* Wakeup on isched.irend are those of Rendez, without the interruption    *)
(* that no caller directs at a process asleep on irend.                    *)
(***************************************************************************)
EXTENDS Naturals, Sequences, FiniteSets, SequencesExt

CONSTANTS VProcs,   \* kernel processes that run vmachine, or will
          KProcs,   \* other kernel processes that call acquire and release
          Progs,    \* Dis progs
          Cycles,   \* quanta that vmachine runs before it yields; 2 in the source
          Collects, \* whether the heap holds what a collection destroys
          NoProc, NoProg

Procs == VProcs \cup KProcs

ASSUME SchedAssumption ==
  /\ VProcs \cap KProcs = {} /\ Progs \cap Procs = {}
  /\ NoProc \notin Procs /\ NoProg \notin Progs
  /\ Cycles \in Nat /\ Collects \in BOOLEAN
  /\ IsFiniteSet(VProcs) /\ IsFiniteSet(KProcs) /\ IsFiniteSet(Progs)

VARIABLES
  pc,         \* control point of each process
  ret,        \* where the acquire in progress returns to
  interp,     \* up->type == Interp
  cycles,     \* vmachine's count of quanta run since another process waits
  q,          \* the local p of release and iyield: the process to be readied
  sem,        \* the semaphore of osblock/osready
  iprog,      \* up->iprog: the prog on whose behalf a process is in host code
  R,          \* whose registers are in the global REG
  pstate,     \* Prog.state: none (not born, dead), ready, blocked, release
  runq,       \* isched.runhd ... runtl; a process stands for its own up->prog
  idle, creating,   \* isched.idle, isched.creating
  vmq,        \* isched.vmq: processes waiting in acquire, first come first
  idlevmq,    \* isched.idlevmq: idle vmachine processes, last in first
  rp, rl,     \* isched.irend: the process asleep there; owner of its lock
  gchalters   \* processes between gclock and gcunlock: gchalt is their number

prvars == <<pstate, R, iprog>>
vmvars == <<idle, creating, vmq, idlevmq>>
vars == <<pc, ret, interp, cycles, q, sem, prvars, runq, vmvars, rp, rl, gchalters>>

(* The process has the VM at these control points ...                      *)
VMPC == {"loop", "idlegc", "gcidle", "sleep", "sleeptest", "asleep", "yieldtest", "iyield",
         "run", "quantum", "resume", "failed", "exited", "gctest", "gcbusy", "kproc_vm", "restore", "cleanexit"}
(* ... and not, or not always, at these.                                   *)
OtherPC == {"off", "startup", "parked", "yready", "yielded",
            "relready", "newvm", "host", "wakeirend", "acqblock"}

\* disinit: one prog is ready and one process is about to call vmachine.
Init ==
  /\ \E b \in VProcs : pc = [p \in Procs |-> IF p = b THEN "startup" ELSE "off"]
  /\ ret = [p \in Procs |-> "nowhere"]
  /\ interp = [p \in Procs |-> FALSE]
  /\ cycles = [p \in VProcs |-> 0]
  /\ q = [p \in Procs |-> NoProc]
  /\ sem = [p \in Procs |-> 0]
  /\ iprog = [p \in Procs |-> NoProg]
  /\ R = NoProg
  /\ \E g \in Progs :
       /\ pstate = [h \in Progs |-> IF h = g THEN "ready" ELSE "none"]
       /\ runq = <<g>>
  /\ idle = TRUE /\ creating = FALSE /\ vmq = <<>> /\ idlevmq = <<>>
  /\ rp = NoProc /\ rl = NoProc
  /\ gchalters = {}

Goto(p, a, b) == pc[p] = a /\ pc' = [pc EXCEPT ![p] = b]
Semacquire(p) == sem[p] > 0 /\ sem' = [sem EXCEPT ![p] = @ - 1]
tready == runq # <<>> \/ vmq # <<>>

-----------------------------------------------------------------------------
(* vmachine                                                                *)

\* Mutated form: isched.creating stays set.
startupKeepCreating(p) ==
  /\ pc[p] = "startup"
  /\ interp' = [interp EXCEPT ![p] = TRUE]
  /\ IF idle
     THEN idle' = FALSE /\ pc' = [pc EXCEPT ![p] = "loop"] /\ UNCHANGED idlevmq
     ELSE idlevmq' = <<p>> \o idlevmq /\ pc' = [pc EXCEPT ![p] = "parked"] /\ UNCHANGED idle
  /\ UNCHANGED <<ret, cycles, q, sem, prvars, runq, creating, vmq, rp, rl, gchalters>>

startup(p) ==
  /\ pc[p] = "startup"
  /\ creating' = FALSE
  /\ interp' = [interp EXCEPT ![p] = TRUE]
  /\ IF idle
     THEN idle' = FALSE /\ pc' = [pc EXCEPT ![p] = "loop"] /\ UNCHANGED idlevmq
     ELSE idlevmq' = <<p>> \o idlevmq /\ pc' = [pc EXCEPT ![p] = "parked"] /\ UNCHANGED idle
  /\ UNCHANGED <<ret, cycles, q, sem, prvars, runq, vmq, rp, rl, gchalters>>

\* osblock returns in startup, or in iyield.
Unpark(p) ==
  /\ Goto(p, "parked", "loop") \/ Goto(p, "yielded", "run")
  /\ Semacquire(p)
  /\ UNCHANGED <<ret, interp, cycles, q, prvars, runq, vmvars, rp, rl, gchalters>>

\* The loop's test of tready, and the tests on the way to Sleep.
Loop(p) ==
  /\ \/ tready /\ Goto(p, "loop", "yieldtest")
     \/ ~tready /\ Goto(p, "loop", "idlegc")
     \/ tready /\ Goto(p, "idlegc", "sleep")
  /\ UNCHANGED <<ret, interp, cycles, q, sem, prvars, runq, vmvars, rp, rl, gchalters>>

\* execatidle: the collector runs as the process's own prog.
IdleGC(p) ==
  /\ ~tready
  /\ Goto(p, "idlegc", "gcidle")
  /\ interp' = [interp EXCEPT ![p] = FALSE]
  /\ runq' = Append(runq, p)
  /\ UNCHANGED <<ret, cycles, q, sem, prvars, vmvars, rp, rl, gchalters>>

\* Now and then, when there is something to run.
BusyGC(p) ==
  /\ Collects /\ runq # <<>>
  /\ Goto(p, "gctest", "gcbusy")
  /\ interp' = [interp EXCEPT ![p] = FALSE]
  /\ runq' = <<p>> \o runq
  /\ UNCHANGED <<ret, cycles, q, sem, prvars, vmvars, rp, rl, gchalters>>

NoGC(p) ==
  /\ Goto(p, "gctest", "loop")
  /\ UNCHANGED <<ret, interp, cycles, q, sem, prvars, runq, vmvars, rp, rl, gchalters>>

\* Unlink x from the run queue, if it is there.
delrunq(x) ==
  IF x \in ToSet(runq)
  THEN \E i \in DOMAIN runq :
         /\ runq[i] = x /\ \A j \in 1..(i - 1) : runq[j] # x
         /\ runq' = RemoveAt(runq, i)
  ELSE UNCHANGED runq

GCEnd(p) ==
  /\ Goto(p, "gcidle", "sleep") \/ Goto(p, "gcbusy", "loop")
  /\ interp' = [interp EXCEPT ![p] = TRUE]
  /\ delrunq(p)
  /\ UNCHANGED <<ret, cycles, q, sem, prvars, vmvars, rp, rl, gchalters>>

(* Sleep(&isched.irend, tready, 0)                                         *)

SleepLock(p) ==
  /\ Goto(p, "sleep", "sleeptest")
  /\ rl = NoProc /\ rl' = p
  /\ UNCHANGED <<ret, interp, cycles, q, sem, prvars, runq, vmvars, rp, gchalters>>

SleepReady(p) ==
  /\ tready
  /\ Goto(p, "sleeptest", "yieldtest")
  /\ rl' = NoProc
  /\ UNCHANGED <<ret, interp, cycles, q, sem, prvars, runq, vmvars, rp, gchalters>>

SleepCommit(p) ==
  /\ ~tready
  /\ Goto(p, "sleeptest", "asleep")
  /\ rp' = p /\ rl' = NoProc
  /\ UNCHANGED <<ret, interp, cycles, q, sem, prvars, runq, vmvars, gchalters>>

Awake(p) ==
  /\ Goto(p, "asleep", "yieldtest")
  /\ Semacquire(p)
  /\ UNCHANGED <<ret, interp, cycles, q, prvars, runq, vmvars, rp, rl, gchalters>>

(* yielding to a process that waits in acquire                             *)

NoYield(p) ==
  /\ Goto(p, "yieldtest", "run")
  /\ IF vmq # <<>> /\ runq # <<>>
     THEN cycles[p] < Cycles /\ cycles' = [cycles EXCEPT ![p] = @ + 1]
     ELSE vmq = <<>> /\ UNCHANGED cycles
  /\ UNCHANGED <<ret, interp, q, sem, prvars, runq, vmvars, rp, rl, gchalters>>

Yield(p) ==
  /\ vmq # <<>> /\ (runq = <<>> \/ cycles[p] >= Cycles)
  /\ Goto(p, "yieldtest", "iyield")
  /\ cycles' = [cycles EXCEPT ![p] = 0]
  /\ UNCHANGED <<ret, interp, q, sem, prvars, runq, vmvars, rp, rl, gchalters>>

\* Nobody else takes a process off vmq meanwhile: iyield's own test succeeds.
iyield(p) ==
  /\ vmq # <<>>
  /\ Goto(p, "iyield", "yready")
  /\ q' = [q EXCEPT ![p] = Head(vmq)]
  /\ vmq' = Tail(vmq)
  /\ idlevmq' = <<p>> \o idlevmq
  /\ UNCHANGED <<ret, interp, cycles, sem, prvars, runq, idle, creating, rp, rl, gchalters>>

\* osready, in iyield and in release.
Ready(p) ==
  /\ Goto(p, "yready", "yielded") \/ Goto(p, "relready", "host")
  /\ sem' = [sem EXCEPT ![q[p]] = @ + 1]
  /\ q' = [q EXCEPT ![p] = NoProc]
  /\ UNCHANGED <<ret, interp, cycles, prvars, runq, vmvars, rp, rl, gchalters>>

-----------------------------------------------------------------------------
(* xec: a quantum of the prog at the head of the run queue                 *)

Run(p) ==
  /\ IF runq # <<>>
     THEN Goto(p, "run", "quantum") /\ R' = Head(runq)
     ELSE Goto(p, "run", "loop") /\ UNCHANGED R
  /\ UNCHANGED <<ret, interp, cycles, q, sem, pstate, iprog, runq, vmvars, rp, rl, gchalters>>

\* Mutated form: the prog stays at the head of the run queue.
QuantumEndNoRotate(p) ==
  /\ Goto(p, "quantum", "gctest") \/ Goto(p, "resume", "gctest")
  /\ UNCHANGED <<ret, interp, cycles, q, sem, prvars, runq, vmvars, rp, rl, gchalters>>

\* The quantum is over; a prog that did not block goes to the tail.
QuantumEnd(p) ==
  /\ Goto(p, "quantum", "gctest") \/ Goto(p, "resume", "gctest")
  /\ runq' = IF Head(runq) = R THEN Append(Tail(runq), R) ELSE runq
  /\ UNCHANGED <<ret, interp, cycles, q, sem, prvars, vmvars, rp, rl, gchalters>>

delrun(p) ==
  /\ Goto(p, "quantum", "gctest")
  /\ pstate' = [pstate EXCEPT ![Head(runq)] = "blocked"]
  /\ runq' = Tail(runq)
  /\ UNCHANGED <<ret, interp, cycles, q, sem, R, iprog, vmvars, rp, rl, gchalters>>

\* A communication, a kill or the end of a channel makes another prog ready; a
\* spawn does so with a new one.
addrun(p, g) ==
  /\ pc[p] \in {"quantum", "resume", "gcidle", "gcbusy", "kproc_vm"}
  /\ pstate[g] = "blocked" \/ (pstate[g] = "none" /\ pc[p] = "quantum")
  /\ pstate' = [pstate EXCEPT ![g] = "ready"]
  /\ runq' = Append(runq, g)
  /\ UNCHANGED <<pc, ret, interp, cycles, q, sem, R, iprog, vmvars, rp, rl, gchalters>>

\* A device or server starts a kernel process that will want the VM.
StartKProc(p, k) ==
  /\ pc[p] = "quantum" /\ pc[k] = "off"
  /\ pc' = [pc EXCEPT ![k] = "host"]
  /\ ret' = [ret EXCEPT ![k] = "kproc_vm"]
  /\ UNCHANGED <<interp, cycles, q, sem, prvars, runq, vmvars, rp, rl, gchalters>>

\* An instruction raises an error: vmachine's handler has the VM and, if the prog
\* has no handler of its own, ends it.
Error(p) ==
  /\ Goto(p, "quantum", "failed") \/ Goto(p, "resume", "failed")
  /\ UNCHANGED <<ret, interp, cycles, q, sem, prvars, runq, vmvars, rp, rl, gchalters>>

Handled(p) ==
  /\ Goto(p, "failed", "loop")
  /\ cycles' = [cycles EXCEPT ![p] = 0]
  /\ UNCHANGED <<ret, interp, q, sem, prvars, runq, vmvars, rp, rl, gchalters>>

\* delprog, after the release in which it closes the prog's files.  The emulator
\* exits with its last prog.
delprog(p) ==
  /\ IF \E g \in Progs \ {R} : pstate[g] # "none"
     THEN Goto(p, "exited", "loop")
     ELSE Goto(p, "exited", "cleanexit")
  /\ pstate' = [pstate EXCEPT ![R] = "none"]
  /\ runq' = IF Head(runq) = R THEN Tail(runq) ELSE runq
  /\ cycles' = [cycles EXCEPT ![p] = 0]
  /\ UNCHANGED <<ret, interp, q, sem, R, iprog, vmvars, rp, rl, gchalters>>

-----------------------------------------------------------------------------
(* release: r is where the next acquire returns to; dtor says that it is a *)
(* destructor that releases, inside gclock.                                *)

release(p, r, dtor) ==
  /\ ret' = [ret EXCEPT ![p] = r]
  /\ gchalters' = IF dtor THEN gchalters \cup {p} ELSE gchalters
  /\ IF interp[p]
     THEN /\ iprog' = [iprog EXCEPT ![p] = Head(runq)]
          /\ pstate' = [pstate EXCEPT ![Head(runq)] = "release"]
     ELSE UNCHANGED <<iprog, pstate>>
  /\ runq' = Tail(runq)
  /\ \/ /\ vmq # <<>>
        /\ q' = [q EXCEPT ![p] = Head(vmq)]
        /\ vmq' = Tail(vmq)
        /\ pc' = [pc EXCEPT ![p] = "relready"]
        /\ UNCHANGED <<idle, creating, idlevmq>>
     \/ /\ vmq = <<>> /\ idlevmq # <<>>
        /\ q' = [q EXCEPT ![p] = Head(idlevmq)]
        /\ idlevmq' = Tail(idlevmq)
        /\ pc' = [pc EXCEPT ![p] = "relready"]
        /\ UNCHANGED <<idle, creating, vmq>>
     \/ /\ vmq = <<>> /\ idlevmq = <<>>
        /\ idle' = TRUE
        /\ creating' = TRUE
        /\ pc' = [pc EXCEPT ![p] = IF creating THEN "host" ELSE "newvm"]
        /\ UNCHANGED <<q, vmq, idlevmq>>
  /\ UNCHANGED <<interp, cycles, sem, R, rp, rl>>

\* Mutated form: the collector does not hold gclock in a destructor.
ReleaseNoHalt(p) ==
  \/ pc[p] \in {"quantum", "resume"} /\ \E dtor \in {FALSE, Collects} : release(p, "resume", dtor)
  \/ pc[p] = "failed" /\ release(p, "exited", FALSE)
  \/ pc[p] \in {"gcidle", "gcbusy"} /\ Collects /\ release(p, pc[p], FALSE)
  \/ pc[p] = "kproc_vm" /\ release(p, "kproc_vm", FALSE)

\* Who calls release: system calls and the destructors of the heap, a prog's end,
\* the collector, and the kernel processes that are no vmachine.
Release(p) ==
  \/ pc[p] \in {"quantum", "resume"} /\ \E dtor \in {FALSE, Collects} : release(p, "resume", dtor)
  \/ pc[p] = "failed" /\ release(p, "exited", FALSE)
  \/ pc[p] \in {"gcidle", "gcbusy"} /\ Collects /\ gchalters = {} /\ release(p, pc[p], TRUE)
  \/ pc[p] = "kproc_vm" /\ release(p, "kproc_vm", FALSE)

\* kproc("dis", vmachine, nil, 0)
NewVM(p, v) ==
  /\ pc[p] = "newvm" /\ pc[v] = "off"
  /\ pc' = [pc EXCEPT ![p] = "host", ![v] = "startup"]
  /\ UNCHANGED <<ret, interp, cycles, q, sem, prvars, runq, vmvars, rp, rl, gchalters>>

(* acquire                                                                 *)

\* Mutated form: isched.idle is not cleared.
acquireKeepIdle(p) ==
  /\ pc[p] = "host"
  /\ IF idle
     THEN pc' = [pc EXCEPT ![p] = "restore"] /\ UNCHANGED <<idle, vmq>>
     ELSE /\ vmq' = Append(vmq, p)
          /\ pc' = [pc EXCEPT ![p] = IF vmq = <<>> THEN "wakeirend" ELSE "acqblock"]
          /\ UNCHANGED idle
  /\ UNCHANGED <<interp, cycles, q, sem, prvars, runq, creating, idlevmq, rp, rl, gchalters>>

\* Mutated form: irend is not woken.
acquireNoWakeup(p) ==
  /\ pc[p] = "host"
  /\ IF idle
     THEN idle' = FALSE /\ pc' = [pc EXCEPT ![p] = "restore"] /\ UNCHANGED vmq
     ELSE /\ vmq' = Append(vmq, p)
          /\ pc' = [pc EXCEPT ![p] = "acqblock"]
          /\ UNCHANGED idle
  /\ UNCHANGED <<interp, cycles, q, sem, prvars, runq, creating, idlevmq, rp, rl, gchalters>>

acquire(p) ==
  /\ pc[p] = "host"
  /\ IF idle
     THEN idle' = FALSE /\ pc' = [pc EXCEPT ![p] = "restore"] /\ UNCHANGED vmq
     ELSE /\ vmq' = Append(vmq, p)
          /\ pc' = [pc EXCEPT ![p] = IF vmq = <<>> THEN "wakeirend" ELSE "acqblock"]
          /\ UNCHANGED idle
  /\ UNCHANGED <<interp, cycles, q, sem, prvars, runq, creating, idlevmq, rp, rl, gchalters>>

Acquire(p) == acquire(p) /\ UNCHANGED ret

\* Host code fails: the error is raised in vmachine, which acquires the VM.
AcquireError(p) ==
  /\ ret[p] = "resume" /\ p \notin gchalters
  /\ acquire(p)
  /\ ret' = [ret EXCEPT ![p] = "failed"]

WakeIrend(p) ==
  /\ rl = NoProc
  /\ Goto(p, "wakeirend", "acqblock")
  /\ sem' = [w \in Procs |-> IF w = rp THEN sem[w] + 1 ELSE sem[w]]
  /\ rp' = NoProc
  /\ UNCHANGED <<ret, interp, cycles, q, prvars, runq, vmvars, rl, gchalters>>

Acquired(p) ==
  /\ Goto(p, "acqblock", "restore")
  /\ Semacquire(p)
  /\ UNCHANGED <<ret, interp, cycles, q, prvars, runq, vmvars, rp, rl, gchalters>>

\* Mutated form: the prog goes to the tail of the run queue.
RestoreTail(p) ==
  /\ Goto(p, "restore", ret[p])
  /\ IF interp[p]
     THEN /\ R' = iprog[p]
          /\ iprog' = [iprog EXCEPT ![p] = NoProg]
          /\ pstate' = [pstate EXCEPT ![iprog[p]] = "ready"]
          /\ runq' = Append(runq, iprog[p])
     ELSE runq' = Append(runq, p) /\ UNCHANGED prvars
  /\ ret' = [ret EXCEPT ![p] = "nowhere"]
  /\ gchalters' = gchalters \ {p}
  /\ UNCHANGED <<interp, cycles, q, sem, vmvars, rp, rl>>

\* The end of acquire: the prog goes to the head of the run queue.
Restore(p) ==
  /\ Goto(p, "restore", ret[p])
  /\ IF interp[p]
     THEN /\ R' = iprog[p]
          /\ iprog' = [iprog EXCEPT ![p] = NoProg]
          /\ pstate' = [pstate EXCEPT ![iprog[p]] = "ready"]
          /\ runq' = <<iprog[p]>> \o runq
     ELSE runq' = <<p>> \o runq /\ UNCHANGED prvars
  /\ ret' = [ret EXCEPT ![p] = "nowhere"]
  /\ gchalters' = gchalters \ {p}
  /\ UNCHANGED <<interp, cycles, q, sem, vmvars, rp, rl>>

-----------------------------------------------------------------------------
VStep(p) ==
  \/ startup(p) \/ Unpark(p) \/ Loop(p) \/ IdleGC(p) \/ BusyGC(p) \/ NoGC(p) \/ GCEnd(p)
  \/ SleepLock(p) \/ SleepReady(p) \/ SleepCommit(p) \/ Awake(p)
  \/ NoYield(p) \/ Yield(p) \/ iyield(p)
  \/ Run(p) \/ QuantumEnd(p) \/ delrun(p) \/ Error(p) \/ Handled(p) \/ delprog(p)
  \/ \E k \in KProcs : StartKProc(p, k)

PStep(p) ==
  \/ Ready(p) \/ Release(p) \/ Acquire(p) \/ AcquireError(p) \/ WakeIrend(p) \/ Acquired(p)
  \/ Restore(p)
  \/ \E v \in VProcs : NewVM(p, v)
  \/ \E g \in Progs : addrun(p, g)

Next == (\E p \in VProcs : VStep(p)) \/ (\E p \in Procs : PStep(p))

Spec == Init /\ [][Next]_vars

\* What a thread does of itself, outside host calls and the choices of the prog.
VMust(p) ==
  \/ startup(p) \/ Unpark(p) \/ Loop(p) \/ IdleGC(p) \/ BusyGC(p) \/ NoGC(p)
  \/ SleepLock(p) \/ SleepReady(p) \/ SleepCommit(p) \/ Awake(p)
  \/ NoYield(p) \/ Yield(p) \/ iyield(p) \/ Run(p) \/ Handled(p) \/ delprog(p)
PMust(p) ==
  \/ Ready(p) \/ WakeIrend(p) \/ Acquired(p) \/ Restore(p)
  \/ \E v \in VProcs : NewVM(p, v)
  \/ pc[p] = "kproc_vm" /\ Release(p)

\* A thread goes on; the spin lock of irend is retried until it is got.
ThreadsRun ==
  /\ \A p \in VProcs : SF_vars(VMust(p) \/ PMust(p))
  /\ \A k \in KProcs : SF_vars(PMust(k))

\* An instruction, and a collection, release the VM finitely often, and acquire
\* leaves the quantum one instruction to go: quanta end, in an error or otherwise.
QuantaEnd ==
  \A p \in VProcs : SF_vars(QuantumEnd(p) \/ delrun(p) \/ Error(p) \/ GCEnd(p))

\* From some time on progs do not raise exceptions while they have the VM.
NoErrors == <>[][\A p \in VProcs : ~Error(p)]_vars

FairSpec == Spec /\ ThreadsRun /\ QuantaEnd /\ NoErrors

-----------------------------------------------------------------------------
TypeOK ==
  /\ pc \in [Procs -> VMPC \cup OtherPC]
  /\ ret \in [Procs -> {"nowhere", "resume", "exited", "failed", "gcidle", "gcbusy", "kproc_vm"}]
  /\ interp \in [Procs -> BOOLEAN]
  /\ cycles \in [VProcs -> 0..Cycles]
  /\ q \in [Procs -> Procs \cup {NoProc}]
  /\ sem \in [Procs -> {0, 1}]
  /\ iprog \in [Procs -> Progs \cup {NoProg}]
  /\ R \in Progs \cup {NoProg}
  /\ pstate \in [Progs -> {"none", "ready", "blocked", "release"}]
  /\ runq \in Seq(Progs \cup Procs)
  /\ idle \in BOOLEAN /\ creating \in BOOLEAN
  /\ vmq \in Seq(Procs) /\ idlevmq \in Seq(VProcs)
  /\ rp \in Procs \cup {NoProc} /\ rl \in Procs \cup {NoProc}
  /\ gchalters \subseteq Procs

\* p has the VM, or has been given it and has yet to wake up.
HasVM(p) ==
  \/ pc[p] \in VMPC
  \/ pc[p] \in {"wakeirend", "acqblock"} /\ p \notin ToSet(vmq)
  \/ pc[p] \in {"parked", "yielded"} /\ p \notin ToSet(idlevmq)

\* At most one process has the VM, and isched.idle says exactly whether one has:
\* release, iyield, acquire and startup never drop the VM nor give it twice.
OneVM == Cardinality({p \in Procs : HasVM(p)}) = IF idle THEN 0 ELSE 1

\* When nobody has the VM a process is on its way to take it, so that progs on the
\* run queue are not stranded; and release never starts a second one meanwhile.
NotStranded ==
  LET coming == {p \in Procs : pc[p] \in {"newvm", "startup"}}
  IN  Cardinality(coming) <= 1 /\ (idle => coming # {})

\* Processes that run vmachine do not pile up: there is one for each prog, one
\* that runs the VM and one that may be out in a destructor of the collector.
VMsBounded == Cardinality({p \in VProcs : pc[p] # "off"}) <= Cardinality(Progs) + 2

\* What isched.creating is for: a process to run the VM is there when it is needed,
\* and release makes no more of them than that.
VMsAsNeeded == NotStranded /\ VMsBounded

\* The head of the run queue, which release, the end of a quantum and currun take
\* for the caller's own prog, is that: the prog whose registers are loaded, or the
\* process itself when it is collecting or is no vmachine.
CurrunIsMine ==
  \A p \in Procs :
    /\ pc[p] \in {"quantum", "resume", "failed", "exited"} =>
         runq # <<>> /\ Head(runq) = R /\ iprog[p] = NoProg
    /\ pc[p] \in {"gcidle", "gcbusy", "kproc_vm"} => runq # <<>> /\ Head(runq) = p

-----------------------------------------------------------------------------
CleanExit == \E p \in Procs : pc[p] = "cleanexit"

\* Whoever asks for the VM gets it, also when the process that has it is going to
\* sleep on irend just then.
AcquireServed ==
  \A p \in Procs : pc[p] = "acqblock" ~> pc[p] = "restore" \/ CleanExit

\* A ready prog gets a quantum, or leaves the run queue by what it does when it runs.
GetsQuantum(g) ==
  pstate[g] = "ready" ~>
    \/ R = g /\ \E p \in VProcs : pc[p] = "quantum"
    \/ pstate[g] # "ready"
    \/ CleanExit

\* Round robin: no prog on the run queue is passed over for ever, and no process
\* keeps the VM from it, as long as progs do not raise exceptions for ever: without
\* NoErrors it fails, because vmachine's exception path (dis.c:1028) goes back to
\* the loop and leaves the prog that raised at the head of the run queue.
ReadyRuns == \A g \in Progs : GetsQuantum(g)
=============================================================================
