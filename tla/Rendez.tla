------------------------------- MODULE Rendez -------------------------------
(***************************************************************************)
(* Sleep, Wakeup, software interrupts and interruptible host calls of the  *)
(* hosted kernel (emu/port/proc.c), over the pthread semaphore of          *)
(* emu/port/kproc-pthreads.c and the SIGUSR1 handler of emu/Linux/os.c.    *)
(*                                                                         *)
(* A step is one critical section, or one access made outside any lock.    *)
(* Spin locks are variables that hold their owner.  A critical section     *)
(* that posts a semaphore and then unlocks is one step: the process it     *)
(* wakes needs one of those locks before it can look at shared state.      *)
(***************************************************************************)
EXTENDS Naturals

CONSTANTS Procs,    \* kernel processes (struct Proc, one host thread each)
          Rends,    \* Rendez structures
          NoProc,   \* the nil Proc*, and the owner of a free lock
          NoRend    \* the nil Rendez*

ASSUME RendezAssumption == NoProc \notin Procs /\ NoRend \notin Rends

VARIABLES
  pc,         \* control point of each process; "run" is code outside this module
  tgt,        \* the Rendez argument of the Sleep, Wakeup or swiproc in progress
  vic,        \* the Proc argument of the swiproc in progress
  eint,       \* osleave's local r: the software interrupt it collected
  rlock,      \* Proc.rlock: owner
  sysio,      \* Proc.sysio: owner
  upr,        \* Proc.r: the Rendez a process sleeps on
  killed, swipend, syscall, intwait,     \* the Proc fields of those names
  rl,         \* Rendez.l: owner
  rp,         \* Rendez.p: the sleeping process
  cond,       \* the event f(arg) tests, one for each Rendez
  sem,        \* the semaphore of osblock/osready
  sigusr1,    \* SIGUSR1 is pending for the thread
  woken       \* history: who took the process off its Rendez in this Sleep

procState == <<tgt, vic, eint>>
intrState == <<killed, swipend, syscall, intwait, sigusr1>>
vars == <<pc, procState, rlock, sysio, upr, intrState, rl, rp, cond, sem, woken>>

SleepPC == {"s_rlock", "s_l", "s_test", "s_attach", "s_commit", "s_block", "s_relock", "s_exit"}
WakeupPC == {"w_l", "w_pull"}
SwiPC == {"i_rlock", "i_mark", "i_l", "i_pull", "i_sysio", "i_check", "i_signal"}
HostPC == {"h_enter", "h_call", "h_swipend", "h_clear", "h_sysio", "h_intwait"}
PC == {"run"} \cup SleepPC \cup WakeupPC \cup SwiPC \cup HostPC

\* The control point of p moves from a to b.
Step(p, a, b) == pc[p] = a /\ pc' = [pc EXCEPT ![p] = b]

\* The call p is in returns: its arguments are gone.
Return(p, a) ==
  /\ Step(p, a, "run")
  /\ tgt' = [tgt EXCEPT ![p] = NoRend]
  /\ vic' = [vic EXCEPT ![p] = NoProc]

\* lock(): the spin lock is taken by p when nobody holds it.
Acquire(lk, x, p) == lk[x] = NoProc /\ lk' = [lk EXCEPT ![x] = p]
Free(lk, x) == lk' = [lk EXCEPT ![x] = NoProc]

Init ==
  /\ pc = [p \in Procs |-> "run"]
  /\ tgt = [p \in Procs |-> NoRend]
  /\ vic = [p \in Procs |-> NoProc]
  /\ eint = [p \in Procs |-> FALSE]
  /\ rlock = [p \in Procs |-> NoProc]
  /\ sysio = [p \in Procs |-> NoProc]
  /\ upr = [p \in Procs |-> NoRend]
  /\ killed = [p \in Procs |-> FALSE]
  /\ swipend = [p \in Procs |-> FALSE]
  /\ syscall = [p \in Procs |-> FALSE]
  /\ intwait = [p \in Procs |-> FALSE]
  /\ rl = [r \in Rends |-> NoProc]
  /\ rp = [r \in Rends |-> NoProc]
  /\ cond = [r \in Rends |-> FALSE]
  /\ sem = [p \in Procs |-> 0]
  /\ sigusr1 = [p \in Procs |-> FALSE]
  /\ woken = [p \in Procs |-> "no"]

-----------------------------------------------------------------------------
(* Sleep(r, f, arg).  The caller serialises the sleepers of a Rendez       *)
(* (sleep(10.2), usually with a qlock), which is the guard of SleepCall.   *)

SleepCall(p, r) ==
  /\ \A q \in Procs : pc[q] \in SleepPC => tgt[q] # r
  /\ Step(p, "run", "s_rlock")
  /\ tgt' = [tgt EXCEPT ![p] = r]
  /\ UNCHANGED <<vic, eint, rlock, sysio, upr, intrState, rl, rp, cond, sem, woken>>

SleepRlock(p) ==
  /\ Step(p, "s_rlock", "s_l")
  /\ Acquire(rlock, p, p)
  /\ UNCHANGED <<procState, sysio, upr, intrState, rl, rp, cond, sem, woken>>

\* Mutated form: the event is tested without r->l.
SleepNoL(p) ==
  /\ Step(p, "s_l", "s_test")
  /\ UNCHANGED <<procState, rlock, sysio, upr, intrState, rl, rp, cond, sem, woken>>

SleepL(p) ==
  /\ Step(p, "s_l", "s_test")
  /\ Acquire(rl, tgt[p], p)
  /\ UNCHANGED <<procState, rlock, sysio, upr, intrState, rp, cond, sem, woken>>

\* Interrupted, or the event has happened: never mind.
SleepNeverMind(p) ==
  /\ Step(p, "s_test", "s_exit")
  /\ killed[p] \/ cond[tgt[p]]
  /\ Free(rl, tgt[p])
  /\ UNCHANGED <<procState, rlock, sysio, upr, intrState, rp, cond, sem, woken>>

SleepTest(p) ==
  /\ Step(p, "s_test", "s_attach")
  /\ ~killed[p] /\ ~cond[tgt[p]]
  /\ UNCHANGED <<procState, rlock, sysio, upr, intrState, rl, rp, cond, sem, woken>>

\* With r->p set, Sleep panics: the process takes no further step.
SleepAttach(p) ==
  /\ Step(p, "s_attach", "s_commit")
  /\ rp[tgt[p]] = NoProc
  /\ rp' = [rp EXCEPT ![tgt[p]] = p]
  /\ Free(rl, tgt[p])
  /\ UNCHANGED <<procState, rlock, sysio, upr, intrState, cond, sem, woken>>

\* Mutated form: up->r is set only after the unlock, too late for swiproc.
SleepCommitLateR(p) ==
  /\ Step(p, "s_commit", "s_block")
  /\ swipend' = [swipend EXCEPT ![p] = FALSE]
  /\ Free(rlock, p)
  /\ UNCHANGED <<procState, sysio, upr, killed, syscall, intwait, sigusr1, rl, rp, cond, sem, woken>>

\* Mutated form: a stale swipend is kept.
SleepCommitKeepIntr(p) ==
  /\ Step(p, "s_commit", "s_block")
  /\ upr' = [upr EXCEPT ![p] = tgt[p]]
  /\ Free(rlock, p)
  /\ UNCHANGED <<procState, sysio, intrState, rl, rp, cond, sem, woken>>

SleepCommit(p) ==
  /\ Step(p, "s_commit", "s_block")
  /\ swipend' = [swipend EXCEPT ![p] = FALSE]
  /\ upr' = [upr EXCEPT ![p] = tgt[p]]
  /\ Free(rlock, p)
  /\ UNCHANGED <<procState, sysio, killed, syscall, intwait, sigusr1, rl, rp, cond, sem, woken>>

SleepBlock(p) ==
  /\ Step(p, "s_block", "s_relock")
  /\ sem[p] > 0
  /\ sem' = [sem EXCEPT ![p] = @ - 1]
  /\ UNCHANGED <<procState, rlock, sysio, upr, intrState, rl, rp, cond, woken>>

SleepRelock(p) ==
  /\ Step(p, "s_relock", "s_exit")
  /\ Acquire(rlock, p, p)
  /\ upr' = [upr EXCEPT ![p] = NoRend]
  /\ UNCHANGED <<procState, sysio, intrState, rl, rp, cond, sem, woken>>

\* Returns normally, or raises Eintr and clears both flags: the state the
\* process is left in is the same.
SleepExit(p) ==
  /\ Return(p, "s_exit")
  /\ killed' = [killed EXCEPT ![p] = FALSE]
  /\ swipend' = [swipend EXCEPT ![p] = FALSE]
  /\ Free(rlock, p)
  /\ woken' = [woken EXCEPT ![p] = "no"]
  /\ UNCHANGED <<eint, sysio, upr, syscall, intwait, sigusr1, rl, rp, cond, sem>>

-----------------------------------------------------------------------------
(* Wakeup(r), after the caller made the event happen or for no reason.     *)

WakeupCall(p, r) ==
  /\ Step(p, "run", "w_l")
  /\ tgt' = [tgt EXCEPT ![p] = r]
  /\ cond' \in {cond, [cond EXCEPT ![r] = TRUE]}
  /\ UNCHANGED <<vic, eint, rlock, sysio, upr, intrState, rl, rp, sem, woken>>

WakeupL(p) ==
  /\ Step(p, "w_l", "w_pull")
  /\ Acquire(rl, tgt[p], p)
  /\ UNCHANGED <<procState, rlock, sysio, upr, intrState, rp, cond, sem, woken>>

\* Clears r->p and readies q, which was its value.
Pull(r, q, why) ==
  /\ rp' = [rp EXCEPT ![r] = NoProc]
  /\ sem' = [sem EXCEPT ![q] = @ + 1]
  /\ woken' = [woken EXCEPT ![q] = why]

WakeupPull(p) ==
  /\ Return(p, "w_pull")
  /\ IF rp[tgt[p]] # NoProc
       THEN Pull(tgt[p], rp[tgt[p]], "wakeup")
       ELSE UNCHANGED <<rp, sem, woken>>
  /\ Free(rl, tgt[p])
  /\ UNCHANGED <<eint, rlock, sysio, upr, intrState, cond>>

\* The event stops being true: its consumer, or whoever drains it, ran.
Consume(r) ==
  /\ \E p \in Procs : pc[p] = "run"
  /\ cond[r]
  /\ cond' = [cond EXCEPT ![r] = FALSE]
  /\ UNCHANGED <<pc, procState, rlock, sysio, upr, intrState, rl, rp, sem, woken>>

-----------------------------------------------------------------------------
(* swiproc(q, interp), called by p                                         *)

SwiCall(p, q) ==
  /\ p # q
  /\ Step(p, "run", "i_rlock")
  /\ vic' = [vic EXCEPT ![p] = q]
  /\ UNCHANGED <<tgt, eint, rlock, sysio, upr, intrState, rl, rp, cond, sem, woken>>

SwiRlock(p) ==
  /\ Step(p, "i_rlock", "i_mark")
  /\ Acquire(rlock, vic[p], p)
  /\ UNCHANGED <<procState, sysio, upr, intrState, rl, rp, cond, sem, woken>>

\* The victim is asleep: keep its rlock and go for its Rendez.
SwiMarkAsleep(p, interp) ==
  /\ Step(p, "i_mark", "i_l")
  /\ upr[vic[p]] # NoRend
  /\ killed' = [killed EXCEPT ![vic[p]] = IF interp THEN @ ELSE TRUE]
  /\ tgt' = [tgt EXCEPT ![p] = upr[vic[p]]]
  /\ UNCHANGED <<vic, eint, rlock, sysio, upr, swipend, syscall, intwait, sigusr1,
                 rl, rp, cond, sem, woken>>

SwiMarkAwake(p, interp) ==
  /\ Step(p, "i_mark", "i_sysio")
  /\ upr[vic[p]] = NoRend
  /\ killed' = [killed EXCEPT ![vic[p]] = IF interp THEN @ ELSE TRUE]
  /\ Free(rlock, vic[p])
  /\ UNCHANGED <<procState, sysio, upr, swipend, syscall, intwait, sigusr1,
                 rl, rp, cond, sem, woken>>

SwiL(p) ==
  /\ Step(p, "i_l", "i_pull")
  /\ Acquire(rl, tgt[p], p)
  /\ UNCHANGED <<procState, rlock, sysio, upr, intrState, rp, cond, sem, woken>>

\* Mutated form: r->p == p is not tested.
SwiPullAlways(p) ==
  /\ Return(p, "i_pull")
  /\ swipend' = [swipend EXCEPT ![vic[p]] = TRUE]
  /\ Pull(tgt[p], vic[p], "intr")
  /\ Free(rl, tgt[p])
  /\ Free(rlock, vic[p])
  /\ UNCHANGED <<eint, sysio, upr, killed, syscall, intwait, sigusr1, cond>>

\* Mutated form: the victim is taken off its Rendez and not readied.
SwiPullNoReady(p) ==
  /\ Return(p, "i_pull")
  /\ IF rp[tgt[p]] = vic[p]
       THEN /\ swipend' = [swipend EXCEPT ![vic[p]] = TRUE]
            /\ rp' = [rp EXCEPT ![tgt[p]] = NoProc]
       ELSE UNCHANGED <<swipend, rp>>
  /\ Free(rl, tgt[p])
  /\ Free(rlock, vic[p])
  /\ UNCHANGED <<eint, sysio, upr, killed, syscall, intwait, sigusr1, cond, sem, woken>>

\* Pull the victim out of Sleep, unless a Wakeup has done so already.
SwiPull(p) ==
  /\ Return(p, "i_pull")
  /\ IF rp[tgt[p]] = vic[p]
       THEN /\ swipend' = [swipend EXCEPT ![vic[p]] = TRUE]
            /\ Pull(tgt[p], vic[p], "intr")
       ELSE UNCHANGED <<swipend, rp, sem, woken>>
  /\ Free(rl, tgt[p])
  /\ Free(rlock, vic[p])
  /\ UNCHANGED <<eint, sysio, upr, killed, syscall, intwait, sigusr1, cond>>

SwiSysio(p) ==
  /\ Step(p, "i_sysio", "i_check")
  /\ Acquire(sysio, vic[p], p)
  /\ UNCHANGED <<procState, rlock, upr, intrState, rl, rp, cond, sem, woken>>

\* Maybe pull it out of the host operating system.
SwiHost(p) ==
  /\ Step(p, "i_check", "i_signal")
  /\ syscall[vic[p]] /\ ~intwait[vic[p]]
  /\ swipend' = [swipend EXCEPT ![vic[p]] = TRUE]
  /\ intwait' = [intwait EXCEPT ![vic[p]] = TRUE]
  /\ Free(sysio, vic[p])
  /\ UNCHANGED <<procState, rlock, upr, killed, syscall, sigusr1, rl, rp, cond, sem, woken>>

SwiNothing(p) ==
  /\ Return(p, "i_check")
  /\ ~syscall[vic[p]] \/ intwait[vic[p]]
  /\ Free(sysio, vic[p])
  /\ UNCHANGED <<eint, rlock, upr, intrState, rl, rp, cond, sem, woken>>

\* oshostintr: pthread_kill(SIGUSR1), after sysio has been dropped.
SwiSignal(p) ==
  /\ Return(p, "i_signal")
  /\ sigusr1' = [sigusr1 EXCEPT ![vic[p]] = TRUE]
  /\ UNCHANGED <<eint, rlock, sysio, upr, killed, swipend, syscall, intwait,
                 rl, rp, cond, sem, woken>>

NotKilled(p) ==
  /\ pc[p] = "run" /\ rlock[p] = NoProc
  /\ killed' = [killed EXCEPT ![p] = FALSE]
  /\ UNCHANGED <<pc, procState, rlock, sysio, upr, swipend, syscall, intwait, sigusr1,
                 rl, rp, cond, sem, woken>>

-----------------------------------------------------------------------------
(* A host system call between osenter and osleave, and the handler of      *)
(* SIGUSR1, installed without SA_RESTART: a call it finds in the host      *)
(* kernel fails with EINTR, one that has not got there is not affected.    *)

OsEnter(p) ==
  /\ Step(p, "run", "h_enter")
  /\ syscall' = [syscall EXCEPT ![p] = TRUE]
  /\ UNCHANGED <<procState, rlock, sysio, upr, killed, swipend, intwait, sigusr1,
                 rl, rp, cond, sem, woken>>

HostCall(p) ==
  /\ Step(p, "h_enter", "h_call")
  /\ UNCHANGED <<procState, rlock, sysio, upr, intrState, rl, rp, cond, sem, woken>>

HostReturn(p) ==
  /\ Step(p, "h_call", "h_swipend")
  /\ UNCHANGED <<procState, rlock, sysio, upr, intrState, rl, rp, cond, sem, woken>>

TrapUSR1(p) ==
  /\ sigusr1[p]
  /\ sigusr1' = [sigusr1 EXCEPT ![p] = FALSE]
  /\ intwait' = [intwait EXCEPT ![p] = FALSE]
  /\ pc' = [pc EXCEPT ![p] = IF @ = "h_call" THEN "h_swipend" ELSE @]
  /\ UNCHANGED <<procState, rlock, sysio, upr, killed, swipend, syscall,
                 rl, rp, cond, sem, woken>>

\* osleave reads swipend, and then clears it, with the rlock; but SwiHost sets it
\* with sysio, and an interrupt that comes in between is lost.
OsLeaveCollect(p) ==
  /\ Step(p, "h_swipend", "h_clear")
  /\ Acquire(rlock, p, p)
  /\ eint' = [eint EXCEPT ![p] = swipend[p]]
  /\ UNCHANGED <<tgt, vic, sysio, upr, intrState, rl, rp, cond, sem, woken>>

OsLeaveClear(p) ==
  /\ Step(p, "h_clear", "h_sysio")
  /\ swipend' = [swipend EXCEPT ![p] = FALSE]
  /\ Free(rlock, p)
  /\ UNCHANGED <<procState, sysio, upr, killed, syscall, intwait, sigusr1,
                 rl, rp, cond, sem, woken>>

OsLeaveSyscall(p) ==
  /\ Step(p, "h_sysio", "h_intwait")
  /\ sysio[p] = NoProc
  /\ syscall' = [syscall EXCEPT ![p] = FALSE]
  /\ UNCHANGED <<procState, rlock, sysio, upr, killed, swipend, intwait, sigusr1,
                 rl, rp, cond, sem, woken>>

\* Mutated form: osleave does not wait for the handler.
OsLeaveNoWait(p) ==
  /\ Step(p, "h_intwait", "run")
  /\ eint' = [eint EXCEPT ![p] = FALSE]
  /\ UNCHANGED <<tgt, vic, rlock, sysio, upr, intrState, rl, rp, cond, sem, woken>>

\* Waits for the handler, then raises Eintr if eint[p]; the caller goes on either way.
OsLeaveWait(p) ==
  /\ Step(p, "h_intwait", "run")
  /\ ~intwait[p]
  /\ eint' = [eint EXCEPT ![p] = FALSE]
  /\ UNCHANGED <<tgt, vic, rlock, sysio, upr, intrState, rl, rp, cond, sem, woken>>

-----------------------------------------------------------------------------
Call(p) ==
  \/ \E r \in Rends : SleepCall(p, r) \/ WakeupCall(p, r)
  \/ \E q \in Procs : SwiCall(p, q)
  \/ NotKilled(p)
  \/ OsEnter(p)

SleepStep(p) ==
  \/ SleepRlock(p) \/ SleepL(p) \/ SleepNeverMind(p) \/ SleepTest(p)
  \/ SleepAttach(p) \/ SleepCommit(p) \/ SleepBlock(p) \/ SleepRelock(p) \/ SleepExit(p)

WakeupStep(p) == WakeupL(p) \/ WakeupPull(p)

SwiMark(p) == \E interp \in BOOLEAN : SwiMarkAsleep(p, interp) \/ SwiMarkAwake(p, interp)

SwiStep(p) ==
  \/ SwiRlock(p) \/ SwiMark(p) \/ SwiL(p) \/ SwiPull(p)
  \/ SwiSysio(p) \/ SwiHost(p) \/ SwiNothing(p) \/ SwiSignal(p)

OsLeave(p) ==
  \/ OsLeaveCollect(p) \/ OsLeaveClear(p) \/ OsLeaveSyscall(p) \/ OsLeaveWait(p)

\* Everything a process does on its own once it has called in.
Continue(p) ==
  SleepStep(p) \/ WakeupStep(p) \/ SwiStep(p) \/ HostCall(p) \/ OsLeave(p)

Next ==
  \/ \E p \in Procs : Call(p) \/ Continue(p) \/ HostReturn(p) \/ TrapUSR1(p)
  \/ \E r \in Rends : Consume(r)

Spec == Init /\ [][Next]_vars

\* A runnable thread goes on and a pending signal is delivered.  A spin lock is
\* tried again for ever (lock.c backs off and retries), so a process that finds
\* it free again and again gets it: strong fairness.  Nothing makes a host call
\* return, or a process make a call.
Fairness ==
  \A p \in Procs : SF_vars(Continue(p)) /\ WF_vars(TrapUSR1(p))

FairSpec == Spec /\ Fairness

-----------------------------------------------------------------------------
TypeOK ==
  /\ pc \in [Procs -> PC]
  /\ tgt \in [Procs -> Rends \cup {NoRend}]
  /\ vic \in [Procs -> Procs \cup {NoProc}]
  /\ eint \in [Procs -> BOOLEAN]
  /\ rlock \in [Procs -> Procs \cup {NoProc}]
  /\ sysio \in [Procs -> Procs \cup {NoProc}]
  /\ upr \in [Procs -> Rends \cup {NoRend}]
  /\ killed \in [Procs -> BOOLEAN]
  /\ swipend \in [Procs -> BOOLEAN]
  /\ syscall \in [Procs -> BOOLEAN]
  /\ intwait \in [Procs -> BOOLEAN]
  /\ rl \in [Rends -> Procs \cup {NoProc}]
  /\ rp \in [Rends -> Procs \cup {NoProc}]
  /\ cond \in [Rends -> BOOLEAN]
  /\ sem \in [Procs -> Nat]
  /\ sigusr1 \in [Procs -> BOOLEAN]
  /\ woken \in [Procs -> {"no", "wakeup", "intr"}]

\* Between r->p = up and the return of osblock.
Committed(p) == pc[p] \in {"s_commit", "s_block"}
Asleep(p) == pc[p] = "s_block" /\ sem[p] = 0

\* Each Sleep that goes to block gets exactly one token, from whoever takes it off
\* its Rendez, and no token is ever posted for anybody else: the same semaphore
\* serves qlock and the VM lock (osblock in lock.c and dis.c), where a stray token
\* would let a process in.
TokenDiscipline ==
  \A p \in Procs :
    /\ sem[p] = IF Committed(p) /\ rp[tgt[p]] # p THEN 1 ELSE 0
    /\ \A r \in Rends : rp[r] = p => Committed(p) /\ tgt[p] = r

\* No sequence of sleeps, wakeups and interrupts leaves r->p set behind, so
\* serialised callers never meet the "double sleep" panic (proc.c:39).
NoDoubleSleep == \A p \in Procs : pc[p] = "s_attach" => rp[tgt[p]] = NoProc

\* A process that set the event and is on its way to r->p.
WakerOf(r, w) == pc[w] \in WakeupPC /\ tgt[w] = r
InterrupterOf(p, w) == pc[w] \in {"i_rlock", "i_mark", "i_l", "i_pull"} /\ vic[w] = p

\* Nobody sleeps through the event it waits for: if the event is true, the
\* Wakeup that goes with it has still to look at the Rendez.
NoLostWakeup ==
  \A p \in Procs :
    Committed(p) /\ sem[p] = 0 /\ cond[tgt[p]] => \E w \in Procs : WakerOf(tgt[p], w)

\* Nobody stays asleep once marked killed: the swiproc that marked it (interp 0)
\* still holds its rlock, on the way to its Rendez.
NoLostKill ==
  \A p \in Procs :
    Asleep(p) /\ killed[p] => \E w \in Procs : InterrupterOf(p, w) /\ rlock[p] = w

\* What a Sleep that blocked reports is what ended it: an interrupt that took it
\* off its Rendez is pending when it looks, and a Wakeup leaves none pending, not
\* even one posted for a host call the process made before.
CauseReported ==
  \A p \in Procs :
    pc[p] \in {"s_block", "s_relock", "s_exit"} =>
      /\ woken[p] = "intr" => swipend[p]
      /\ woken[p] = "wakeup" => ~swipend[p]

\* SIGUSR1 is pending, or about to be sent, only for a process between osenter
\* and the end of osleave, once at a time, and with intwait set: no handler runs
\* in a sem_wait (kproc-pthreads.c:195 "shouldn't happen"), and none finds
\* intwait 0 (os.c:102 "Should never happen").
SignalWindow ==
  \A p \in Procs :
    LET senders == {w \in Procs : pc[w] = "i_signal" /\ vic[w] = p} IN
    /\ intwait[p] <=> sigusr1[p] \/ senders # {}
    /\ sigusr1[p] => senders = {}
    /\ \A v, w \in senders : v = w
    /\ intwait[p] => pc[p] \in HostPC

-----------------------------------------------------------------------------
(* The inductive strengthening of the invariants above: who holds each     *)
(* lock, what the arguments of a call in progress are, and what each       *)
(* control point says of the flags.                                        *)

HoldsRlock(w, x) ==
  \/ w = x /\ pc[w] \in {"s_l", "s_test", "s_attach", "s_commit", "s_exit", "h_clear"}
  \/ vic[w] = x /\ pc[w] \in {"i_mark", "i_l", "i_pull"}

HoldsL(w, r) == tgt[w] = r /\ pc[w] \in {"s_test", "s_attach", "w_pull", "i_pull"}

LockInv ==
  \A w \in Procs :
    /\ \A x \in Procs : HoldsRlock(w, x) <=> rlock[x] = w
    /\ \A x \in Procs : vic[w] = x /\ pc[w] = "i_check" <=> sysio[x] = w
    /\ \A r \in Rends : HoldsL(w, r) <=> rl[r] = w

ArgInv ==
  \A p \in Procs :
    /\ pc[p] \in {"i_l", "i_pull"} \cup SleepPC \cup WakeupPC => tgt[p] \in Rends
    /\ pc[p] \in SwiPC => vic[p] \in Procs \ {p}
    /\ pc[p] \in {"i_l", "i_pull"} => upr[vic[p]] = tgt[p]

SleepInv ==
  \A p \in Procs :
    /\ upr[p] = IF pc[p] \in {"s_block", "s_relock"} THEN tgt[p] ELSE NoRend
    /\ \A q \in Procs \ {p} : pc[p] \in SleepPC /\ pc[q] \in SleepPC => tgt[p] # tgt[q]

\* The event may come true between the test and r->p = up, with r->l held.
WakeupInv ==
  \A p \in Procs :
    (pc[p] = "s_attach" \/ (Committed(p) /\ sem[p] = 0)) /\ cond[tgt[p]]
      => \E w \in Procs : WakerOf(tgt[p], w)

KillInv ==
  \A p \in Procs :
    /\ pc[p] \in {"s_attach", "s_commit"} => ~killed[p]
    /\ Asleep(p) /\ killed[p] => \E w \in Procs : InterrupterOf(p, w) /\ rlock[p] = w

CauseInv ==
  \A p \in Procs :
    /\ pc[p] \notin {"s_commit", "s_block", "s_relock", "s_exit"} => woken[p] = "no"
    /\ Committed(p) => (woken[p] = "no" <=> sem[p] = 0)
    /\ pc[p] = "s_commit" => woken[p] # "intr"
    /\ pc[p] = "s_block" => (woken[p] = "intr" <=> swipend[p])
    /\ pc[p] \in {"s_relock", "s_exit"} =>
         /\ woken[p] = "intr" => swipend[p]
         /\ woken[p] = "wakeup" => ~swipend[p]

SignalInv ==
  /\ SignalWindow
  /\ \A p \in Procs : syscall[p] <=> pc[p] \in HostPC \ {"h_intwait"}

IInv ==
  /\ TypeOK /\ LockInv /\ ArgInv /\ SleepInv /\ TokenDiscipline
  /\ WakeupInv /\ KillInv /\ CauseInv /\ SignalInv

-----------------------------------------------------------------------------
\* Whoever was woken, or marked killed by swiproc(p, 0) in its sleep, gets out of
\* Sleep, and osleave does not spin for ever on intwait.
CallsReturn ==
  \A p \in Procs :
    \/ Committed(p) /\ sem[p] > 0
    \/ Asleep(p) /\ killed[p]
    \/ pc[p] = "h_swipend"
    ~> pc[p] = "run"
=============================================================================
