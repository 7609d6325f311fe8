---------------------------- MODULE RendezProofs ----------------------------
(***************************************************************************)
(* Proofs about Rendez for every set of processes and Rendez structures.   *)
(* IInv is inductive; one lemma below shows that each of its parts is      *)
(* preserved, with a step for each action of Next.  The lock invariant is  *)
(* what the rest stands on: whoever changes Proc.r or Proc.killed holds    *)
(* that process's rlock, and whoever changes Rendez.p holds its l.         *)
(***************************************************************************)
EXTENDS Rendez, TLAPS

-----------------------------------------------------------------------------

\* Every step keeps the variables in their types.
LEMMA TypeOKStep == TypeOK /\ ArgInv /\ [Next]_vars => TypeOK'
  <1>. SUFFICES ASSUME TypeOK, ArgInv PROVE [Next]_vars => TypeOK'
    OBVIOUS
  <1>. USE RendezAssumption DEF TypeOK, Step, Return, Acquire, Free, procState, intrState, PC, SleepPC, WakeupPC, SwiPC, HostPC
  <1>1. ASSUME NEW p \in Procs, NEW r \in Rends, SleepCall(p, r) PROVE TypeOK'
    BY <1>1 DEF SleepCall
  <1>2. ASSUME NEW p \in Procs, NEW r \in Rends, WakeupCall(p, r) PROVE TypeOK'
    BY <1>2 DEF WakeupCall
  <1>3. ASSUME NEW p \in Procs, NEW q \in Procs, SwiCall(p, q) PROVE TypeOK'
    BY <1>3 DEF SwiCall
  <1>4. ASSUME NEW p \in Procs, NotKilled(p) PROVE TypeOK'
    BY <1>4 DEF NotKilled
  <1>5. ASSUME NEW p \in Procs, OsEnter(p) PROVE TypeOK'
    BY <1>5 DEF OsEnter
  <1>6. ASSUME NEW p \in Procs, SleepRlock(p) PROVE TypeOK'
    BY <1>6 DEF SleepRlock
  <1>7. ASSUME NEW p \in Procs, SleepL(p) PROVE TypeOK'
    BY <1>7 DEF SleepL
  <1>8. ASSUME NEW p \in Procs, SleepNeverMind(p) PROVE TypeOK'
    BY <1>8 DEF SleepNeverMind
  <1>9. ASSUME NEW p \in Procs, SleepTest(p) PROVE TypeOK'
    BY <1>9 DEF SleepTest
  <1>10. ASSUME NEW p \in Procs, SleepAttach(p) PROVE TypeOK'
    BY <1>10 DEF SleepAttach
  <1>11. ASSUME NEW p \in Procs, SleepCommit(p) PROVE TypeOK'
    BY <1>11 DEF SleepCommit
  <1>12. ASSUME NEW p \in Procs, SleepBlock(p) PROVE TypeOK'
    BY <1>12 DEF SleepBlock
  <1>13. ASSUME NEW p \in Procs, SleepRelock(p) PROVE TypeOK'
    BY <1>13 DEF SleepRelock
  <1>14. ASSUME NEW p \in Procs, SleepExit(p) PROVE TypeOK'
    BY <1>14 DEF SleepExit
  <1>15. ASSUME NEW p \in Procs, WakeupL(p) PROVE TypeOK'
    BY <1>15 DEF WakeupL
  <1>16. ASSUME NEW p \in Procs, WakeupPull(p) PROVE TypeOK'
    <2>1. tgt[p] \in Rends
      BY <1>16 DEF WakeupPull, ArgInv
    <2>2. rp[tgt[p]] # NoProc => rp[tgt[p]] \in Procs
      BY <2>1
    <2>3. sem' \in [Procs -> Nat] /\ rp' \in [Rends -> Procs \cup {NoProc}]
      BY <1>16, <2>1, <2>2 DEF WakeupPull, Pull
    <2>. QED
      BY <1>16, <2>1, <2>2, <2>3 DEF WakeupPull, Pull
  <1>17. ASSUME NEW p \in Procs, SwiRlock(p) PROVE TypeOK'
    BY <1>17 DEF SwiRlock
  <1>18. ASSUME NEW p \in Procs, NEW interp \in BOOLEAN, SwiMarkAsleep(p, interp) PROVE TypeOK'
    <2>1. vic[p] \in Procs
      BY <1>18 DEF SwiMarkAsleep, ArgInv
    <2>2. upr[vic[p]] \in Rends
      BY <1>18, <2>1 DEF SwiMarkAsleep
    <2>. QED
      BY <1>18, <2>1, <2>2 DEF SwiMarkAsleep
  <1>19. ASSUME NEW p \in Procs, NEW interp \in BOOLEAN, SwiMarkAwake(p, interp) PROVE TypeOK'
    BY <1>19 DEF SwiMarkAwake
  <1>20. ASSUME NEW p \in Procs, SwiL(p) PROVE TypeOK'
    BY <1>20 DEF SwiL
  <1>21. ASSUME NEW p \in Procs, SwiPull(p) PROVE TypeOK'
    <2>1. vic[p] \in Procs /\ tgt[p] \in Rends
      BY <1>21 DEF SwiPull, ArgInv
    <2>2. CASE rp[tgt[p]] = vic[p]
      <3>1. sem' \in [Procs -> Nat] /\ rp' \in [Rends -> Procs \cup {NoProc}]
        BY <1>21, <2>1, <2>2 DEF SwiPull, Pull
      <3>2. swipend' \in [Procs -> BOOLEAN] /\ woken' \in [Procs -> {"no", "wakeup", "intr"}]
        BY <1>21, <2>1, <2>2 DEF SwiPull, Pull
      <3>. QED
        BY <1>21, <2>1, <3>1, <3>2 DEF SwiPull
    <2>3. CASE rp[tgt[p]] # vic[p]
      BY <1>21, <2>1, <2>3 DEF SwiPull
    <2>. QED
      BY <2>2, <2>3
  <1>22. ASSUME NEW p \in Procs, SwiSysio(p) PROVE TypeOK'
    BY <1>22 DEF SwiSysio
  <1>23. ASSUME NEW p \in Procs, SwiHost(p) PROVE TypeOK'
    BY <1>23 DEF SwiHost
  <1>24. ASSUME NEW p \in Procs, SwiNothing(p) PROVE TypeOK'
    BY <1>24 DEF SwiNothing
  <1>25. ASSUME NEW p \in Procs, SwiSignal(p) PROVE TypeOK'
    BY <1>25 DEF SwiSignal
  <1>26. ASSUME NEW p \in Procs, HostCall(p) PROVE TypeOK'
    BY <1>26 DEF HostCall
  <1>27. ASSUME NEW p \in Procs, HostReturn(p) PROVE TypeOK'
    BY <1>27 DEF HostReturn
  <1>28. ASSUME NEW p \in Procs, TrapUSR1(p) PROVE TypeOK'
    BY <1>28 DEF TrapUSR1
  <1>29. ASSUME NEW p \in Procs, OsLeaveCollect(p) PROVE TypeOK'
    BY <1>29 DEF OsLeaveCollect
  <1>30. ASSUME NEW p \in Procs, OsLeaveSyscall(p) PROVE TypeOK'
    BY <1>30 DEF OsLeaveSyscall
  <1>31. ASSUME NEW p \in Procs, OsLeaveWait(p) PROVE TypeOK'
    BY <1>31 DEF OsLeaveWait
  <1>32. ASSUME NEW r \in Rends, Consume(r) PROVE TypeOK'
    BY <1>32 DEF Consume
  <1>33. ASSUME UNCHANGED vars PROVE TypeOK'
    BY <1>33 DEF vars
  <1>34. ASSUME NEW p \in Procs, OsLeaveClear(p) PROVE TypeOK'
    BY <1>34 DEF OsLeaveClear
  <1>. HIDE DEF TypeOK, Step, Return, Acquire, Free, procState, intrState
  <1>. QED
    BY <1>1, <1>2, <1>3, <1>4, <1>5, <1>6, <1>7, <1>8, <1>9, <1>10, <1>11, <1>12,
       <1>13, <1>14, <1>15, <1>16, <1>17, <1>18, <1>19, <1>20, <1>21, <1>22, <1>23, <1>24,
       <1>25, <1>26, <1>27, <1>28, <1>29, <1>30, <1>31, <1>32, <1>33, <1>34
    DEF Next, Call, Continue, SleepStep, WakeupStep, SwiStep, SwiMark, OsLeave

\* Locks are owned by exactly the processes inside their critical sections.
LEMMA LockStep == TypeOK /\ LockInv /\ ArgInv /\ [Next]_vars => LockInv'
  <1>. SUFFICES ASSUME TypeOK, LockInv, ArgInv PROVE [Next]_vars => LockInv'
    OBVIOUS
  <1>. USE RendezAssumption DEF TypeOK, LockInv, ArgInv, HoldsRlock, HoldsL, Step, Return, Acquire, Free, procState, intrState, PC, SleepPC, WakeupPC, SwiPC, HostPC
  <1>1. ASSUME NEW p \in Procs, NEW r \in Rends, SleepCall(p, r) PROVE LockInv'
    BY <1>1 DEF SleepCall
  <1>2. ASSUME NEW p \in Procs, NEW r \in Rends, WakeupCall(p, r) PROVE LockInv'
    BY <1>2 DEF WakeupCall
  <1>3. ASSUME NEW p \in Procs, NEW q \in Procs, SwiCall(p, q) PROVE LockInv'
    BY <1>3 DEF SwiCall
  <1>4. ASSUME NEW p \in Procs, NotKilled(p) PROVE LockInv'
    BY <1>4 DEF NotKilled
  <1>5. ASSUME NEW p \in Procs, OsEnter(p) PROVE LockInv'
    BY <1>5 DEF OsEnter
  <1>6. ASSUME NEW p \in Procs, SleepRlock(p) PROVE LockInv'
    BY <1>6 DEF SleepRlock
  <1>7. ASSUME NEW p \in Procs, SleepL(p) PROVE LockInv'
    BY <1>7 DEF SleepL
  <1>8. ASSUME NEW p \in Procs, SleepNeverMind(p) PROVE LockInv'
    BY <1>8 DEF SleepNeverMind
  <1>9. ASSUME NEW p \in Procs, SleepTest(p) PROVE LockInv'
    BY <1>9 DEF SleepTest
  <1>10. ASSUME NEW p \in Procs, SleepAttach(p) PROVE LockInv'
    BY <1>10 DEF SleepAttach
  <1>11. ASSUME NEW p \in Procs, SleepCommit(p) PROVE LockInv'
    BY <1>11 DEF SleepCommit
  <1>12. ASSUME NEW p \in Procs, SleepBlock(p) PROVE LockInv'
    BY <1>12 DEF SleepBlock
  <1>13. ASSUME NEW p \in Procs, SleepRelock(p) PROVE LockInv'
    BY <1>13 DEF SleepRelock
  <1>14. ASSUME NEW p \in Procs, SleepExit(p) PROVE LockInv'
    BY <1>14 DEF SleepExit
  <1>15. ASSUME NEW p \in Procs, WakeupL(p) PROVE LockInv'
    BY <1>15 DEF WakeupL
  <1>16. ASSUME NEW p \in Procs, WakeupPull(p) PROVE LockInv'
    BY <1>16 DEF WakeupPull, Pull
  <1>17. ASSUME NEW p \in Procs, SwiRlock(p) PROVE LockInv'
    BY <1>17 DEF SwiRlock
  <1>18. ASSUME NEW p \in Procs, NEW interp \in BOOLEAN, SwiMarkAsleep(p, interp) PROVE LockInv'
    BY <1>18 DEF SwiMarkAsleep
  <1>19. ASSUME NEW p \in Procs, NEW interp \in BOOLEAN, SwiMarkAwake(p, interp) PROVE LockInv'
    BY <1>19 DEF SwiMarkAwake
  <1>20. ASSUME NEW p \in Procs, SwiL(p) PROVE LockInv'
    BY <1>20 DEF SwiL
  <1>21. ASSUME NEW p \in Procs, SwiPull(p) PROVE LockInv'
    BY <1>21 DEF SwiPull, Pull
  <1>22. ASSUME NEW p \in Procs, SwiSysio(p) PROVE LockInv'
    BY <1>22 DEF SwiSysio
  <1>23. ASSUME NEW p \in Procs, SwiHost(p) PROVE LockInv'
    BY <1>23 DEF SwiHost
  <1>24. ASSUME NEW p \in Procs, SwiNothing(p) PROVE LockInv'
    BY <1>24 DEF SwiNothing
  <1>25. ASSUME NEW p \in Procs, SwiSignal(p) PROVE LockInv'
    BY <1>25 DEF SwiSignal
  <1>26. ASSUME NEW p \in Procs, HostCall(p) PROVE LockInv'
    BY <1>26 DEF HostCall
  <1>27. ASSUME NEW p \in Procs, HostReturn(p) PROVE LockInv'
    BY <1>27 DEF HostReturn
  <1>28. ASSUME NEW p \in Procs, TrapUSR1(p) PROVE LockInv'
    BY <1>28 DEF TrapUSR1
  <1>29. ASSUME NEW p \in Procs, OsLeaveCollect(p) PROVE LockInv'
    BY <1>29 DEF OsLeaveCollect
  <1>30. ASSUME NEW p \in Procs, OsLeaveSyscall(p) PROVE LockInv'
    BY <1>30 DEF OsLeaveSyscall
  <1>31. ASSUME NEW p \in Procs, OsLeaveWait(p) PROVE LockInv'
    BY <1>31 DEF OsLeaveWait
  <1>32. ASSUME NEW r \in Rends, Consume(r) PROVE LockInv'
    BY <1>32 DEF Consume
  <1>33. ASSUME UNCHANGED vars PROVE LockInv'
    BY <1>33 DEF vars
  <1>34. ASSUME NEW p \in Procs, OsLeaveClear(p) PROVE LockInv'
    BY <1>34 DEF OsLeaveClear
  <1>. HIDE DEF LockInv, Step, Return, Acquire, Free, procState, intrState
  <1>. QED
    BY <1>1, <1>2, <1>3, <1>4, <1>5, <1>6, <1>7, <1>8, <1>9, <1>10, <1>11, <1>12,
       <1>13, <1>14, <1>15, <1>16, <1>17, <1>18, <1>19, <1>20, <1>21, <1>22, <1>23, <1>24,
       <1>25, <1>26, <1>27, <1>28, <1>29, <1>30, <1>31, <1>32, <1>33, <1>34
    DEF Next, Call, Continue, SleepStep, WakeupStep, SwiStep, SwiMark, OsLeave

\* The Rendez a swiproc is after stays its victim's while it holds the victim's rlock.
LEMMA ArgStep == TypeOK /\ LockInv /\ ArgInv /\ SleepInv /\ [Next]_vars => ArgInv'
  <1>. SUFFICES ASSUME TypeOK, LockInv, ArgInv, SleepInv PROVE [Next]_vars => ArgInv'
    OBVIOUS
  <1>. USE RendezAssumption DEF TypeOK, LockInv, ArgInv, SleepInv, HoldsRlock, Step, Return, Acquire, Free, procState, intrState, PC, SleepPC, WakeupPC, SwiPC, HostPC
  <1>1. ASSUME NEW p \in Procs, NEW r \in Rends, SleepCall(p, r) PROVE ArgInv'
    BY <1>1 DEF SleepCall
  <1>2. ASSUME NEW p \in Procs, NEW r \in Rends, WakeupCall(p, r) PROVE ArgInv'
    BY <1>2 DEF WakeupCall
  <1>3. ASSUME NEW p \in Procs, NEW q \in Procs, SwiCall(p, q) PROVE ArgInv'
    BY <1>3 DEF SwiCall
  <1>4. ASSUME NEW p \in Procs, NotKilled(p) PROVE ArgInv'
    BY <1>4 DEF NotKilled
  <1>5. ASSUME NEW p \in Procs, OsEnter(p) PROVE ArgInv'
    BY <1>5 DEF OsEnter
  <1>6. ASSUME NEW p \in Procs, SleepRlock(p) PROVE ArgInv'
    BY <1>6 DEF SleepRlock
  <1>7. ASSUME NEW p \in Procs, SleepL(p) PROVE ArgInv'
    BY <1>7 DEF SleepL
  <1>8. ASSUME NEW p \in Procs, SleepNeverMind(p) PROVE ArgInv'
    BY <1>8 DEF SleepNeverMind
  <1>9. ASSUME NEW p \in Procs, SleepTest(p) PROVE ArgInv'
    BY <1>9 DEF SleepTest
  <1>10. ASSUME NEW p \in Procs, SleepAttach(p) PROVE ArgInv'
    BY <1>10 DEF SleepAttach
  <1>11. ASSUME NEW p \in Procs, SleepCommit(p) PROVE ArgInv'
    BY <1>11 DEF SleepCommit
  <1>12. ASSUME NEW p \in Procs, SleepBlock(p) PROVE ArgInv'
    BY <1>12 DEF SleepBlock
  <1>13. ASSUME NEW p \in Procs, SleepRelock(p) PROVE ArgInv'
    BY <1>13 DEF SleepRelock
  <1>14. ASSUME NEW p \in Procs, SleepExit(p) PROVE ArgInv'
    BY <1>14 DEF SleepExit
  <1>15. ASSUME NEW p \in Procs, WakeupL(p) PROVE ArgInv'
    BY <1>15 DEF WakeupL
  <1>16. ASSUME NEW p \in Procs, WakeupPull(p) PROVE ArgInv'
    BY <1>16 DEF WakeupPull, Pull
  <1>17. ASSUME NEW p \in Procs, SwiRlock(p) PROVE ArgInv'
    BY <1>17 DEF SwiRlock
  <1>18. ASSUME NEW p \in Procs, NEW interp \in BOOLEAN, SwiMarkAsleep(p, interp) PROVE ArgInv'
    BY <1>18 DEF SwiMarkAsleep
  <1>19. ASSUME NEW p \in Procs, NEW interp \in BOOLEAN, SwiMarkAwake(p, interp) PROVE ArgInv'
    BY <1>19 DEF SwiMarkAwake
  <1>20. ASSUME NEW p \in Procs, SwiL(p) PROVE ArgInv'
    BY <1>20 DEF SwiL
  <1>21. ASSUME NEW p \in Procs, SwiPull(p) PROVE ArgInv'
    BY <1>21 DEF SwiPull, Pull
  <1>22. ASSUME NEW p \in Procs, SwiSysio(p) PROVE ArgInv'
    BY <1>22 DEF SwiSysio
  <1>23. ASSUME NEW p \in Procs, SwiHost(p) PROVE ArgInv'
    BY <1>23 DEF SwiHost
  <1>24. ASSUME NEW p \in Procs, SwiNothing(p) PROVE ArgInv'
    BY <1>24 DEF SwiNothing
  <1>25. ASSUME NEW p \in Procs, SwiSignal(p) PROVE ArgInv'
    BY <1>25 DEF SwiSignal
  <1>26. ASSUME NEW p \in Procs, HostCall(p) PROVE ArgInv'
    BY <1>26 DEF HostCall
  <1>27. ASSUME NEW p \in Procs, HostReturn(p) PROVE ArgInv'
    BY <1>27 DEF HostReturn
  <1>28. ASSUME NEW p \in Procs, TrapUSR1(p) PROVE ArgInv'
    BY <1>28 DEF TrapUSR1
  <1>29. ASSUME NEW p \in Procs, OsLeaveCollect(p) PROVE ArgInv'
    BY <1>29 DEF OsLeaveCollect
  <1>30. ASSUME NEW p \in Procs, OsLeaveSyscall(p) PROVE ArgInv'
    BY <1>30 DEF OsLeaveSyscall
  <1>31. ASSUME NEW p \in Procs, OsLeaveWait(p) PROVE ArgInv'
    BY <1>31 DEF OsLeaveWait
  <1>32. ASSUME NEW r \in Rends, Consume(r) PROVE ArgInv'
    BY <1>32 DEF Consume
  <1>33. ASSUME UNCHANGED vars PROVE ArgInv'
    BY <1>33 DEF vars
  <1>34. ASSUME NEW p \in Procs, OsLeaveClear(p) PROVE ArgInv'
    BY <1>34 DEF OsLeaveClear
  <1>. HIDE DEF ArgInv, Step, Return, Acquire, Free, procState, intrState
  <1>. QED
    BY <1>1, <1>2, <1>3, <1>4, <1>5, <1>6, <1>7, <1>8, <1>9, <1>10, <1>11, <1>12,
       <1>13, <1>14, <1>15, <1>16, <1>17, <1>18, <1>19, <1>20, <1>21, <1>22, <1>23, <1>24,
       <1>25, <1>26, <1>27, <1>28, <1>29, <1>30, <1>31, <1>32, <1>33, <1>34
    DEF Next, Call, Continue, SleepStep, WakeupStep, SwiStep, SwiMark, OsLeave

\* Proc.r is the Rendez of a process between SleepCommit and SleepRelock, one process to a Rendez.
LEMMA SleepInvStep == TypeOK /\ LockInv /\ ArgInv /\ SleepInv /\ [Next]_vars => SleepInv'
  <1>. SUFFICES ASSUME TypeOK, LockInv, ArgInv, SleepInv PROVE [Next]_vars => SleepInv'
    OBVIOUS
  <1>. USE RendezAssumption DEF TypeOK, LockInv, ArgInv, SleepInv, HoldsRlock, Step, Return, Acquire, Free, procState, intrState, PC, SleepPC, WakeupPC, SwiPC, HostPC
  <1>1. ASSUME NEW p \in Procs, NEW r \in Rends, SleepCall(p, r) PROVE SleepInv'
    BY <1>1 DEF SleepCall
  <1>2. ASSUME NEW p \in Procs, NEW r \in Rends, WakeupCall(p, r) PROVE SleepInv'
    BY <1>2 DEF WakeupCall
  <1>3. ASSUME NEW p \in Procs, NEW q \in Procs, SwiCall(p, q) PROVE SleepInv'
    BY <1>3 DEF SwiCall
  <1>4. ASSUME NEW p \in Procs, NotKilled(p) PROVE SleepInv'
    BY <1>4 DEF NotKilled
  <1>5. ASSUME NEW p \in Procs, OsEnter(p) PROVE SleepInv'
    BY <1>5 DEF OsEnter
  <1>6. ASSUME NEW p \in Procs, SleepRlock(p) PROVE SleepInv'
    BY <1>6 DEF SleepRlock
  <1>7. ASSUME NEW p \in Procs, SleepL(p) PROVE SleepInv'
    BY <1>7 DEF SleepL
  <1>8. ASSUME NEW p \in Procs, SleepNeverMind(p) PROVE SleepInv'
    BY <1>8 DEF SleepNeverMind
  <1>9. ASSUME NEW p \in Procs, SleepTest(p) PROVE SleepInv'
    BY <1>9 DEF SleepTest
  <1>10. ASSUME NEW p \in Procs, SleepAttach(p) PROVE SleepInv'
    BY <1>10 DEF SleepAttach
  <1>11. ASSUME NEW p \in Procs, SleepCommit(p) PROVE SleepInv'
    BY <1>11 DEF SleepCommit
  <1>12. ASSUME NEW p \in Procs, SleepBlock(p) PROVE SleepInv'
    BY <1>12 DEF SleepBlock
  <1>13. ASSUME NEW p \in Procs, SleepRelock(p) PROVE SleepInv'
    BY <1>13 DEF SleepRelock
  <1>14. ASSUME NEW p \in Procs, SleepExit(p) PROVE SleepInv'
    BY <1>14 DEF SleepExit
  <1>15. ASSUME NEW p \in Procs, WakeupL(p) PROVE SleepInv'
    BY <1>15 DEF WakeupL
  <1>16. ASSUME NEW p \in Procs, WakeupPull(p) PROVE SleepInv'
    BY <1>16 DEF WakeupPull, Pull
  <1>17. ASSUME NEW p \in Procs, SwiRlock(p) PROVE SleepInv'
    BY <1>17 DEF SwiRlock
  <1>18. ASSUME NEW p \in Procs, NEW interp \in BOOLEAN, SwiMarkAsleep(p, interp) PROVE SleepInv'
    BY <1>18 DEF SwiMarkAsleep
  <1>19. ASSUME NEW p \in Procs, NEW interp \in BOOLEAN, SwiMarkAwake(p, interp) PROVE SleepInv'
    BY <1>19 DEF SwiMarkAwake
  <1>20. ASSUME NEW p \in Procs, SwiL(p) PROVE SleepInv'
    BY <1>20 DEF SwiL
  <1>21. ASSUME NEW p \in Procs, SwiPull(p) PROVE SleepInv'
    BY <1>21 DEF SwiPull, Pull
  <1>22. ASSUME NEW p \in Procs, SwiSysio(p) PROVE SleepInv'
    BY <1>22 DEF SwiSysio
  <1>23. ASSUME NEW p \in Procs, SwiHost(p) PROVE SleepInv'
    BY <1>23 DEF SwiHost
  <1>24. ASSUME NEW p \in Procs, SwiNothing(p) PROVE SleepInv'
    BY <1>24 DEF SwiNothing
  <1>25. ASSUME NEW p \in Procs, SwiSignal(p) PROVE SleepInv'
    BY <1>25 DEF SwiSignal
  <1>26. ASSUME NEW p \in Procs, HostCall(p) PROVE SleepInv'
    BY <1>26 DEF HostCall
  <1>27. ASSUME NEW p \in Procs, HostReturn(p) PROVE SleepInv'
    BY <1>27 DEF HostReturn
  <1>28. ASSUME NEW p \in Procs, TrapUSR1(p) PROVE SleepInv'
    BY <1>28 DEF TrapUSR1
  <1>29. ASSUME NEW p \in Procs, OsLeaveCollect(p) PROVE SleepInv'
    BY <1>29 DEF OsLeaveCollect
  <1>30. ASSUME NEW p \in Procs, OsLeaveSyscall(p) PROVE SleepInv'
    BY <1>30 DEF OsLeaveSyscall
  <1>31. ASSUME NEW p \in Procs, OsLeaveWait(p) PROVE SleepInv'
    BY <1>31 DEF OsLeaveWait
  <1>32. ASSUME NEW r \in Rends, Consume(r) PROVE SleepInv'
    BY <1>32 DEF Consume
  <1>33. ASSUME UNCHANGED vars PROVE SleepInv'
    BY <1>33 DEF vars
  <1>34. ASSUME NEW p \in Procs, OsLeaveClear(p) PROVE SleepInv'
    BY <1>34 DEF OsLeaveClear
  <1>. HIDE DEF SleepInv, Step, Return, Acquire, Free, procState, intrState
  <1>. QED
    BY <1>1, <1>2, <1>3, <1>4, <1>5, <1>6, <1>7, <1>8, <1>9, <1>10, <1>11, <1>12,
       <1>13, <1>14, <1>15, <1>16, <1>17, <1>18, <1>19, <1>20, <1>21, <1>22, <1>23, <1>24,
       <1>25, <1>26, <1>27, <1>28, <1>29, <1>30, <1>31, <1>32, <1>33, <1>34
    DEF Next, Call, Continue, SleepStep, WakeupStep, SwiStep, SwiMark, OsLeave

\* A token is posted exactly when a committed process is taken off its Rendez.
LEMMA TokenStep == TypeOK /\ LockInv /\ ArgInv /\ SleepInv /\ TokenDiscipline /\ [Next]_vars => TokenDiscipline'
  <1>. SUFFICES ASSUME TypeOK, LockInv, ArgInv, SleepInv, TokenDiscipline PROVE [Next]_vars => TokenDiscipline'
    OBVIOUS
  <1>. USE RendezAssumption DEF TypeOK, LockInv, ArgInv, SleepInv, TokenDiscipline, Committed, Step, Return, Acquire, Free, procState, intrState, PC, SleepPC, WakeupPC, SwiPC, HostPC
  <1>1. ASSUME NEW p \in Procs, NEW r \in Rends, SleepCall(p, r) PROVE TokenDiscipline'
    BY <1>1 DEF SleepCall
  <1>2. ASSUME NEW p \in Procs, NEW r \in Rends, WakeupCall(p, r) PROVE TokenDiscipline'
    BY <1>2 DEF WakeupCall
  <1>3. ASSUME NEW p \in Procs, NEW q \in Procs, SwiCall(p, q) PROVE TokenDiscipline'
    BY <1>3 DEF SwiCall
  <1>4. ASSUME NEW p \in Procs, NotKilled(p) PROVE TokenDiscipline'
    BY <1>4 DEF NotKilled
  <1>5. ASSUME NEW p \in Procs, OsEnter(p) PROVE TokenDiscipline'
    BY <1>5 DEF OsEnter
  <1>6. ASSUME NEW p \in Procs, SleepRlock(p) PROVE TokenDiscipline'
    BY <1>6 DEF SleepRlock
  <1>7. ASSUME NEW p \in Procs, SleepL(p) PROVE TokenDiscipline'
    BY <1>7 DEF SleepL
  <1>8. ASSUME NEW p \in Procs, SleepNeverMind(p) PROVE TokenDiscipline'
    BY <1>8 DEF SleepNeverMind
  <1>9. ASSUME NEW p \in Procs, SleepTest(p) PROVE TokenDiscipline'
    BY <1>9 DEF SleepTest
  <1>10. ASSUME NEW p \in Procs, SleepAttach(p) PROVE TokenDiscipline'
    BY <1>10 DEF SleepAttach
  <1>11. ASSUME NEW p \in Procs, SleepCommit(p) PROVE TokenDiscipline'
    BY <1>11 DEF SleepCommit
  <1>12. ASSUME NEW p \in Procs, SleepBlock(p) PROVE TokenDiscipline'
    BY <1>12 DEF SleepBlock
  <1>13. ASSUME NEW p \in Procs, SleepRelock(p) PROVE TokenDiscipline'
    BY <1>13 DEF SleepRelock
  <1>14. ASSUME NEW p \in Procs, SleepExit(p) PROVE TokenDiscipline'
    BY <1>14 DEF SleepExit
  <1>15. ASSUME NEW p \in Procs, WakeupL(p) PROVE TokenDiscipline'
    BY <1>15 DEF WakeupL
  <1>16. ASSUME NEW p \in Procs, WakeupPull(p) PROVE TokenDiscipline'
    BY <1>16 DEF WakeupPull, Pull
  <1>17. ASSUME NEW p \in Procs, SwiRlock(p) PROVE TokenDiscipline'
    BY <1>17 DEF SwiRlock
  <1>18. ASSUME NEW p \in Procs, NEW interp \in BOOLEAN, SwiMarkAsleep(p, interp) PROVE TokenDiscipline'
    BY <1>18 DEF SwiMarkAsleep
  <1>19. ASSUME NEW p \in Procs, NEW interp \in BOOLEAN, SwiMarkAwake(p, interp) PROVE TokenDiscipline'
    BY <1>19 DEF SwiMarkAwake
  <1>20. ASSUME NEW p \in Procs, SwiL(p) PROVE TokenDiscipline'
    BY <1>20 DEF SwiL
  <1>21. ASSUME NEW p \in Procs, SwiPull(p) PROVE TokenDiscipline'
    BY <1>21 DEF SwiPull, Pull
  <1>22. ASSUME NEW p \in Procs, SwiSysio(p) PROVE TokenDiscipline'
    BY <1>22 DEF SwiSysio
  <1>23. ASSUME NEW p \in Procs, SwiHost(p) PROVE TokenDiscipline'
    BY <1>23 DEF SwiHost
  <1>24. ASSUME NEW p \in Procs, SwiNothing(p) PROVE TokenDiscipline'
    BY <1>24 DEF SwiNothing
  <1>25. ASSUME NEW p \in Procs, SwiSignal(p) PROVE TokenDiscipline'
    BY <1>25 DEF SwiSignal
  <1>26. ASSUME NEW p \in Procs, HostCall(p) PROVE TokenDiscipline'
    BY <1>26 DEF HostCall
  <1>27. ASSUME NEW p \in Procs, HostReturn(p) PROVE TokenDiscipline'
    BY <1>27 DEF HostReturn
  <1>28. ASSUME NEW p \in Procs, TrapUSR1(p) PROVE TokenDiscipline'
    BY <1>28 DEF TrapUSR1
  <1>29. ASSUME NEW p \in Procs, OsLeaveCollect(p) PROVE TokenDiscipline'
    BY <1>29 DEF OsLeaveCollect
  <1>30. ASSUME NEW p \in Procs, OsLeaveSyscall(p) PROVE TokenDiscipline'
    BY <1>30 DEF OsLeaveSyscall
  <1>31. ASSUME NEW p \in Procs, OsLeaveWait(p) PROVE TokenDiscipline'
    BY <1>31 DEF OsLeaveWait
  <1>32. ASSUME NEW r \in Rends, Consume(r) PROVE TokenDiscipline'
    BY <1>32 DEF Consume
  <1>33. ASSUME UNCHANGED vars PROVE TokenDiscipline'
    BY <1>33 DEF vars
  <1>34. ASSUME NEW p \in Procs, OsLeaveClear(p) PROVE TokenDiscipline'
    BY <1>34 DEF OsLeaveClear
  <1>. HIDE DEF TokenDiscipline, Step, Return, Acquire, Free, procState, intrState
  <1>. QED
    BY <1>1, <1>2, <1>3, <1>4, <1>5, <1>6, <1>7, <1>8, <1>9, <1>10, <1>11, <1>12,
       <1>13, <1>14, <1>15, <1>16, <1>17, <1>18, <1>19, <1>20, <1>21, <1>22, <1>23, <1>24,
       <1>25, <1>26, <1>27, <1>28, <1>29, <1>30, <1>31, <1>32, <1>33, <1>34
    DEF Next, Call, Continue, SleepStep, WakeupStep, SwiStep, SwiMark, OsLeave

\* A process that is about to attach finds r->p nil: who is on a Rendez is
\* committed, and sleepers do not share a Rendez.
LEMMA AttachFindsNil == TypeOK /\ ArgInv /\ SleepInv /\ TokenDiscipline => NoDoubleSleep
  <1>. SUFFICES ASSUME TypeOK, ArgInv, SleepInv, TokenDiscipline,
                       NEW p \in Procs, pc[p] = "s_attach", rp[tgt[p]] # NoProc
                PROVE FALSE
    BY DEF NoDoubleSleep
  <1>1. tgt[p] \in Rends
    BY DEF ArgInv, SleepPC
  <1>2. PICK q \in Procs : rp[tgt[p]] = q
    BY <1>1 DEF TypeOK
  <1>3. Committed(q) /\ tgt[q] = tgt[p]
    BY <1>1, <1>2 DEF TokenDiscipline
  <1>. QED
    BY <1>3 DEF SleepInv, Committed, SleepPC

\* A step of a process that is not in Wakeup, and does not go to sleep, concerns
\* neither the events nor those who have still to look at r->p.
LEMMA WakersStay ==
  ASSUME WakeupInv, NEW p \in Procs, cond' = cond, pc[p] \notin WakeupPC,
         pc'[p] # "s_attach", ~Committed(p)',
         \A q \in Procs \ {p} : pc'[q] = pc[q] /\ tgt'[q] = tgt[q] /\ sem'[q] = sem[q]
  PROVE  WakeupInv'
  <1>. SUFFICES ASSUME NEW q \in Procs,
                       pc'[q] = "s_attach" \/ (Committed(q)' /\ sem'[q] = 0),
                       cond'[tgt'[q]]
                PROVE \E w \in Procs : WakerOf(tgt[q], w)' /\ tgt'[q] = tgt[q]
    BY DEF WakeupInv, WakerOf
  <1>1. q # p
    OBVIOUS
  <1>2. PICK w \in Procs : WakerOf(tgt[q], w)
    BY <1>1 DEF WakeupInv, Committed
  <1>. QED
    BY <1>1, <1>2 DEF WakerOf

\* A true event is known to a Wakeup that has still to look at r->p.
LEMMA WakeupInvStep == TypeOK /\ LockInv /\ ArgInv /\ SleepInv /\ TokenDiscipline /\ WakeupInv /\ [Next]_vars => WakeupInv'
  <1>. SUFFICES ASSUME TypeOK, LockInv, ArgInv, SleepInv, TokenDiscipline, WakeupInv PROVE [Next]_vars => WakeupInv'
    OBVIOUS
  <1>. USE RendezAssumption DEF TypeOK, Committed, Step, Return, Acquire, Free, procState, intrState, PC, SleepPC, WakeupPC, SwiPC, HostPC
  <1>1. ASSUME NEW p \in Procs, NEW r \in Rends, SleepCall(p, r) PROVE WakeupInv'
    BY <1>1, WakersStay DEF SleepCall
  <1>2. ASSUME NEW p \in Procs, NEW r \in Rends, WakeupCall(p, r) PROVE WakeupInv'
    BY <1>2 DEF WakeupCall, LockInv, ArgInv, SleepInv, HoldsL, TokenDiscipline, WakeupInv, WakerOf
  <1>3. ASSUME NEW p \in Procs, NEW q \in Procs, SwiCall(p, q) PROVE WakeupInv'
    BY <1>3, WakersStay DEF SwiCall
  <1>4. ASSUME NEW p \in Procs, NotKilled(p) PROVE WakeupInv'
    BY <1>4, WakersStay DEF NotKilled
  <1>5. ASSUME NEW p \in Procs, OsEnter(p) PROVE WakeupInv'
    BY <1>5, WakersStay DEF OsEnter
  <1>6. ASSUME NEW p \in Procs, SleepRlock(p) PROVE WakeupInv'
    BY <1>6, WakersStay DEF SleepRlock
  <1>7. ASSUME NEW p \in Procs, SleepL(p) PROVE WakeupInv'
    BY <1>7, WakersStay DEF SleepL
  <1>8. ASSUME NEW p \in Procs, SleepNeverMind(p) PROVE WakeupInv'
    BY <1>8, WakersStay DEF SleepNeverMind
  <1>9. ASSUME NEW p \in Procs, SleepTest(p) PROVE WakeupInv'
    BY <1>9 DEF SleepTest, LockInv, ArgInv, SleepInv, HoldsL, TokenDiscipline, WakeupInv, WakerOf
  <1>10. ASSUME NEW p \in Procs, SleepAttach(p) PROVE WakeupInv'
    BY <1>10 DEF SleepAttach, WakeupInv, WakerOf
  <1>11. ASSUME NEW p \in Procs, SleepCommit(p) PROVE WakeupInv'
    BY <1>11 DEF SleepCommit, LockInv, ArgInv, SleepInv, HoldsL, TokenDiscipline, WakeupInv, WakerOf
  <1>12. ASSUME NEW p \in Procs, SleepBlock(p) PROVE WakeupInv'
    BY <1>12, WakersStay DEF SleepBlock
  <1>13. ASSUME NEW p \in Procs, SleepRelock(p) PROVE WakeupInv'
    BY <1>13, WakersStay DEF SleepRelock
  <1>14. ASSUME NEW p \in Procs, SleepExit(p) PROVE WakeupInv'
    BY <1>14, WakersStay DEF SleepExit
  <1>15. ASSUME NEW p \in Procs, WakeupL(p) PROVE WakeupInv'
    BY <1>15 DEF WakeupL, LockInv, ArgInv, SleepInv, HoldsL, TokenDiscipline, WakeupInv, WakerOf
  <1>16. ASSUME NEW p \in Procs, WakeupPull(p) PROVE WakeupInv'
    BY <1>16 DEF WakeupPull, Pull, LockInv, ArgInv, SleepInv, HoldsL, TokenDiscipline, WakeupInv, WakerOf
  <1>17. ASSUME NEW p \in Procs, SwiRlock(p) PROVE WakeupInv'
    BY <1>17, WakersStay DEF SwiRlock
  <1>18. ASSUME NEW p \in Procs, NEW interp \in BOOLEAN, SwiMarkAsleep(p, interp) PROVE WakeupInv'
    BY <1>18, WakersStay DEF SwiMarkAsleep
  <1>19. ASSUME NEW p \in Procs, NEW interp \in BOOLEAN, SwiMarkAwake(p, interp) PROVE WakeupInv'
    BY <1>19, WakersStay DEF SwiMarkAwake
  <1>20. ASSUME NEW p \in Procs, SwiL(p) PROVE WakeupInv'
    BY <1>20, WakersStay DEF SwiL
  <1>21. ASSUME NEW p \in Procs, SwiPull(p) PROVE WakeupInv'
    BY <1>21 DEF SwiPull, Pull, LockInv, ArgInv, SleepInv, HoldsL, TokenDiscipline, WakeupInv, WakerOf
  <1>22. ASSUME NEW p \in Procs, SwiSysio(p) PROVE WakeupInv'
    BY <1>22, WakersStay DEF SwiSysio
  <1>23. ASSUME NEW p \in Procs, SwiHost(p) PROVE WakeupInv'
    BY <1>23, WakersStay DEF SwiHost
  <1>24. ASSUME NEW p \in Procs, SwiNothing(p) PROVE WakeupInv'
    BY <1>24, WakersStay DEF SwiNothing
  <1>25. ASSUME NEW p \in Procs, SwiSignal(p) PROVE WakeupInv'
    BY <1>25, WakersStay DEF SwiSignal
  <1>26. ASSUME NEW p \in Procs, HostCall(p) PROVE WakeupInv'
    BY <1>26, WakersStay DEF HostCall
  <1>27. ASSUME NEW p \in Procs, HostReturn(p) PROVE WakeupInv'
    BY <1>27, WakersStay DEF HostReturn
  <1>28. ASSUME NEW p \in Procs, TrapUSR1(p) PROVE WakeupInv'
    BY <1>28 DEF TrapUSR1, WakeupInv, WakerOf
  <1>29. ASSUME NEW p \in Procs, OsLeaveCollect(p) PROVE WakeupInv'
    BY <1>29, WakersStay DEF OsLeaveCollect
  <1>30. ASSUME NEW p \in Procs, OsLeaveSyscall(p) PROVE WakeupInv'
    BY <1>30, WakersStay DEF OsLeaveSyscall
  <1>31. ASSUME NEW p \in Procs, OsLeaveWait(p) PROVE WakeupInv'
    BY <1>31, WakersStay DEF OsLeaveWait
  <1>32. ASSUME NEW r \in Rends, Consume(r) PROVE WakeupInv'
    BY <1>32 DEF Consume, LockInv, ArgInv, SleepInv, HoldsL, TokenDiscipline, WakeupInv, WakerOf
  <1>33. ASSUME UNCHANGED vars PROVE WakeupInv'
    BY <1>33 DEF vars, WakeupInv, WakerOf
  <1>34. ASSUME NEW p \in Procs, OsLeaveClear(p) PROVE WakeupInv'
    BY <1>34, WakersStay DEF OsLeaveClear
  <1>. HIDE DEF WakeupInv, Step, Return, Acquire, Free, procState, intrState
  <1>. QED
    BY <1>1, <1>2, <1>3, <1>4, <1>5, <1>6, <1>7, <1>8, <1>9, <1>10, <1>11, <1>12,
       <1>13, <1>14, <1>15, <1>16, <1>17, <1>18, <1>19, <1>20, <1>21, <1>22, <1>23, <1>24,
       <1>25, <1>26, <1>27, <1>28, <1>29, <1>30, <1>31, <1>32, <1>33, <1>34
    DEF Next, Call, Continue, SleepStep, WakeupStep, SwiStep, SwiMark, OsLeave

\* Whoever marks a sleeping process killed keeps its rlock until the process is readied.
LEMMA KillInvStep == TypeOK /\ LockInv /\ ArgInv /\ SleepInv /\ TokenDiscipline /\ KillInv /\ [Next]_vars => KillInv'
  <1>. SUFFICES ASSUME TypeOK, LockInv, ArgInv, SleepInv, TokenDiscipline, KillInv PROVE [Next]_vars => KillInv'
    OBVIOUS
  <1>. USE RendezAssumption DEF TypeOK, LockInv, ArgInv, SleepInv, HoldsRlock, TokenDiscipline, KillInv, InterrupterOf, Asleep, Committed, Step, Return, Acquire, Free, procState, intrState, PC, SleepPC, WakeupPC, SwiPC, HostPC
  <1>1. ASSUME NEW p \in Procs, NEW r \in Rends, SleepCall(p, r) PROVE KillInv'
    BY <1>1 DEF SleepCall
  <1>2. ASSUME NEW p \in Procs, NEW r \in Rends, WakeupCall(p, r) PROVE KillInv'
    BY <1>2 DEF WakeupCall
  <1>3. ASSUME NEW p \in Procs, NEW q \in Procs, SwiCall(p, q) PROVE KillInv'
    BY <1>3 DEF SwiCall
  <1>4. ASSUME NEW p \in Procs, NotKilled(p) PROVE KillInv'
    BY <1>4 DEF NotKilled
  <1>5. ASSUME NEW p \in Procs, OsEnter(p) PROVE KillInv'
    BY <1>5 DEF OsEnter
  <1>6. ASSUME NEW p \in Procs, SleepRlock(p) PROVE KillInv'
    BY <1>6 DEF SleepRlock
  <1>7. ASSUME NEW p \in Procs, SleepL(p) PROVE KillInv'
    BY <1>7 DEF SleepL
  <1>8. ASSUME NEW p \in Procs, SleepNeverMind(p) PROVE KillInv'
    BY <1>8 DEF SleepNeverMind
  <1>9. ASSUME NEW p \in Procs, SleepTest(p) PROVE KillInv'
    BY <1>9 DEF SleepTest
  <1>10. ASSUME NEW p \in Procs, SleepAttach(p) PROVE KillInv'
    BY <1>10 DEF SleepAttach
  <1>11. ASSUME NEW p \in Procs, SleepCommit(p) PROVE KillInv'
    BY <1>11 DEF SleepCommit
  <1>12. ASSUME NEW p \in Procs, SleepBlock(p) PROVE KillInv'
    BY <1>12 DEF SleepBlock
  <1>13. ASSUME NEW p \in Procs, SleepRelock(p) PROVE KillInv'
    BY <1>13 DEF SleepRelock
  <1>14. ASSUME NEW p \in Procs, SleepExit(p) PROVE KillInv'
    BY <1>14 DEF SleepExit
  <1>15. ASSUME NEW p \in Procs, WakeupL(p) PROVE KillInv'
    BY <1>15 DEF WakeupL
  <1>16. ASSUME NEW p \in Procs, WakeupPull(p) PROVE KillInv'
    BY <1>16 DEF WakeupPull, Pull
  <1>17. ASSUME NEW p \in Procs, SwiRlock(p) PROVE KillInv'
    BY <1>17 DEF SwiRlock
  <1>18. ASSUME NEW p \in Procs, NEW interp \in BOOLEAN, SwiMarkAsleep(p, interp) PROVE KillInv'
    BY <1>18 DEF SwiMarkAsleep
  <1>19. ASSUME NEW p \in Procs, NEW interp \in BOOLEAN, SwiMarkAwake(p, interp) PROVE KillInv'
    BY <1>19 DEF SwiMarkAwake
  <1>20. ASSUME NEW p \in Procs, SwiL(p) PROVE KillInv'
    BY <1>20 DEF SwiL
  <1>21. ASSUME NEW p \in Procs, SwiPull(p) PROVE KillInv'
    BY <1>21 DEF SwiPull, Pull
  <1>22. ASSUME NEW p \in Procs, SwiSysio(p) PROVE KillInv'
    BY <1>22 DEF SwiSysio
  <1>23. ASSUME NEW p \in Procs, SwiHost(p) PROVE KillInv'
    BY <1>23 DEF SwiHost
  <1>24. ASSUME NEW p \in Procs, SwiNothing(p) PROVE KillInv'
    BY <1>24 DEF SwiNothing
  <1>25. ASSUME NEW p \in Procs, SwiSignal(p) PROVE KillInv'
    BY <1>25 DEF SwiSignal
  <1>26. ASSUME NEW p \in Procs, HostCall(p) PROVE KillInv'
    BY <1>26 DEF HostCall
  <1>27. ASSUME NEW p \in Procs, HostReturn(p) PROVE KillInv'
    BY <1>27 DEF HostReturn
  <1>28. ASSUME NEW p \in Procs, TrapUSR1(p) PROVE KillInv'
    BY <1>28 DEF TrapUSR1
  <1>29. ASSUME NEW p \in Procs, OsLeaveCollect(p) PROVE KillInv'
    BY <1>29 DEF OsLeaveCollect
  <1>30. ASSUME NEW p \in Procs, OsLeaveSyscall(p) PROVE KillInv'
    BY <1>30 DEF OsLeaveSyscall
  <1>31. ASSUME NEW p \in Procs, OsLeaveWait(p) PROVE KillInv'
    BY <1>31 DEF OsLeaveWait
  <1>32. ASSUME NEW r \in Rends, Consume(r) PROVE KillInv'
    BY <1>32 DEF Consume
  <1>33. ASSUME UNCHANGED vars PROVE KillInv'
    BY <1>33 DEF vars
  <1>34. ASSUME NEW p \in Procs, OsLeaveClear(p) PROVE KillInv'
    BY <1>34 DEF OsLeaveClear
  <1>. HIDE DEF KillInv, Step, Return, Acquire, Free, procState, intrState
  <1>. QED
    BY <1>1, <1>2, <1>3, <1>4, <1>5, <1>6, <1>7, <1>8, <1>9, <1>10, <1>11, <1>12,
       <1>13, <1>14, <1>15, <1>16, <1>17, <1>18, <1>19, <1>20, <1>21, <1>22, <1>23, <1>24,
       <1>25, <1>26, <1>27, <1>28, <1>29, <1>30, <1>31, <1>32, <1>33, <1>34
    DEF Next, Call, Continue, SleepStep, WakeupStep, SwiStep, SwiMark, OsLeave

\* swipend of a sleeping process is set by the swiproc that pulls it, and by nothing else.
LEMMA CauseInvStep == TypeOK /\ LockInv /\ ArgInv /\ SleepInv /\ TokenDiscipline /\ SignalInv /\ CauseInv /\ [Next]_vars => CauseInv'
  <1>. SUFFICES ASSUME TypeOK, LockInv, ArgInv, SleepInv, TokenDiscipline, SignalInv, CauseInv PROVE [Next]_vars => CauseInv'
    OBVIOUS
  <1>. USE RendezAssumption DEF TypeOK, LockInv, ArgInv, SleepInv, TokenDiscipline, CauseInv, Committed, Step, Return, Acquire, Free, procState, intrState, PC, SleepPC, WakeupPC, SwiPC, HostPC
  <1>1. ASSUME NEW p \in Procs, NEW r \in Rends, SleepCall(p, r) PROVE CauseInv'
    BY <1>1 DEF SleepCall
  <1>2. ASSUME NEW p \in Procs, NEW r \in Rends, WakeupCall(p, r) PROVE CauseInv'
    BY <1>2 DEF WakeupCall
  <1>3. ASSUME NEW p \in Procs, NEW q \in Procs, SwiCall(p, q) PROVE CauseInv'
    BY <1>3 DEF SwiCall
  <1>4. ASSUME NEW p \in Procs, NotKilled(p) PROVE CauseInv'
    BY <1>4 DEF NotKilled
  <1>5. ASSUME NEW p \in Procs, OsEnter(p) PROVE CauseInv'
    BY <1>5 DEF OsEnter
  <1>6. ASSUME NEW p \in Procs, SleepRlock(p) PROVE CauseInv'
    BY <1>6 DEF SleepRlock
  <1>7. ASSUME NEW p \in Procs, SleepL(p) PROVE CauseInv'
    BY <1>7 DEF SleepL
  <1>8. ASSUME NEW p \in Procs, SleepNeverMind(p) PROVE CauseInv'
    BY <1>8 DEF SleepNeverMind
  <1>9. ASSUME NEW p \in Procs, SleepTest(p) PROVE CauseInv'
    BY <1>9 DEF SleepTest
  <1>10. ASSUME NEW p \in Procs, SleepAttach(p) PROVE CauseInv'
    BY <1>10 DEF SleepAttach
  <1>11. ASSUME NEW p \in Procs, SleepCommit(p) PROVE CauseInv'
    BY <1>11 DEF SleepCommit
  <1>12. ASSUME NEW p \in Procs, SleepBlock(p) PROVE CauseInv'
    BY <1>12 DEF SleepBlock
  <1>13. ASSUME NEW p \in Procs, SleepRelock(p) PROVE CauseInv'
    BY <1>13 DEF SleepRelock
  <1>14. ASSUME NEW p \in Procs, SleepExit(p) PROVE CauseInv'
    BY <1>14 DEF SleepExit
  <1>15. ASSUME NEW p \in Procs, WakeupL(p) PROVE CauseInv'
    BY <1>15 DEF WakeupL
  <1>16. ASSUME NEW p \in Procs, WakeupPull(p) PROVE CauseInv'
    BY <1>16 DEF WakeupPull, Pull
  <1>17. ASSUME NEW p \in Procs, SwiRlock(p) PROVE CauseInv'
    BY <1>17 DEF SwiRlock
  <1>18. ASSUME NEW p \in Procs, NEW interp \in BOOLEAN, SwiMarkAsleep(p, interp) PROVE CauseInv'
    BY <1>18 DEF SwiMarkAsleep
  <1>19. ASSUME NEW p \in Procs, NEW interp \in BOOLEAN, SwiMarkAwake(p, interp) PROVE CauseInv'
    BY <1>19 DEF SwiMarkAwake
  <1>20. ASSUME NEW p \in Procs, SwiL(p) PROVE CauseInv'
    BY <1>20 DEF SwiL
  <1>21. ASSUME NEW p \in Procs, SwiPull(p) PROVE CauseInv'
    BY <1>21 DEF SwiPull, Pull
  <1>22. ASSUME NEW p \in Procs, SwiSysio(p) PROVE CauseInv'
    BY <1>22 DEF SwiSysio
  <1>23. ASSUME NEW p \in Procs, SwiHost(p) PROVE CauseInv'
    <2>1. pc[vic[p]] \in {"h_enter", "h_call", "h_swipend", "h_clear", "h_sysio"}
      BY <1>23 DEF SwiHost, SignalInv
    <2>2. UNCHANGED <<woken, sem>> /\ pc[p] = "i_check" /\ pc'[p] = "i_signal"
      BY <1>23 DEF SwiHost
    <2>3. \A q \in Procs : q # p => pc'[q] = pc[q]
      BY <1>23 DEF SwiHost
    <2>4. \A q \in Procs : q # vic[p] => (swipend'[q] <=> swipend[q])
      BY <1>23 DEF SwiHost
    <2>5. vic[p] # p
      BY <2>2
    <2>. QED
      BY <2>1, <2>2, <2>3, <2>4, <2>5
  <1>24. ASSUME NEW p \in Procs, SwiNothing(p) PROVE CauseInv'
    BY <1>24 DEF SwiNothing
  <1>25. ASSUME NEW p \in Procs, SwiSignal(p) PROVE CauseInv'
    BY <1>25 DEF SwiSignal
  <1>26. ASSUME NEW p \in Procs, HostCall(p) PROVE CauseInv'
    BY <1>26 DEF HostCall
  <1>27. ASSUME NEW p \in Procs, HostReturn(p) PROVE CauseInv'
    BY <1>27 DEF HostReturn
  <1>28. ASSUME NEW p \in Procs, TrapUSR1(p) PROVE CauseInv'
    BY <1>28 DEF TrapUSR1
  <1>29. ASSUME NEW p \in Procs, OsLeaveCollect(p) PROVE CauseInv'
    BY <1>29 DEF OsLeaveCollect
  <1>30. ASSUME NEW p \in Procs, OsLeaveSyscall(p) PROVE CauseInv'
    BY <1>30 DEF OsLeaveSyscall
  <1>31. ASSUME NEW p \in Procs, OsLeaveWait(p) PROVE CauseInv'
    BY <1>31 DEF OsLeaveWait
  <1>32. ASSUME NEW r \in Rends, Consume(r) PROVE CauseInv'
    BY <1>32 DEF Consume
  <1>33. ASSUME UNCHANGED vars PROVE CauseInv'
    BY <1>33 DEF vars
  <1>34. ASSUME NEW p \in Procs, OsLeaveClear(p) PROVE CauseInv'
    BY <1>34 DEF OsLeaveClear
  <1>. HIDE DEF CauseInv, Step, Return, Acquire, Free, procState, intrState
  <1>. QED
    BY <1>1, <1>2, <1>3, <1>4, <1>5, <1>6, <1>7, <1>8, <1>9, <1>10, <1>11, <1>12,
       <1>13, <1>14, <1>15, <1>16, <1>17, <1>18, <1>19, <1>20, <1>21, <1>22, <1>23, <1>24,
       <1>25, <1>26, <1>27, <1>28, <1>29, <1>30, <1>31, <1>32, <1>33, <1>34
    DEF Next, Call, Continue, SleepStep, WakeupStep, SwiStep, SwiMark, OsLeave

\* intwait brackets one SIGUSR1 from the check under sysio to the end of its handler.
LEMMA SignalInvStep == TypeOK /\ LockInv /\ ArgInv /\ SignalInv /\ [Next]_vars => SignalInv'
  <1>. SUFFICES ASSUME TypeOK, LockInv, ArgInv, SignalInv PROVE [Next]_vars => SignalInv'
    OBVIOUS
  <1>. USE RendezAssumption DEF TypeOK, LockInv, ArgInv, SignalInv, SignalWindow, Step, Return, Acquire, Free, procState, intrState, PC, SleepPC, WakeupPC, SwiPC, HostPC
  <1>1. ASSUME NEW p \in Procs, NEW r \in Rends, SleepCall(p, r) PROVE SignalInv'
    BY <1>1 DEF SleepCall
  <1>2. ASSUME NEW p \in Procs, NEW r \in Rends, WakeupCall(p, r) PROVE SignalInv'
    BY <1>2 DEF WakeupCall
  <1>3. ASSUME NEW p \in Procs, NEW q \in Procs, SwiCall(p, q) PROVE SignalInv'
    BY <1>3 DEF SwiCall
  <1>4. ASSUME NEW p \in Procs, NotKilled(p) PROVE SignalInv'
    BY <1>4 DEF NotKilled
  <1>5. ASSUME NEW p \in Procs, OsEnter(p) PROVE SignalInv'
    BY <1>5 DEF OsEnter
  <1>6. ASSUME NEW p \in Procs, SleepRlock(p) PROVE SignalInv'
    BY <1>6 DEF SleepRlock
  <1>7. ASSUME NEW p \in Procs, SleepL(p) PROVE SignalInv'
    BY <1>7 DEF SleepL
  <1>8. ASSUME NEW p \in Procs, SleepNeverMind(p) PROVE SignalInv'
    BY <1>8 DEF SleepNeverMind
  <1>9. ASSUME NEW p \in Procs, SleepTest(p) PROVE SignalInv'
    BY <1>9 DEF SleepTest
  <1>10. ASSUME NEW p \in Procs, SleepAttach(p) PROVE SignalInv'
    BY <1>10 DEF SleepAttach
  <1>11. ASSUME NEW p \in Procs, SleepCommit(p) PROVE SignalInv'
    BY <1>11 DEF SleepCommit
  <1>12. ASSUME NEW p \in Procs, SleepBlock(p) PROVE SignalInv'
    BY <1>12 DEF SleepBlock
  <1>13. ASSUME NEW p \in Procs, SleepRelock(p) PROVE SignalInv'
    BY <1>13 DEF SleepRelock
  <1>14. ASSUME NEW p \in Procs, SleepExit(p) PROVE SignalInv'
    BY <1>14 DEF SleepExit
  <1>15. ASSUME NEW p \in Procs, WakeupL(p) PROVE SignalInv'
    BY <1>15 DEF WakeupL
  <1>16. ASSUME NEW p \in Procs, WakeupPull(p) PROVE SignalInv'
    BY <1>16 DEF WakeupPull, Pull
  <1>17. ASSUME NEW p \in Procs, SwiRlock(p) PROVE SignalInv'
    BY <1>17 DEF SwiRlock
  <1>18. ASSUME NEW p \in Procs, NEW interp \in BOOLEAN, SwiMarkAsleep(p, interp) PROVE SignalInv'
    BY <1>18 DEF SwiMarkAsleep
  <1>19. ASSUME NEW p \in Procs, NEW interp \in BOOLEAN, SwiMarkAwake(p, interp) PROVE SignalInv'
    BY <1>19 DEF SwiMarkAwake
  <1>20. ASSUME NEW p \in Procs, SwiL(p) PROVE SignalInv'
    BY <1>20 DEF SwiL
  <1>21. ASSUME NEW p \in Procs, SwiPull(p) PROVE SignalInv'
    BY <1>21 DEF SwiPull, Pull
  <1>22. ASSUME NEW p \in Procs, SwiSysio(p) PROVE SignalInv'
    BY <1>22 DEF SwiSysio
  <1>23. ASSUME NEW p \in Procs, SwiHost(p) PROVE SignalInv'
    BY <1>23 DEF SwiHost
  <1>24. ASSUME NEW p \in Procs, SwiNothing(p) PROVE SignalInv'
    BY <1>24 DEF SwiNothing
  <1>25. ASSUME NEW p \in Procs, SwiSignal(p) PROVE SignalInv'
    BY <1>25 DEF SwiSignal
  <1>26. ASSUME NEW p \in Procs, HostCall(p) PROVE SignalInv'
    BY <1>26 DEF HostCall
  <1>27. ASSUME NEW p \in Procs, HostReturn(p) PROVE SignalInv'
    BY <1>27 DEF HostReturn
  <1>28. ASSUME NEW p \in Procs, TrapUSR1(p) PROVE SignalInv'
    BY <1>28 DEF TrapUSR1
  <1>29. ASSUME NEW p \in Procs, OsLeaveCollect(p) PROVE SignalInv'
    BY <1>29 DEF OsLeaveCollect
  <1>30. ASSUME NEW p \in Procs, OsLeaveSyscall(p) PROVE SignalInv'
    BY <1>30 DEF OsLeaveSyscall
  <1>31. ASSUME NEW p \in Procs, OsLeaveWait(p) PROVE SignalInv'
    BY <1>31 DEF OsLeaveWait
  <1>32. ASSUME NEW r \in Rends, Consume(r) PROVE SignalInv'
    BY <1>32 DEF Consume
  <1>33. ASSUME UNCHANGED vars PROVE SignalInv'
    BY <1>33 DEF vars
  <1>34. ASSUME NEW p \in Procs, OsLeaveClear(p) PROVE SignalInv'
    BY <1>34 DEF OsLeaveClear
  <1>. HIDE DEF SignalInv, Step, Return, Acquire, Free, procState, intrState
  <1>. QED
    BY <1>1, <1>2, <1>3, <1>4, <1>5, <1>6, <1>7, <1>8, <1>9, <1>10, <1>11, <1>12,
       <1>13, <1>14, <1>15, <1>16, <1>17, <1>18, <1>19, <1>20, <1>21, <1>22, <1>23, <1>24,
       <1>25, <1>26, <1>27, <1>28, <1>29, <1>30, <1>31, <1>32, <1>33, <1>34
    DEF Next, Call, Continue, SleepStep, WakeupStep, SwiStep, SwiMark, OsLeave

-----------------------------------------------------------------------------
\* The initial states satisfy the inductive invariant.
LEMMA InitIInv == Init => IInv
  BY RendezAssumption
  DEF Init, IInv, TypeOK, LockInv, ArgInv, SleepInv, TokenDiscipline,
      WakeupInv, KillInv, CauseInv, SignalInv, SignalWindow, HoldsRlock, HoldsL,
      Committed, Asleep, PC, SleepPC, WakeupPC, SwiPC, HostPC

\* The strengthened invariant holds in every reachable state, for any number of
\* processes and Rendez structures.
THEOREM Inductive == Spec => []IInv
  <1>1. Init => IInv
    BY InitIInv
  <1>2. IInv /\ [Next]_vars => IInv'
    BY TypeOKStep, LockStep, ArgStep, SleepInvStep, TokenStep,
       WakeupInvStep, KillInvStep, CauseInvStep, SignalInvStep
    DEF IInv
  <1>. QED
    BY <1>1, <1>2, PTL DEF Spec

\* Type correctness of the Sleep, Wakeup and swiproc state.
THEOREM TypeCorrect == Spec => []TypeOK
  <1>1. IInv => TypeOK
    BY DEF IInv
  <1>. QED
    BY <1>1, Inductive, PTL

\* A semaphore carries one token exactly while its process is committed to osblock
\* in Sleep and has been taken off its Rendez, so no token can leak into a qlock.
THEOREM NoStrayToken == Spec => []TokenDiscipline
  <1>1. IInv => TokenDiscipline
    BY DEF IInv
  <1>. QED
    BY <1>1, Inductive, PTL

\* With sleepers of a Rendez serialised, the double sleep panic is unreachable.
THEOREM DoubleSleepNever == Spec => []NoDoubleSleep
  <1>1. IInv => NoDoubleSleep
    BY AttachFindsNil DEF IInv
  <1>. QED
    BY <1>1, Inductive, PTL

\* No process sleeps through its event: Sleep tests it under r->l and Wakeup looks
\* at r->p under r->l after it.
THEOREM WakeupNotLost == Spec => []NoLostWakeup
  <1>1. IInv => NoLostWakeup
    BY DEF IInv, WakeupInv, NoLostWakeup
  <1>. QED
    BY <1>1, Inductive, PTL

\* No process stays asleep after swiproc(p, 0) has finished with it.
THEOREM KillNotLost == Spec => []NoLostKill
  <1>1. IInv => NoLostKill
    BY DEF IInv, KillInv, NoLostKill
  <1>. QED
    BY <1>1, Inductive, PTL

\* Sleep raises Eintr for the interrupt that ended it, and not for a stale one.
THEOREM CauseCorrect == Spec => []CauseReported
  <1>1. IInv => CauseReported
    BY DEF IInv, CauseInv, CauseReported
  <1>. QED
    BY <1>1, Inductive, PTL

\* SIGUSR1 reaches a process only between osenter and the end of osleave.
THEOREM SignalContained == Spec => []SignalWindow
  <1>1. IInv => SignalWindow
    BY DEF IInv, SignalInv
  <1>. QED
    BY <1>1, Inductive, PTL

=============================================================================
