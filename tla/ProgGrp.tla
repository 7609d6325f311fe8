------------------------------ MODULE ProgGrp ------------------------------
(***************************************************************************)
(* Groups of progs, exceptions that propagate in them, and kill: killprog, *)
(* exprog, propex, killgrp, delprog, newprog and newgrp (emu/port/dis.c),  *)
(* with the paths of vmachine and progexit that call them.                 *)
(*                                                                         *)
(* All of it runs with the virtual machine acquired, by the kernel process *)
(* of the prog that is cur.  Deleting a prog closes its files, for which   *)
(* the machine is released; others run, kill and die meanwhile, so stack   *)
(* says which of these functions the process of each prog is in, the       *)
(* innermost first.  A prog in host code has a frame "host".               *)
(*                                                                         *)
(* Module Sched has the order of the run queue and the machine's hand over *)
(* and DisChan the channels; here a prog is queued, to run or on channels, *)
(* or not.  The trees of groups, debuggers, and progs waiting in cblock    *)
(* are left out.  A use of freed memory ends the behaviour.                *)
(***************************************************************************)
EXTENDS Naturals, SequencesExt

CONSTANTS
  Progs,      \* pids; none is used twice
  First,      \* the progs at first, a group: the first one is its leader
  Modes,      \* how it may have set its exceptions before it spawned them
  Nobody,
  MaxCtl      \* bound: writes to ctl files

ASSUME ProgGrpAssumption ==
  /\ First \in Seq(Progs) /\ First # <<>> /\ IsInjective(First)
  /\ Modes \subseteq SUBSET {"propagate", "notifyleader"}
  /\ Nobody \notin Progs

VARIABLES
  cur,        \* currun, whose process has acquired the machine
  state,      \* Prog.state; "none" before newprog, "freed" after delprog
  queued,     \* progs on the run queue or the queues of channels
  kill,       \* Prog.kill: "nil", "killed" for "", "exception" for others
  pkilled,    \* Pkilled of Prog.flags
  mode,       \* Ppropagate and Pnotifyleader of Prog.flags
  group,      \* Prog.group, by Progs.id
  members,    \* Progs.head and what hangs from it; <<>> when it is freed
  gkilled,    \* Pkilled of Progs.flags
  stack,      \* the functions the process of each prog is in
  freedUse,   \* what has been used after it was freed
  ctls,       \* ctl writes so far
  doomed,     \* history: progs that have been killed
  excused,    \* history: those that handled another error meanwhile
  exposed,    \* history: those that killprog left unmarked while propex killed
              \* others
  missed      \* history: progs that propex, when it walks along their group,
              \* does not come to, or does not kill

progvars == <<state, queued, kill, pkilled, mode>>
grpvars == <<group, members, gkilled>>
histvars == <<freedUse, ctls, doomed, excused, exposed, missed>>
vars == <<cur, progvars, grpvars, stack, histvars>>

Alive(p) == state[p] \notin {"none", "freed"}

Init ==
  LET there == Range(First) leader == Head(First) IN
  /\ cur = Nobody
  /\ state = [p \in Progs |-> IF p \in there THEN "ready" ELSE "none"]
  /\ queued = there
  /\ kill = [p \in Progs |-> "nil"]
  /\ pkilled = [p \in Progs |-> FALSE]
  /\ \E m \in Modes : mode = [p \in Progs |-> IF p \in there THEN m ELSE {}]
  /\ group = [p \in Progs |-> IF p \in there THEN leader ELSE Nobody]
  /\ members = [g \in Progs |-> IF g = leader THEN First ELSE <<>>]
  /\ gkilled = [g \in Progs |-> FALSE]
  /\ stack = [p \in Progs |-> <<>>]
  /\ freedUse = "none" /\ ctls = 0
  /\ doomed = {} /\ excused = {} /\ exposed = {} /\ missed = {}

-----------------------------------------------------------------------------
(* The machine                                                             *)

Push(p, f) == stack' = [stack EXCEPT ![p] = <<f>> \o @]
Pop(p) == stack' = [stack EXCEPT ![p] = Tail(@)]
Become(p, f) == stack' = [stack EXCEPT ![p] = <<f>> \o Tail(@)]
In(p, fn) == stack[p] # <<>> /\ Head(stack[p]).fn = fn
Doing(p, fn) == cur = p /\ In(p, fn)

Host(call) == [fn |-> "host", call |-> call]
Killprog(v) == [fn |-> "killprog", victim |-> v, at |-> "start"]
Propex(v, e) == [fn |-> "propex", of |-> v, err |-> e, at |-> "start", next |-> Nobody,
                 leader |-> Nobody, grp |-> Nobody]

\* The machine is left to others; and taken again, to go on with p or with any
\* prog.
Release(p) ==
  /\ cur' = Nobody
  /\ state' = [state EXCEPT ![p] = "release"]
  /\ queued' = queued \ {p}
Acquire(p, next) ==
  /\ cur = Nobody /\ cur' = next
  /\ state' = [state EXCEPT ![p] = "ready"]
  /\ queued' = queued \cup {p}

Scheduled(p) == cur = Nobody /\ state[p] = "ready" /\ p \in queued /\ stack[p] = <<>>

\* It executes Limbo; the rest of its quantum may be as short as the next
\* instruction.
Limbo(p) == Scheduled(p) /\ kill[p] = "nil"

\* error(p->kill).
Pending(p) == IF kill[p] = "killed" THEN "empty" ELSE kill[p]

\* vmachine, for error e of p with the machine acquired: handler finds a clause
\* for it and forgets what is pending, ...
Handled(p, e) ==
  /\ e = "exception"
  /\ cur' = Nobody
  /\ kill' = [kill EXCEPT ![p] = "nil"]
  /\ excused' = IF kill[p] = "killed" THEN excused \cup {p} ELSE excused
  /\ stack' = [stack EXCEPT ![p] = <<>>]

\* ... or it calls propex and progexit.
Unhandled(p, e) ==
  /\ cur' = p
  /\ stack' = [stack EXCEPT ![p] =
       <<Propex(p, e), [fn |-> "exit", err |-> e, at |-> "propex"]>>]
  /\ UNCHANGED excused

\* xec of a prog with a kill pending clears and raises it.
XecKill(p) ==
  /\ Scheduled(p) /\ kill[p] # "nil"
  /\ \/ Handled(p, Pending(p))
     \/ Unhandled(p, Pending(p)) /\ kill' = [kill EXCEPT ![p] = "nil"]
  /\ UNCHANGED <<state, queued, pkilled, mode, grpvars, freedUse, ctls, doomed,
                 exposed, missed>>

\* raise, an error of an instruction, or the return of its first function.
\* (One that it handles changes nothing.)
Raise(p) ==
  /\ Limbo(p)
  /\ \E e \in {"exception", "empty"} : Unhandled(p, e)
  /\ UNCHANGED <<progvars, grpvars, freedUse, ctls, doomed, exposed, missed>>

\* It waits for a channel.
Block(p) ==
  /\ Limbo(p)
  /\ state' = [state EXCEPT ![p] = "block"]
  /\ UNCHANGED <<cur, queued, kill, pkilled, mode, grpvars, stack, histvars>>

\* A prog on the other side of a channel is served.
Serve(p, q) ==
  /\ Limbo(p)
  /\ state[q] = "block" /\ q \in queued
  /\ state' = [state EXCEPT ![q] = "ready"]
  /\ UNCHANGED <<cur, queued, kill, pkilled, mode, grpvars, stack, histvars>>

\* A call of a system function that releases.  Which one, what follows says.
SysCall(p) ==
  /\ Limbo(p)
  /\ Release(p)
  /\ Push(p, Host("any"))
  /\ UNCHANGED <<kill, pkilled, mode, grpvars, histvars>>

\* The errors a call may end with: mcall raises a kill pending, which stays
\* pending; a sleep that was interrupted raises "", another call what it likes,
\* but a write to a ctl file only returns an error.
Errors(p) ==
  (IF kill[p] = "nil" THEN {} ELSE {Pending(p)}) \cup
  (IF Head(stack[p]).call = "write" THEN {}
   ELSE {"exception"} \cup (IF kill[p] = "nil" THEN {} ELSE {"empty"}))

SysReturn(p) ==
  /\ In(p, "host")
  /\ \/ /\ kill[p] = "nil"
        /\ Acquire(p, Nobody)
        /\ Pop(p)
        /\ UNCHANGED <<kill, excused>>
     \/ \E e \in Errors(p) :
          \/ Acquire(p, Nobody) /\ Handled(p, e)
          \/ Acquire(p, p) /\ Unhandled(p, e) /\ UNCHANGED kill
  /\ UNCHANGED <<pkilled, mode, grpvars, freedUse, ctls, doomed, exposed, missed>>

-----------------------------------------------------------------------------
(* Groups                                                                  *)

\* Some propex walks along the group of p, and q is the next it comes to; or it
\* has come to the end of the group, or left it behind one that has left it.
Walk(p, f) == f.fn = "propex" /\ f.at = "walk" /\ f.grp = group[p]
WalksTo(p, q) ==
  \E r \in Progs : \E i \in DOMAIN stack[r] : Walk(p, stack[r][i]) /\ stack[r][i].next = q
WalksPast(p) ==
  \E r \in Progs : \E i \in DOMAIN stack[r] :
    Walk(p, stack[r][i]) /\ stack[r][i].next \notin Range(members[group[p]])

\* delgrp.
Without(v) == IF group[v] = Nobody THEN members
              ELSE [members EXCEPT ![group[v]] = Remove(@, v)]

\* delgrp, and free: nothing else of v matters any more.
Free(v) ==
  /\ members' = Without(v)
  /\ group' = [group EXCEPT ![v] = Nobody]
  /\ kill' = [kill EXCEPT ![v] = "nil"]
  /\ pkilled' = [pkilled EXCEPT ![v] = FALSE]
  /\ mode' = [mode EXCEPT ![v] = {}]
  /\ doomed' = doomed \ {v}
  /\ excused' = excused \ {v}

\* newprog: a prog of a group that is being killed spawns no other, and dies of
\* it.
SpawnRefused(p) ==
  /\ Limbo(p) /\ (gkilled[group[p]] \/ pkilled[p])
  /\ pkilled' = [pkilled EXCEPT ![p] = TRUE]
  /\ Unhandled(p, "empty")
  /\ UNCHANGED <<state, queued, kill, mode, grpvars, freedUse, ctls, doomed, exposed,
                 missed>>

\* newprog and addgrp.
Spawn(p, c) ==
  /\ Limbo(p) /\ ~gkilled[group[p]] /\ ~pkilled[p]
  /\ state[c] = "none" /\ state' = [state EXCEPT ![c] = "ready"]
  /\ queued' = queued \cup {c}
  /\ mode' = [mode EXCEPT ![c] = mode[p]]
  /\ group' = [group EXCEPT ![c] = group[p]]
  /\ members' = [members EXCEPT ![group[p]] = Append(@, c)]
  /\ missed' = IF WalksPast(p) THEN missed \cup {c} ELSE missed
  /\ UNCHANGED <<cur, kill, pkilled, gkilled, stack, freedUse, ctls, doomed, excused,
                 exposed>>

\* Those behind p in its group.
After(p) ==
  LET ms == members[group[p]]
  IN Range(SubSeq(ms, SelectInSeq(ms, LAMBDA q : q = p) + 1, Len(ms)))

\* newgrp, for sys->pctl(Sys->NEWPGRP, nil).
Newgrp(p) ==
  /\ Limbo(p) /\ group[p] # p
  /\ mode' = [mode EXCEPT ![p] = {}]
  /\ group' = [group EXCEPT ![p] = p]
  /\ members' = [Without(p) EXCEPT ![p] = <<p>>]
  /\ missed' = IF WalksTo(p, p) THEN missed \cup After(p) ELSE missed
  /\ UNCHANGED <<cur, state, queued, kill, pkilled, gkilled, stack, freedUse,
                 ctls, doomed, excused, exposed>>

Grpleader(p) ==
  IF group[p] # Nobody /\ members[group[p]] # <<>> /\ Head(members[group[p]]) = group[p]
  THEN group[p] ELSE Nobody

\* Prog.grpnext.
Grpnext(f) ==
  LET ms == members[group[f]]
  IN IF group[f] = Nobody \/ Last(ms) = f THEN Nobody
     ELSE ms[SelectInSeq(ms, LAMBDA q : q = f) + 1]

-----------------------------------------------------------------------------
(* exprog, killprog, propex                                                *)

\* Mutated form: the last exception is the one that is raised.
ExkillAlways(k) == "exception"

\* A kill or an exception that is pending stays.
Exkill(k) == IF k = "nil" THEN "exception" ELSE k

\* exprog of the progs in fs.  (swiprog interrupts what they do in host code.)
Exprog(fs) ==
  LET hit == {f \in fs : state[f] \in {"block", "ready", "release"}}
  IN /\ state' = [f \in Progs |-> IF f \in hit /\ state[f] = "block" THEN "ready"
                                  ELSE state[f]]
     /\ queued' = queued \cup {f \in hit : state[f] = "block"}
     /\ kill' = [f \in Progs |-> IF f \in hit THEN Exkill(kill[f]) ELSE kill[f]]

Victim(p) == Head(stack[p]).victim
KillprogAt(p, at) == In(p, "killprog") /\ Head(stack[p]).at = at

\* Mutated form: a prog in host code is deleted like any other.
OnlyMarkedCurrent(p, v) == v = p

\* A prog with a process in host code, or with the machine, cannot be deleted.
OnlyMarked(p, v) == v = p \/ state[v] = "release"

\* killprog marks such a prog; its process will see to the rest.
KillprogMark(p) ==
  /\ cur = p /\ KillprogAt(p, "start")
  /\ LET v == Victim(p)
     IN /\ OnlyMarked(p, v)
        /\ kill' = [kill EXCEPT ![v] = "killed"]
        /\ pkilled' = [pkilled EXCEPT ![v] = TRUE]
        /\ state' = [state EXCEPT ![v] = "exiting"]
        /\ doomed' = doomed \cup {v}
        /\ excused' = excused \ {v}
  /\ Pop(p)
  /\ UNCHANGED <<cur, queued, mode, grpvars, freedUse, ctls, exposed, missed>>

\* It leaves alone one that is being deleted, or marked already.
KillprogAgain(p) ==
  /\ cur = p /\ KillprogAt(p, "start")
  /\ ~OnlyMarked(p, Victim(p)) /\ state[Victim(p)] = "exiting"
  /\ Pop(p)
  /\ UNCHANGED <<cur, progvars, grpvars, histvars>>

\* It takes any other off the run queue or the channels, and calls propex.
KillprogTake(p) ==
  /\ cur = p /\ KillprogAt(p, "start")
  /\ LET v == Victim(p)
     IN /\ ~OnlyMarked(p, v) /\ state[v] \notin {"exiting", "freed"}
        /\ queued' = queued \ {v}
        /\ doomed' = doomed \cup {v}
        /\ stack' = [stack EXCEPT ![p] =
             <<Propex(v, "exception"), [Head(@) EXCEPT !.at = "propex"]>> \o Tail(@)]
  /\ UNCHANGED <<cur, state, kill, pkilled, mode, grpvars, freedUse, ctls, excused,
                 exposed, missed>>

\* destroystack and delprog, until the files are closed.
KillprogRelease(p) ==
  /\ cur = p /\ KillprogAt(p, "propex") /\ state[Victim(p)] # "freed"
  /\ cur' = Nobody
  /\ state' = [state EXCEPT ![Victim(p)] = "exiting", ![p] = "release"]
  /\ queued' = queued \ {p}
  /\ Become(p, [Head(stack[p]) EXCEPT !.at = "delete"])
  /\ UNCHANGED <<kill, pkilled, mode, grpvars, histvars>>

\* The rest of delprog.  A prog whose process is in host code is not to be freed.
KillprogDelete(p) ==
  /\ cur = Nobody /\ KillprogAt(p, "delete") /\ state[Victim(p)] # "freed"
  /\ cur' = p
  /\ state' = [state EXCEPT ![Victim(p)] = "freed", ![p] = "ready"]
  /\ queued' = queued \cup {p}
  /\ Free(Victim(p))
  /\ Pop(p)
  /\ freedUse' = IF stack[Victim(p)] = <<>> THEN "none" ELSE "prog"
  /\ UNCHANGED <<gkilled, ctls, exposed, missed>>

Killprogs(p) ==
  \/ KillprogMark(p) \/ KillprogAgain(p) \/ KillprogTake(p) \/ KillprogRelease(p)
  \/ KillprogDelete(p)

\* An exception of v stays with it: no group, or none that asked for it.
Leader(v) == IF Grpleader(v) = Nobody THEN v ELSE Grpleader(v)
Local(v, e) ==
  \/ mode[v] = {} \/ group[v] = Nobody
  \/ e = "empty" /\ ~pkilled[v]
  \/ mode[Leader(v)] = {}

\* Mutated form: the walk starts behind the prog that has the exception.
WalkAfter(v) == Grpnext(v)

WalkFrom(v) == Head(members[group[v]])

\* propex: nothing, an exception in all of the group, or the start of the walk
\* along it that kills all but the leader.
PropexStart(p) ==
  /\ Doing(p, "propex") /\ Head(stack[p]).at = "start"
  /\ LET f == Head(stack[p])
         v == f.of
     IN \/ /\ Local(v, f.err) /\ Pop(p)
           /\ UNCHANGED <<state, queued, kill>>
        \/ /\ ~Local(v, f.err) /\ "propagate" \in mode[Leader(v)]
           /\ Exprog(Range(members[group[v]]) \ {v}) /\ Pop(p)
        \/ /\ ~Local(v, f.err) /\ "propagate" \notin mode[Leader(v)]
           /\ Become(p, [f EXCEPT !.at = "walk", !.leader = Leader(v),
                                  !.next = WalkFrom(v), !.grp = group[v]])
           /\ UNCHANGED <<state, queued, kill>>
  /\ UNCHANGED <<cur, pkilled, mode, grpvars, histvars>>

Walking(p) == Doing(p, "propex") /\ Head(stack[p]).at = "walk"

\* A step of the walk reads these.  The next one was read before the last was
\* killed.
Reads(f) ==
  {f.next} \cup IF f.next \in {f.of, f.leader} \/ (f.next = Nobody /\ f.of = f.leader)
               THEN {} ELSE {f.leader}

\* It kills the next one, or raises an exception in it if the leader has been
\* set to propagate meanwhile.
PropexWalk(p) ==
  /\ Walking(p)
  /\ LET f == Head(stack[p])
         q == f.next
         on == [f EXCEPT !.next = Grpnext(q)]
         others == {q} \ {f.of, f.leader}
         within == Len(stack[p]) > 1 /\ stack[p][2].fn = "killprog"
     IN /\ q # Nobody /\ \A r \in Reads(f) : state[r] # "freed"
        /\ \/ /\ others = {} \/ "propagate" \in mode[f.leader]
              /\ Exprog(others)
              /\ Become(p, on)
              /\ missed' = missed \cup others
              /\ UNCHANGED <<mode, exposed>>
           \/ /\ others # {} /\ "propagate" \notin mode[f.leader]
              /\ mode' = [mode EXCEPT ![q] = {}]
              /\ stack' = [stack EXCEPT ![p] = <<Killprog(q), on>> \o Tail(@)]
              /\ exposed' = IF within THEN exposed \cup {f.of} ELSE exposed
              /\ UNCHANGED <<state, queued, kill, missed>>
  /\ UNCHANGED <<cur, pkilled, grpvars, freedUse, ctls, doomed, excused>>

\* Its end: the exception is raised in the leader.
PropexEnd(p) ==
  /\ Walking(p) /\ Head(stack[p]).next = Nobody
  /\ \A r \in Reads(Head(stack[p])) \ {Nobody} : state[r] # "freed"
  /\ Exprog({Head(stack[p]).leader} \ {Head(stack[p]).of})
  /\ Pop(p)
  /\ UNCHANGED <<cur, pkilled, mode, grpvars, histvars>>

Propexes(p) == PropexStart(p) \/ PropexWalk(p) \/ PropexEnd(p)

-----------------------------------------------------------------------------
(* progexit                                                                *)

\* progexit leaves a broken prog there for its debugger.
Break(p) ==
  /\ Doing(p, "exit") /\ Head(stack[p]).err = "exception"
  /\ cur' = Nobody
  /\ state' = [state EXCEPT ![p] = "broken"]
  /\ queued' = queued \ {p}
  /\ Pop(p)
  /\ UNCHANGED <<kill, pkilled, mode, grpvars, histvars>>

\* Or deletes it: destroystack and delprog.
ExitRelease(p) ==
  /\ Doing(p, "exit")
  /\ Release(p)
  /\ Become(p, [Head(stack[p]) EXCEPT !.at = "delete"])
  /\ UNCHANGED <<kill, pkilled, mode, grpvars, histvars>>

ExitDelete(p) ==
  /\ cur = Nobody
  /\ In(p, "exit") /\ Head(stack[p]).at = "delete"
  /\ state' = [state EXCEPT ![p] = "freed"]
  /\ Free(p)
  /\ Pop(p)
  /\ UNCHANGED <<cur, queued, gkilled, freedUse, ctls, exposed, missed>>

-----------------------------------------------------------------------------
(* The process device                                                      *)

\* A write to the ctl file of prog t, if there is one, has the machine.
Ctl(p, t) ==
  /\ In(p, "host") /\ Head(stack[p]).call = "any"
  /\ ctls < MaxCtl /\ ctls' = ctls + 1
  /\ Alive(t)
  /\ Acquire(p, p)
Then(p, fs) ==
  stack' = [stack EXCEPT ![p] = fs \o <<[fn |-> "ctl"], Host("write")>>]

CtlKill(p, t) ==
  /\ Ctl(p, t)
  /\ Then(p, <<Killprog(t)>>)
  /\ UNCHANGED <<kill, pkilled, mode, grpvars, freedUse, doomed, excused, exposed, missed>>

CtlExceptions(p, t) ==
  /\ Ctl(p, t) /\ group[t] = t
  /\ \E m \in {"propagate", "notifyleader"} : mode' = [mode EXCEPT ![t] = @ \cup {m}]
  /\ Then(p, <<>>)
  /\ UNCHANGED <<kill, pkilled, grpvars, freedUse, doomed, excused, exposed, missed>>

CtlKillgrp(p, t) ==
  /\ Ctl(p, t)
  /\ Then(p, IF group[t] = Nobody THEN <<>>
             ELSE <<[fn |-> "killgrp", grp |-> group[t], at |-> "start", todo |-> <<>>]>>)
  /\ UNCHANGED <<kill, pkilled, mode, grpvars, freedUse, doomed, excused, exposed, missed>>

\* progwrite releases the machine, and its caller returns.
CtlDone(p) ==
  /\ Doing(p, "ctl")
  /\ Release(p)
  /\ Pop(p)
  /\ UNCHANGED <<kill, pkilled, mode, grpvars, histvars>>

\* Mutated form: the last prog of the group is not noted.
NotedShort(g) == Front(members[g])

Noted(g) == members[g]

\* killgrp waits for another one of the same group, or notes its progs.
KillgrpStart(p) ==
  /\ Doing(p, "killgrp") /\ Head(stack[p]).at = "start"
  /\ LET f == Head(stack[p])
     IN \/ /\ members[f.grp] # <<>> /\ gkilled[f.grp]
           /\ Release(p)
           /\ Become(p, [f EXCEPT !.at = "wait"])
           /\ UNCHANGED <<gkilled, kill, pkilled, mode, group, members, histvars>>
        \/ /\ members[f.grp] # <<>> /\ ~gkilled[f.grp]
           /\ gkilled' = [gkilled EXCEPT ![f.grp] = TRUE]
           /\ Become(p, [f EXCEPT !.at = "loop", !.todo = Noted(f.grp)])
           /\ UNCHANGED <<cur, progvars, group, members, histvars>>

KillgrpAgain(p) ==
  /\ In(p, "killgrp") /\ Head(stack[p]).at = "wait"
  /\ Acquire(p, p)
  /\ Become(p, [Head(stack[p]) EXCEPT !.at = "start"])
  /\ UNCHANGED <<kill, pkilled, mode, grpvars, histvars>>

\* The next of those noted that is still there, but for the caller itself.  In
\* the end the group may be gone: its flag is cleared in memory that is free.
KillgrpNext(p) ==
  /\ Doing(p, "killgrp") /\ Head(stack[p]).at = "loop"
  /\ LET f == Head(stack[p])
         left == SelectSeq(f.todo, LAMBDA q : Alive(q) /\ q # p)
     IN IF left # <<>>
        THEN /\ stack' = [stack EXCEPT ![p] =
                  <<Killprog(Head(left)), [f EXCEPT !.todo = Tail(left)]>> \o Tail(@)]
             /\ UNCHANGED gkilled
        ELSE /\ gkilled' = [gkilled EXCEPT ![f.grp] = FALSE]
             /\ Pop(p)
  /\ UNCHANGED <<cur, progvars, group, members, histvars>>

\* What the process of p uses next has been freed by another; what follows is
\* undefined.
UseFreed(p) ==
  /\ stack[p] # <<>> /\ cur = IF KillprogAt(p, "delete") THEN Nobody ELSE p
  /\ LET f == Head(stack[p])
     IN /\ \/ f.fn = "killprog" /\ state[f.victim] = "freed"
           \/ Walking(p) /\ \E q \in Reads(f) \ {Nobody} : state[q] = "freed"
           \/ f.fn = "killgrp" /\ members[f.grp] = <<>> /\ f.at = "start"
        /\ freedUse' = f.fn
  /\ UNCHANGED <<cur, progvars, grpvars, stack, ctls, doomed, excused, exposed, missed>>

Kills(p) ==
  \/ Killprogs(p) \/ Propexes(p)
  \/ KillgrpStart(p) \/ KillgrpAgain(p) \/ KillgrpNext(p) \/ CtlDone(p)
  \/ UseFreed(p)
Exits(p) == Break(p) \/ ExitRelease(p) \/ ExitDelete(p)
Runs(p) ==
  \/ XecKill(p) \/ Block(p) \/ SysCall(p) \/ SysReturn(p) \/ Raise(p) \/ Newgrp(p)
  \/ SpawnRefused(p)
  \/ \E q \in Progs :
       Serve(p, q) \/ Spawn(p, q) \/ CtlKill(p, q) \/ CtlExceptions(p, q) \/ CtlKillgrp(p, q)

Next == freedUse = "none" /\ \E p \in Progs : Kills(p) \/ Exits(p) \/ Runs(p)

Spec == Init /\ [][Next]_vars

-----------------------------------------------------------------------------
(* Properties                                                              *)

\* Nobody deletes a prog whose process is in host code or in a kill, nor one
\* that is deleted already; so who marks a group for killgrp is there to clear
\* the mark.  Excepted are those that killprog has taken off their queue and
\* not marked while propex, within it, kills others and lets progs run.
ProcessKept ==
  /\ \A p \in Progs \ exposed : stack[p] # <<>> =>
       /\ state[p] \in {"ready", "release", "exiting"}
       /\ \A q \in Progs \ {p} : KillprogAt(q, "propex") \/ KillprogAt(q, "delete") =>
            Victim(q) # p
  /\ freedUse = "killprog" =>
       \E p \in Progs : In(p, "killprog") /\ Victim(p) \in exposed
  /\ exposed = {} => \A g \in Progs : gkilled[g] =>
       \E p \in Progs : \E i \in DOMAIN stack[p] :
         LET f == stack[p][i] IN f.fn = "killgrp" /\ f.grp = g /\ f.at = "loop"

\* A prog that has been killed executes no more, unless the call it was in failed
\* with another error, which it handles.
KilledIsDone == \A p \in doomed \ (excused \cup exposed) : ~Limbo(p)

Ends(p, fn, at) ==
  Doing(p, fn) /\ Head(stack[p]).at = at /\ Len(stack'[p]) < Len(stack[p])

\* When killgrp returns, all progs of the group but the caller have been killed,
\* whatever was spawned, deleted or killed while it released the machine.  Those
\* that have left the group meanwhile have been killed or not.
KillgrpReaches ==
  [][\A p \in Progs : Ends(p, "killgrp", "loop") =>
       Range(members[Head(stack[p]).grp]) \ {p} \subseteq doomed]_vars

\* When propex raises the exception in the leader, all other progs of the group
\* have been killed, but for those it could not know of: the ones spawned behind
\* the walk, or when it had lost the group with a prog that left it, those behind
\* that one, and those it came to when the leader was set to propagate.
LeaderAlone ==
  [][\A p \in Progs : Ends(p, "propex", "walk") =>
       LET f == Head(stack[p])
       IN Range(members[f.grp]) \ {f.of, f.leader} \subseteq doomed \cup missed]_vars
=============================================================================
