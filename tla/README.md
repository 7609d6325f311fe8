# TLA+ specifications of Inferno's hosted kernel and Dis virtual machine

This directory holds the TLA+ specifications of the concurrent core of this repository:
the hosted kernel `emu` (emu/port, emu/Linux), and the Dis virtual machine it carries
(libinterp). Each module is translated from the C source; `PROJECT.json` names, for
every definition, the lines it stands for. TLC checks small instances; TLAPS proves the
safety of the locks, of sleep and wakeup, of the scheduler, of channels and alt, of the
collector and of a mount with its server for any number of processes, progs, channels,
blocks and calls. The modules go from the semaphore of a kernel process up to files:
locks, the scheduler of the virtual machine, channels, groups of progs and their death,
the heap and its collector, pipes, and a mount with the Styx server behind it.

To check a run: `tlc -config MCRendez.cfg MCRendez`. To check the proofs of a
module: `tlapm RendezProofs.tla`.

## 1. The system

`emu` is one host process with many host threads, called kernel processes (kprocs,
`struct Proc`). The programs that users write, in Limbo, are Dis *progs*
(`struct Prog`), scheduled by `emu` itself on one virtual machine: at any moment at
most one kproc interprets progs, and the others run host code: file I/O, the
network, timers, servers. Progs communicate on typed channels and through files;
files are served by devices in `emu`, by other progs (file2chan) and by other
machines over Styx (9P).

| component | source | state | operations | how it interacts |
|---|---|---|---|---|
| kernel processes | emu/port/proc.c, kproc-pthreads.c, emu/Linux/os.c | Proc: killed, swipend, syscall, intwait, r; a semaphore; Rendez: l, p | Sleep, Wakeup, swiproc, notkilled, osenter, osleave, the SIGUSR1 handler | used by qio, devices, the scheduler, kill |
| locks | emu/port/lock.c | Lock.val; QLock: use, locked, head..tail; RWlock: x, k, l, readers | lock, qlock, canqlock, qunlock, rlock, canrlock, runlock, wlock, wunlock | shares the semaphore of osblock/osready with Sleep and the VM lock |
| Dis scheduler | emu/port/dis.c | isched: idle, creating, vmq, idlevmq, run queue, irend; Proc.iprog; the global REG | vmachine, acquire, release, iyield, startup, addrun, delrun, delprog | every system call of a prog goes out through release and back through acquire |
| channels and alt | libinterp/xec.c, alt.c | Channel: send, recv (queues of progs), buf, front, size | isend, irecv, xecalt, and killprog/exprog on a waiting prog | runs under the VM lock; moves progs on and off the run queue |
| prog groups, exceptions, kill | emu/port/dis.c, exception.c | Prog: state, kill, flags, group | killprog, exprog, killgrp, propex, progexit, handler | swiproc for a prog in host code, altdone and cqdelp for one on a channel |
| garbage collector, heap | libinterp/gc.c, heap.c | reference counts, colours, gchalt | rungc, rootset, destroy | destructors release the VM; runs from vmachine |
| block queues | emu/port/qio.c | Queue: blocks, len, state | qread, qbread, qwrite, qproduce, qconsume, qclose, ... | Sleep/Wakeup with flow control; pipes, the network, the console |
| pipe device | emu/port/devpipe.c | two Queues, counts of opens at either end | open, read, write, close | qio; reused when both ends are closed |
| mount driver | emu/port/devmnt.c | Mnt: queue, rip; Mntrpc | mountio, mountmux, mntgate, flush | Styx client: multiplexed requests, one reader for all |
| Styx server | emu/port/exportfs.c | Export: fids, work list; exq, the queue of requests | exportproc, exflushed, exslave, exshutdown | Styx server over name space operations |
| name space | emu/port/chan.c, pgrp.c | mount tables, Chan references | mount, unmount, walk, domount, cclose, pgrpcpy | RWlocks, reference counts |
| file2chan | emu/port/devsrv.c | SrvFile, pending reads and writes | srvread, srvwrite, csendalt | from host code to channels, through cblock |
| pool allocator | emu/port/alloc.c | arenas, free tree | dopoolalloc, poolfree, compaction | under locks; the heap and everything else |
| log file system, NAND | liblogfs, libnandfs | log segments, page tags, ECC | write, sweep, replay | crash recovery |
| native kernel | os/port | a second scheduler, sleep/wakeup, locks | | the same promises by other code |
| compilers, loaders, libraries, applications | limbo, libinterp/comp-*.c, load.c, libtk, libdraw, libsec, libmp, libmath, appl, ... | | | no protocol of their own, or written in Limbo |

What is hard about it is in `PROJECT.json`, "hazards", line by line. In short:

* one semaphore per kproc serves Sleep, qlock, the VM queue and the idle stack, so
  one stray or lost post anywhere breaks all of them;
* sleep, wakeup, interrupt and signal meet in windows between four locks;
* the VM is handed over without a common owner: by release, iyield, startup and
  acquire, with processes created on demand and parked when there are too many;
* a prog that waits may be on many queues (alt), and may be killed there;
* a kill deletes progs one after the other and gives the VM away in between, while
  others spawn, leave their group and kill in turn;
* the collector runs destructors that give the VM away in the middle of a sweep;
* flow control marks a queue full, sleeps and is woken under different locks, and a
  reader takes a block off the queue and puts the rest back;
* Styx requests can be interrupted, flushed and answered in any order.

## 2. Plan

The order is that of the dependencies, the most important first. Done: 1 to 9.

| # | module | models | abstract specification | proofs |
|---|---|---|---|---|
| 1 | `Rendez` | proc.c | | `RendezProofs`: done |
| 2 | `QLock`, `QLockClients` | qlock | `FairMutex`: done | `QLockProofs`: done |
| 3 | `RWLock` (on `QLock`) | rlock, wlock | | `RWLockProofs`: done |
| 4 | `Sched` | VM lock, run queue | | `SchedProofs`: done |
| 5 | `DisChan` | send, recv, alt | | `DisChanProofs`: done |
| 6 | `ProgGrp` | killprog, exprog, propex, killgrp, progexit | | |
| 7 | `Qio`, `Pipe` | qio.c, devpipe.c | `Duplex`: done | |
| 8 | `StyxWire`, `Mnt`, `Export`, composed in `Styx` | devmnt.c, exportfs.c | `RpcService`: done | `StyxProofs`: done |
| 9 | `GC` | gc.c, heap.c, poolfree | | `GCProofs`: done |
| 10 | `SchedIntr` | Sched with interrupts that reach irend | | |
| 11 | `Namespace`, `Pool`, `LogFS`, `Ecc`, file2chan on `DisChan` | chan.c/pgrp.c, alloc.c, liblogfs, libnandfs, devsrv.c | | |

`RWLock` uses `QLock` as it is; `Pipe` extends `Qio`; `Styx` composes `Mnt` and
`Export` over `StyxWire`. The others stand on what the ones below them promise:
`Sched`, `Qio` and `Mnt` take Sleep as one test with its sleep, which is what
`NoLostWakeup` and `NoLostKill` of `Rendez` justify, and `Qio`, `Mnt` and `Export`
take a QLock as an owner, which is `FairMutex`. `ProgGrp` takes from `Sched` that one
process has the VM at a time, as does `GC`.

## 3. Modules

### Rendez: Sleep, Wakeup, interrupts, host calls

A process has a control point `pc`: `run` outside this code, `s_*` in Sleep, `w_*` in
Wakeup, `i_*` in swiproc, `h_*` between osenter and the end of osleave. A spin lock is
a variable that holds its owner. An action is one critical section, or one access
outside any lock; where the code holds a lock over several accesses that others
could see the order of (`r->p = up`, the test of the event), they are separate.
The event that Sleep waits for is a Boolean `cond[r]` that `WakeupCall` makes true
before it calls Wakeup (or not: spurious wakeups) and `Consume` makes false.
Sleepers of a Rendez are serialised by the caller, as the manual (man/10/sleep)
requires; that is the guard of `SleepCall`.

`woken` is a history variable: who took the sleeper off its Rendez.

Properties: `TokenDiscipline` (one post for each sleep that blocks, and no other),
`NoLostWakeup`, `NoLostKill`, `CauseReported`, `SignalWindow` (a SIGUSR1 only
interrupts host calls), and the liveness property `CallsReturn`: a sleeper that is
woken or killed returns, and osleave does not spin for ever.
`NoDoubleSleep`, that Sleep's panic("double sleep") is not reached, follows from the
invariant that is proved and has no run of its own.

The model deliberately has the windows in which an interrupt goes astray. Between
osenter and the host call it does not cut the call short; after osleave has let go of
`rlock` it is reported by a later operation; and if it comes between osleave's reading of
`swipend` and its clearing (proc.c:140-141, under `rlock`, while swiproc sets it under
`sysio`, proc.c:107-109: `OsLeaveCollect`, `OsLeaveClear`), nobody reports it. All three
are in the code; no property here hides them.

### QLock, QLockClients, FairMutex: the blocking lock

`QLock` has the steps of qlock, canqlock and qunlock for processes that call them in
any order; `QLockClients` is the most general client that unlocks only what it
holds. `FairMutex` is what they promise: a lock with an owner and a queue, granted in
the order of the queue. `QLockClients` implements it: `FairMutexSpec` maps `owner`
to the set of processes that own the lock or are being handed it, and `waiting` to
the queue.

Properties: `MutualExclusion`, `HandOver` (who blocks is in the queue once, without a
token, or has been dequeued and has the token or is about to get the only one),
`FairMutexSpec`; liveness `EveryWaiterServed`. `LockedIsOwned` (a lock that says it is
locked has somebody who will unlock it) is proved and has no run of its own.

### RWLock: readers and writers

The five functions on top of `QLock`, step by step: every qlock, qunlock and canqlock
inside them is the real one. The interesting part is that rlock and canrlock ignore
the result of `canqlock(&l->k)`: `ReadersHoldK` says that this is right, and that the
count of readers is the number of those inside; `Exclusion` is that and `WriterAlone`.
The others are `WriterNotOvertaken` (no reader, by rlock or canrlock, gets in before a
writer that waits) and the liveness property `EveryoneGetsIn`.

### Sched: the VM lock and the run queue

Kprocs that run `vmachine` (`VProcs`) and other kprocs that acquire and release the VM
(`KProcs`, like the servers of devices); a prog is "ready" (on the run queue),
"blocked" (on a channel), "release" (in host code), or "none". A quantum is a step of
choices: it may wake, spawn or block progs, release the VM and acquire it again,
fail, or end. The collector runs as the process's own prog in front of the queue, and
its destructors release the VM with `gchalt` raised. `ret` is where the acquire in
progress goes back to, which stands for the C stack.

Properties: `OneVM` (never two processes with the VM, never none while `idle` says
so), `VMsAsNeeded` (`NotStranded`, somebody comes when nobody has the VM, and
`VMsBounded`, processes do not pile up), `CurrunIsMine` (what release and the end of a
quantum take off the head of the run queue is the caller's own);
liveness `AcquireServed` and `ReadyRuns`.

Sleep on `irend` is abstracted to its two critical sections, as `Rendez` shows what
they do; an interrupt is not directed at a process asleep there. (A stale one can be found
there (dis.c:1043), and handler and propex would run with no current prog: planned as
`SchedIntr`.)

### DisChan: channels and alt

One instruction is one step, as only one prog runs at a time. The queues are
sequences of progs; the buffer is the ring of the code with `front` and `size`. An
alt is a record of the channels it sends on, those it receives from (arrays are their
elements) and whether it blocks. altrdy counts ready entries *while* it adds the prog
to queues, and altcomm counts again *after* it: the two counts are separate
operators (`Counted`, `Walked`) because the code's correctness depends on them
agreeing. `got` and `on` are history. `Without`, in `Queues`, is what is left of a queue
when some of its elements are taken out, here and in `Mnt` and `Export`; it is a
recursive function, so that the proofs can use it.

Properties: `QueuesExact` (a prog is on the queues of the channels it waits for, once on
each, and on no other: an alt leaves nothing behind), `NoneMissed` (nobody waits for
what is there), `AltSound` (an alt picks an entry that is ready, and leaves no queue
broken), `Conserved` (a message is in one place until it is received, and only a prog
that gives up its send takes one back) and `InOrder`. The two conjuncts of `AltSound`,
`PicksReady` and `QueuesIntact`, fail for the alts of section 5, which are left out of
the instance.

Left out: nil channels, for which send and recv raise exNilref before they do anything
(xec.c:948, 983), and an alt after it has taken the prog off its queues again (alt.c:93,
112, 127), as `AltNone` does for exAlt; and a cqadd that finds no memory (exNomem,
xec.c:901), which would leave the prog off the run queue, or the queues before it in an
alt with the prog on them.

### ProgGrp: groups, exceptions, kill

Everything here runs with the VM acquired, by the process of the prog that is `cur`.
The calls nest: killprog calls propex, which calls killprog for others of the group;
delprog releases the VM while files are closed, and whatever runs then may start the
same again. So each prog has the `stack` of the functions its process is in, one
record for each, with the local variables that live across a release (propex's `nf`
and `pgl`, killgrp's pids). A release is a step that leaves `cur` to nobody; the
acquire, a step that may be taken once nobody has the VM. A quantum of Limbo is one
step: spawn, raise, newgrp, a wait for a channel, or a system call, whose kind is
settled by what it turns out to do. A prog is `queued` or not: the order of the run
queue is in `Sched`, the channels are in `DisChan`.

An error is "empty" (the empty string that a kill raises) or "exception";
`kill` holds "killed" where the code has "". Which exceptions a program has handlers for is
a choice of the step: `Handled` or `Unhandled`. Memory that is used after it was freed
ends the behaviour (`UseFreed`, and the freeing of a prog whose process is in host
code), as what follows is undefined; the one exception is the flag that killgrp
clears in a group it has emptied.

Histories: `doomed`, progs that have been killed; `excused`, those of them whose host
call then failed with another error that they handled, which forgets the kill
(exception.c:210); `exposed`, those that killprog has taken off their queue and not
yet marked, when its propex kills others and releases; `missed`, progs that a propex on
its walk along their group does not come to, or does not kill: those spawned when it
has reached the end of the group, or when the prog it would come to next has left for a
group of its own; those behind that one, when it leaves; and those in which the walk only
raises the exception, because the leader has been set to propagate meanwhile.

Properties: `ProcessKept` (nobody frees a prog whose process is in host code or in a
kill, or frees one twice, unless it was exposed), `KilledIsDone` (a killed prog
executes no more, unless excused or exposed), `KillgrpReaches` (when killgrp returns, all in
the group but its caller have been killed, whoever spawned or moved meanwhile) and
`LeaderAlone` (when the leader is notified, the others of the group but the prog with
the exception have been killed, except those that are missed). The exceptions in these
properties are real: each was needed, and section 5 says what happens there. So
`ProcessKept` does not speak of the window in which a prog is exposed, nor `KilledIsDone`
of a kill that handler forgets: these are listed as hazards with no property.

Left out: the tree of groups (killgrp and propex do not follow it), progs with a
debugger, progs waiting in cblock, and kernel processes that write to ctl files, as a
Styx server may.

### GC: the heap and its collector

Who has the VM runs, so that an instruction of a prog is one step, unless it destroys
something: `stack` has the calls of destroy that a prog is in, one record for each
block that is being freed, with the pointers in it that are still to be dropped. The
destructor of a file (`FreeFD`) releases the VM in the middle of them, and `gchalt`
counts them all. An exit of a prog is one more such call, on its frames and then its
module link.

The heap is one arena of cells, which blocks of one cell fill; a free block may be
several. `magic` has the headers: free neighbours are joined (`Poolfree`), and a header
in the middle of a free block is gone. That matters to rungc, whose `ptr` stands on a
block between two of its calls: poolfree moves it (`PtrAfterFree`; `extern Bhdr *ptr`
in alloc.c).

rungc is a scan in steps of one block (`Propagate`, `Sweep`, `SweepFD`, `PassOver`), with
`visit` as the quantum; `marking` has the calls of markheap, which goes down while the
quantum and the depth allow and leaves the rest grey. A pass that ends with `nprop`
set is followed by another; one that ends without it ends the epoch (`EndEpoch`): the
colours change their roles and rootset marks the module data, the frames of each prog
and the blocks of ptradd. The steps of a call of rungc between two releases are seen by
nobody else; they are separate because they are loops and recursions. `Busy` is the call
that vmachine makes between two quanta, `Execatidle` the loop of calls when no prog is
ready.

Instructions are those that differ to the collector: movp, new, the opening of a file,
spawn, the end of a prog, and a host call that holds a block in a C variable (srvread),
into which another prog sends. `Places` is what an instruction can address: the frame,
the module data, and the records that these point to. What a prog or a host call can
reach (`Live`) is defined from the frames and C variables, without colours and counts.

Properties: `ReachableKept` (what can be reached is allocated, and nobody has begun to
free it), `ScanOnBlock` (ptr is on a header, so rungc never takes "Chain broken"),
`IdleFreesAll` (the three epochs of execatidle, `gccolor+3`, free all that was
garbage when it began, cycles included; `doomed` is that history); liveness `IdleEnds`.

Abstracted: a prog's stack is one frame; a module's data, its link and their counts are
one block; the release of delprog, which is made with gclock held as the ones before it,
is left out. Not modelled: arrays, lists (marklist, which shortens the recursion) and
channels as types; moves of whole records (section 5); the original data of modules;
several arenas, compaction and immutable blocks; `quanta`, which rungc adapts, is a
constant of the instance.

### Qio, Pipe, Duplex: queues of blocks and the pipe

A process has a control point: `r_*` in qread and qbread, `w_*` in qwrite and qbwrite,
`c_*` in the close of an end of the pipe. A step is what happens under `Queue.l`, or
one call made without it. A byte is named by its writer and its number, so that a
property can tell bytes that are lost, repeated, or out of order. The length of the
queue is counted in memory (BALLOC), as in the code: reading part of a block does not
shorten it. The wakeups that follow a critical section are merged with it where
nothing the sleeper tests can change in between. Interrupts (`killed`) reach a process
that sleeps or is about to.

Modelled are queues without coalescing, messages, kick or noblock: what
`qopen(limit, 0, 0, 0)` makes and the pipe uses. Excluded: limits below two, where a
writer that was blocked would never be restarted (`len < limit/2`); writes of no
bytes; the error that a write to a closed pipe also raises as an exception.

`Duplex` is the promise: two streams; a write of at most Maxatomic bytes is accepted
as a whole; bytes are delivered once and in order; the end is seen after the last
byte; and a pipe that both sides have closed and opened again carries nothing over.
`TwoStreams` is its refinement by `Pipe`, where the stream is what is on the queue
with what a reader is about to put back in front. `NoOvershoot` bounds the length of a
queue: the limit is tested after the block is queued. `SleepersServed` is liveness: a
reader does not sleep through data or the end, a writer not through a queue that is
drained for good.

### StyxWire, Mnt, Export, Styx, RpcService: a mount and its server

`StyxWire` has what the two sides share: a reliable ordered connection that may break,
and `killed`. `Mnt` is the RPC engine of the mount driver. A Mntrpc keeps its tag on
the free list, so it is named by its tag; the `chain` of a client is its request and the
flushes it has sent for it. `Export` is the server of one export: exportproc reads
requests, slaves take them from `exq`, do them, and answer their flushes. `Styx`
composes them.

A call is named by its client and a number; a reply carries the call it answers, so
that a model of a reply matched to the wrong request shows. What a request does is a
step in which it is done, or ends in an error, of itself or because its slave has been
killed; with an error it may have had its effect or not, as a write that is interrupted
after it has queued its block (qio.c:1261).
Wakeups of processes that have been freed or taken up by another call, which the code
allows and Sleep's test tolerates, are in the model. Steps on private data are merged
with the access to shared data before or after them. `lost` are requests linked behind
a request that exflushed freed (exportfs.c:366): they are never served.

`RpcService` is the promise: a call has its effect at most once, and none after it has
returned; it returns its own result. A request that is done without an error is what its
call returns, though its client was interrupted; only an interrupted client's call
returns interrupted. A call that returns an error, or interrupted, may have had its
effect: that the client cannot tell is how qbwrite wants it, which lets an interrupt take
effect only after the data has been queued. Only a broken connection leaves open whether
an effect is still to come. `done`, the calls that have been done without an error, is a
history variable of `Export`. `CallsAreOnce` is the refinement. `TagDiscipline`: a tag is
not given to another request while something that carries it may still arrive.
`Findable`: a request that a slave has is always where a flush looks for it (those that
are `lost` are nowhere). `KillHitsItsRequest`: a kill never hits the slave's
next request. `GateIsWatched`: nobody sleeps with no reader on the way. The liveness
property `CallsReturn` excepts (`Faulty`) a broken connection and the two faults of
section 5.

Left out: the file operations on both sides and fids; the creation of slaves (all are
there from the start) and the qwait/rwait with which they wait; several exports on one
`exq`; a connection that is full, on which both sides could wait to write. A read or
write of many messages is one call for each.

## 4. Runs

| cfg | instance | what it shows |
|---|---|---|
| MCRendez | 2 processes, 2 Rendez, fairness; 77,626 states | safety of every interleaving of sleep, wakeup, interrupt and host calls in which two processes take all the parts; `CallsReturn`; a sleep on one Rendez leaves nothing behind for one on the other |
| MCQLock | 3 processes, 2 QLocks, fairness | mutual exclusion, hand-over, refinement of FairMutex, and that all who queue are served |
| MCRWLock | 3 processes, fairness | exclusion, the count, the order of readers and writers, and that both get in |
| MCSched | 4 vmachine kprocs, 1 other, 1 prog, collections, 2 quanta | safety of the VM, with every way to lose or double it |
| MCSchedLive | 3 vmachine kprocs, 2 progs, fairness | the run queue is round robin and acquire is answered, while progs wake, spawn and end each other |
| MCDisChan | 4 progs, 4 messages, an unbuffered channel and one of two places, 5 alts | all channel properties |
| MCProgGrp | 3 progs, 2 ctl writes, exceptions local or notifying the leader; 1.7 million states | what kill, killgrp and the notification of a leader have reached when they end |
| MCGC | 3 blocks, 2 progs, 1 pointer in each record, 2 blocks in a quantum, fairness; 599,184 states | what can be reached is kept, the scan stays on the chain, three epochs at idle free all garbage |
| MCStyx | 2 clients, 2 slaves, 2 calls in all, 2 interrupts or hangups; 1.6 million states | refinement of RpcService, tags, kills, the gate |
| MCStyxLive | 2 clients, 1 slave, 3 calls in all, 1 interrupt, fairness; 274,081 states | calls return |
| MCStyxFlush | as MCStyx | violated: section 5 |
| MCPipe | 2 writers at one end, 1 reader at the other, 3 opens, 1 interrupt, fairness; 300,000 states | refinement of Duplex, the limit, and that sleepers are served |

Why the bounds are enough. In `Rendez` a race needs a sleeper, somebody who wakes it
and somebody who interrupts it; one process may be the last two, one after the other,
and the proofs cover any number. In `QLock`, three processes give a holder and a queue
of two, the least for which order matters. `Sched` with one prog needs four vmachine
processes before it is sure that there can be no more than three (`VMsBounded`), which
the run shows by not using the fourth. `Cycles`, the quanta a prog gets before vmachine
yields to a process that waits, is 2 in the run of the invariants, so that a count is
kept and reset; it is 0, which yields at every quantum, where two progs and fairness
make the state space large. `DisChan`'s buffer of two places wraps with three messages;
four progs give two waiting on either side of a channel with one to interrupt them.

In `ProgGrp`, three progs give a leader, one that dies and one that runs while the first
kills; `MaxCtl`, the writes to ctl files, is 2, for a kill during a kill and a second
killgrp of one group. With four progs, `MaxCtl` 1, and either mode by itself (notifyleader
and propagate), the same properties hold (4.9 and 3.8 million states); those instances
take longer than a run here should, and add what four are needed for: a spawn during a
killgrp, a double delete, a leader freed under a walk. `LeaderAlone` needs a fifth: one
that raises, one that is killed, one that the walk would come to next and that leaves,
the leader, and one that it spawns then, which `WalksPast` is there for. With five
progs, four of them there at first, notifyleader and no ctl writes, all four properties
hold (17.7 million states).

In `GC`, three cells are the module data and two blocks: enough for a cycle, a block
reached only through another, and a join when one is freed next to a free one. The
quantum of 2 lets a pass be cut short and progs run in between; the depth of 2 makes
markheap leave a third block grey; with `MaxHalt` 1 (64 in the code) destroy gives up in
the third nested call and leaves garbage with a count of zero to the collector. One prog
makes host calls and exits, the other does neither. Checked apart, without liveness:
both progs doing both, with quanta of 1 and 4 (2.4 million states); four cells and one
prog that does neither (2.5 million), where an epoch takes several passes to find a
chain of three.

In `Styx`, `MaxFaults` bounds interrupts and the hangup together: two let a flush be
flushed. `MaxFree`, the Mntrpcs kept on the free list, is 1 instead of 10, so that both
the free list and the tag mask are used; `MaxTag` is more than any instance allocates.
In `MCStyx` (`OneAtWork`) no further step is taken from a state in which the connection
has broken and two slaves are at work, for the time of the run: without this bound the
same properties hold (2.3 million states). `MCStyxLive` compares states by a VIEW, all variables but `performed` and `done`: no guard,
fairness condition or part of `CallsReturn` reads these two.
The model keeps each call as one request, and with one slave and three calls the queue
holds more than the slave takes. In `Pipe`, a limit of two with blocks of two makes a
writer of three bytes wait between its blocks; one direction is used; `MaxSent` 3
bytes each. `MaxOpens` 3 lets one end be opened again by another process after both
are closed.

CHECK_DEADLOCK is FALSE where the system may really stop: when all sleepers sleep and
nobody is left to wake them (`MCRendez`), when the emulator has exited with
its last prog or is idle with all progs blocked (`MCSched`, `MCSchedLive`), when all
progs are blocked, broken or gone or the messages have been sent (`MCDisChan`,
`MCProgGrp`), when no more calls are to be made (`MCStyx`, `MCStyxLive`), and when all
have closed the pipe, or read or write one that nobody else uses (`MCPipe`).

Fairness. A runnable host thread goes on. Spin locks (lock.c:6-26) are retried for ever,
backing off, by a thread that is scheduled independently of the holder: strong fairness
of the steps that need one says that who finds the lock free again and again gets it,
which a test-and-set lock gives with probability one and no more. Holders of QLocks and
RWLocks unlock (the callers' obligation). Quanta end: `xec` counts instructions, and an
instruction that released the VM continues with the count it had; `QuantaEnd` says so.
`NoErrors` (progs do not raise exceptions for ever) is assumed by `AcquireServed` and
`ReadyRuns` (section 5). `MCSchedLive` has no kproc besides vmachines, because release
prefers any process in `vmq` to the idle vmachine, and two kprocs that acquire and
release for ever may keep the run queue waiting (hazard at dis.c:856). In `Pipe` each
process in a call goes on, and none has to make one. In `GC` whoever has the VM goes on,
the destructors called by the sweep return, and acquire, which is first come, first
served, gives the VM back to it however many others ask (strong fairness of `SweptFD`);
progs, and the destructors that they call, need not go on. In `Styx` the calls are
finitely many and weak fairness of `Running`, that some process takes a step as long as
one can, is enough; a request in progress need not end unless its slave is killed, and
where `CallsReturn` needs it to, it says so (`Ends`).

Each property of each passing run has a mutant in `PROJECT.json`: a plausible bug,
written beside the definition it changes ("Mutated form"), that violates it. Type
invariants (`TypeOK`) hold in all instances; those of `Rendez`, `QLockClients`, `Sched`
and `GC` are theorems. `RWLockProofs`, `DisChanProofs` and `StyxProofs` have the types
they need in their invariants. Those of `ProgGrp` and `Pipe` are there to be read, and
to be added to a run when a module is changed. That of `Styx` is no theorem: it also
says that no instance runs out of tags, which is about the bound `MaxTag`.

## 5. Disagreements found

One has a run that shows it. `MCStyxFlush`: exflushed returns with `fs->l` held when it
finds the request finished but still on the work list (exportfs.c:383). Every later
request of the export spins.

The others were met while modelling. Most are in the models and stand as exceptions in
a property.

* An alt that sends and receives on the same channel, and receives on another, can
  select the receive that its own send makes ready, and meets itself. altrdy counts
  ready entries before the prog is on its own queues, altcomm after (alt.c:203, 225);
  the test for "alt send/recv on same chan" (alt.c:117) only looks at the head of the
  queue. `PicksReady` fails if `[send |-> <<a>>, recv |-> <<a, b>>, block |-> TRUE]`
  is among `Alts`; doc/dis.ms:161 says that "a channel is picked at random from the
  ready set".
* A receive from an array that holds one channel twice leaves the channel's queue
  pointer nil (xec.c:934), which the next step dereferences: `QueuesIntact` fails if
  such an array is among `Alts`.
* A prog that raises and handles an exception in every quantum is never moved to the
  tail of the run queue, since vmachine's error path (dis.c:1028) returns to the loop
  past the rotation and resets the count of quanta: without `NoErrors`, `ReadyRuns`
  and `AcquireServed` fail. The Limbo manual says that "threads are preemptively
  scheduled" (doc/limbo/limbo.ms:3747).
* Killing a group is not atomic. exception(2) says that notifyleader "will atomically
  destroy all processes in the group except the leader", and prog(3) says the same
  (man/3/prog:142-144). propex walks along the group
  and releases the VM at each prog it deletes: progs that run meanwhile may spawn
  behind the walk's end, leave and take the walk with them, spawn once it is so led
  astray, or set the leader to propagate (`missed`); the prog that has the
  exception is not among those it kills, but breaks or is being killed itself; and the prog whose address propex kept (dis.c:366) may
  be freed, after which it follows freed memory.
  With four progs the leader may be freed under it.
* killprog marks a prog Pexiting only after propex (dis.c:436-440). If that releases,
  another prog's exception puts the half-killed prog back on the run queue, where it
  is deleted under its own process; or a second kill deletes it twice (`exposed`).
* A killgrp that waited for another one of the same group then uses the group
  (dis.c:564), which the other may have emptied and freed; and a killgrp from outside
  the group always clears its flag in the group it has freed (dis.c:593).
* A kill that is pending when the prog's host call fails with an exception which the
  prog handles is forgotten (exception.c:210; `excused`): the prog lives on. prog(3)
  says "Kill the process" (man/3/prog:124).
* An exception sent to a prog in sys->sleep is raised as the empty string
  (inferno.c:679), which no handler can catch: it kills the prog, where prog(3) says
  that it is raised in it (man/3/prog:134-138).
* exflushed takes a request off `exq` without moving `exq.tail` (exportfs.c:366): if
  it was the last of several, the next request is linked to freed memory and never
  served (`lost`).
* A mount client that was chosen to read next, is interrupted, and cannot write its
  flush because the connection has broken, leaves without mntgate (devmnt.c:778); with
  three clients `GateIsWatched` fails once `hung`.
* movmp, movtmp and the moves of array slices drop the counts of the old pointers in
  the destination (freeptrs), then copy the new ones over them (xec.c:292-294,
  1640-1642, 1269-1281). If one of the old was the last reference to an FD, its
  destructor gives the VM away in between: another prog that can reach the destination
  finds pointers to freed blocks there, and one that changes the source makes the copy
  differ from what was counted. Likewise Sys_open and other calls that destroy their
  result's old value before they clear it (inferno.c:136-137). This is from reading
  the code: `GC` has only movp and new, which put the new value in before they destroy
  the old.
* A destructor that does not return, as the close of a file on a server that does not
  answer, holds gclock (heap.c:232): nothing is collected until it does.
* A free that joins ptr's block to the one before it moves the scan back
  (alloc.c:480), and free blocks do not count against the quantum: that a pass ends
  while progs allocate and free in front of it is not claimed. `IdleEnds` is about the
  loop at idle only.
* A pipe that was opened at one end only, written, and closed, is opened again with
  its data and its queues as they were, and a reader at the other end sees no end of
  file (devpipe.c:276, pipe(3)).
* pipe(3) gives an atomic write as 128k where Maxatomic is 32k; and qio(10) describes
  a qwrite that is not this one.

## 6. Proofs

All are safety results, and hold for every value of the constants that the assumptions
named in the modules allow. `RendezAssumption`, `QLockAssumption`, `GCAssumption`,
`ChanAssumption` and `WireAssumption` say that nil is not a process, a lock, a block, a
channel or a message, and that sets which the model keeps apart are disjoint;
`RWLockAssumption`, that an RWlock has its two QLocks; `SchedAssumption` adds that
processes and progs are finitely many (`VMsAsNeeded` counts them), and `WireAssumption`
that clients are (the calls made are counted). Processes are otherwise any set, finite
or not; the arena of `GC` and the buffers of `DisChan` are of any size, and tags, calls and
interrupts of `Styx` of any number.

The theorems about `DisChan` have a hypothesis besides: `PlainAlts`, that an alt names
each channel once, or is one channel that it both sends on and receives from. What it
leaves out are arrays that have a channel twice, and alts that have a channel both ways
beside others: section 5 says what goes wrong with them.

| module | proves | from |
|---|---|---|
| `RendezProofs` | `TokenDiscipline`, `NoLostWakeup`, `NoLostKill`, `CauseReported`, `SignalWindow`, no double sleep | `IInv` of `Rendez` |
| `QLockProofs` | `MutualExclusion`, `HandOver`, `FairMutexSpec`, no lock dropped | `QInv` |
| `RWLockProofs` | `Exclusion`, `WriterNotOvertaken` | `QInv` and `XInv`, `KInv`, `LInv`, `CountInv` |
| `SchedProofs` | `OneVM`, `CurrunIsMine`, `VMsAsNeeded` | `VMInv`, `ComingInv`, `ProgInv`, `HaltInv`, `CountInv` |
| `DisChanProofs` | `QueuesExact`, `NoneMissed`, `AltSound`, `Conserved`, `InOrder` | `IInv`: `Fields`, `Buffers`, `Exact`, `NoneMissed`, `Singles`, no fault |
| `GCProofs` | `ReachableKept`, `ScanOnBlock`, `IdleFreesAll` | the fourteen parts of its `IInv` |
| `StyxProofs` | `Findable`, `KillHitsItsRequest`, `GateIsWatched`, `TagDiscipline`, `CallsAreOnce` | `Sides`, `FlushInv`, `RpcInv` |

`QueueFacts` holds the lemmas these share: what the operators on queues leave, the uses
of `Without` by the least place where the two sides would differ. The types of the
variables are part of each invariant.

**Rendez.** None of the invariants is inductive: that no wakeup is lost depends
on who holds which lock at each control point, that on the arguments of the calls in
progress, and the discipline of the semaphore on who is on a Rendez. `IInv` (at the end of
`Rendez`) is their conjunction with: `LockInv`, a lock's variable names the process
whose control point says that it holds it; `ArgInv`, what `tgt` and `vic` are;
`SleepInv`, up->r is set exactly from the commit to the relock, and sleepers do not
share a Rendez; `WakeupInv` and `KillInv`, which extend the two "not lost" properties
backwards to the control points before the process is committed; `CauseInv` and
`SignalInv`. There is one lemma for each conjunct, with one step for each action.

**lock.c.** `QInv` (in `QLockProofs`) has the queue's soundness (each waiter once, in one
queue), the owner of each spin lock, and the token of each process dequeued. The first
part of the module shows that qlock, canqlock and qunlock keep it whoever calls them, and
what each of their steps does to those who have been handed the lock. The second closes
this over the clients of `QLockClients`, and shows that each of their steps is a step of
`FairMutex` or leaves owner and queue unchanged.

**RWLock** calls lock.c on two locks, so its proof starts from `QInv` for both.
What it adds is who has them: x (`XInv`) is had by one process, which is
being let in or writes; k (`KInv`) by one process for itself, or by the readers
together, from the first one's canqlock to the last one's qunlock; and `readers` is the
number of those to count down (`CountInv`), all of which change under the spin lock l
(`LInv`). rlock ignores what canqlock(&q->k) answers: it is right to, because a first
reader holds x and l, with the count 0, and by `KInv` and `CountInv` nobody can then have k.
That is the step on which `Exclusion` rests.

**Sched.** The proof is in three layers, each inductive with the help of the ones below.
`VMInv`: among all processes one has the VM unless `idle` is set, where "has" includes the
process that release or iyield has taken off a queue and not yet readied, and each
semaphore is up only for such a process or one woken on irend. `ComingInv`: at most one
new interpreter is on its way, and one is when the VM was left to nobody. `ProgInv`: the
run queue has each ready prog once, a process itself only while it stands in it as its
own prog, and a process away in host code remembers a prog that no other one has; this gives
`CurrunIsMine`. `HaltInv` and `CountInv` then count: when release finds both queues
empty, every interpreter is away with a prog of its own, but for at most one in a
destructor of the collector, so there are no more of them than progs and two.

**DisChan.** What a prog waits for is in its own fields (`pstate`, `chan`, `alt`); the
queues must say the same. `Exact` is that they do: each queue holds, once each, the set of
those who wait there. With queues seen as sets (`Holds`), every instruction, kill and
exception is one of a few effects on who waits for what and on one buffer (`Effect`): a
prog begins to wait, one that waited is served and leaves all its queues, a message goes
in or out. That every step has an effect is where the code is used, that every effect keeps
the invariant is where it is not, and the two are proved apart. `NoneMissed` is needed
for the first of them: a sender may take the head of `recvq` only because, when somebody
waits there, the buffer is empty and no other sender waits. altcomm finds the channel that
altrdy drew because a channel that was ready when it was counted is so when altcomm walks
the same list, and no other becomes so when the prog joins its queues, which is where
`PlainAlts` is used. `Conserved` and `InOrder` are proved from the same effects; `Singles`
is that a message is in one place at most.

**GC.** A prog may run between any two quanta of a pass, so `ReachableKept` needs both
the counts and the colours. `RefInv`: the count of a block is not below the pointers to
it from frames, from blocks that the pass will keep, from host calls and from module
links, without those that a call of destroy has dropped already (`Did`); so what destroy
frees has no other holder (`KeptInv`). `EdgeInv` and `RootInv` are the colours: no block
that the sweep passes over points to one that it frees, and what has been scanned points
only to what has been marked, except for the pointers that a call of markheap has still
to come to (`Pending`), as its recursion is many steps. `PassInv` has what the pass has
done behind `ptr`, and that nprop is set if it left a grey block there, so that the
colours turn only when there is none. `HeaderInv` keeps `ptr` on a header through the
joins of poolfree. `StackOK` says that destroy is in no block twice, `HaltInv` that
gchalt is the number of destructors in progress, `DoomInv` that what was garbage when
execatidle began is unreachable and loses a colour with every epoch. The steps of progs
are not proved one by one: each moves one pointer of one holder, drops the old value and
marks the new one, which `MutatorStep` does once for all of them.

**Styx.** Each side has an invariant that holds whatever the other does and whether or
not the connection stands (`Sides`): of the mount driver, that tags of calls are
distinct, that a request is on the queue until it has its reply, and who may sleep while
nobody reads (`WatchInv`); of the server, that a request is on the connection, queued or
with one slave (`CallInv`), and what its Exq says of it (`SlaveInv`, `RecInv`).
`Findable`, `KillHitsItsRequest` and `GateIsWatched` follow.

`TagDiscipline` is about both at once. A tag may be in six places: on the way to the
server, with exportproc, on `exq` or with a slave, on the flush list of a request, on
the way back, or read. `Tagged` says that it is in one of them at most (`Once`), that
what is at the server and on the way back belongs to a call in progress (`Carriers`),
and that of the tags of a call the one sent first is ahead (`InLine`), so that when the
client has the last reply it waits for, nothing it sent is still to be answered. Each
step of either side moves at most one tag, to a further place and behind those that must
stay ahead (`Advance`): for the Rflush of a request in progress that is because a slave
replies to it before its flushes, for the Rflush of one that is not found because it is
not there (`LiveFirst`, of requests with one tag the live one is first). Once the
connection has broken, clients free tags that are still in use, and none of this is
claimed.

**RpcService.** `Calling` holds throughout: the outcome of a call and its control point
agree (`Outcomes`), a request ends in an error or is done (`Errors`), a call that may yet
have its effect has had none and has not returned, unless it failed with the connection
(`Effects`), a reply R says that the call was done, and Rerror that it was not and will
have no effect from then on, which is `Settled` (`Truthful`). What is left is that a
client goes by the reply to its own request. While the connection stands, everything
that carries a call carries the tag of its request, and the result of a call that was
done is with its slave, on its way or with its client (`Carried`); with the order of
the tags a client that has been told that its request was flushed has either its reply
before that, or the request has come to nothing (`AllAnswered`, by `InOrder`).
`AllAnswered` is not inductive without the tags, but it is once they can be reused:
after the connection has broken, no reply is added and no request is sent, and a client
that tries fails or is interrupted. So `RpcInv` has `Carried` until then and
`AllAnswered` always. Each step of `Styx` is then a step of `RpcService` or leaves its
variables alone (`ServiceStep`): Return needs `AllAnswered`, the effect of a request
needs `Effects`, and the flag `asked` stays set from the interrupt, over the handler's
flushes, to the return.

Proving `GC` showed that its assumptions were too weak: nothing kept H from being a
prog's or the collector's name. For `DisChan`, `Mnt` and `Export`, SelectSeq, which is a
recursive operator, gave way to `Without`. Nothing else in the models changed.

Only model-checked: `ProcessKept`, `KilledIsDone`, `KillgrpReaches` and `LeaderAlone` of
`ProgGrp`, whose nested calls have no invariant short of a description of each stack;
`NoOvershoot` of `Pipe` and the refinement of `Duplex`, where the provers would have to
follow bytes through blocks by induction over sequences of sequences; and all liveness,
which is out of TLAPS's reach here (fairness and ENABLED).

## 7. Not modelled

Whole components: the plan from 10 on, and the native kernel. Of the modelled
components: creation of the threads themselves and of their stacks; `rptproc` (proc.c),
whose sleep with a period is a client of Sleep; `cblock`, csendalt and killcomm (the
kernel's and the heap's way into channels); the debugging states of a prog (Pdebug);
and what section 3 names under each module. The content of messages, and the
registers beyond whose they are, are abstracted everywhere.

The Windows, Plan 9 and other ports of osblock and osready are different code and are
not modelled; the specifications are of the pthreads version. The compilers,
libraries and applications, which are most of the repository by size, have no
concurrent protocol of their own or run on the system modelled here: the share of all
lines that these modules can cover is small. The OpenCog parts
of this repository are package definitions and prose, with no code to model.
