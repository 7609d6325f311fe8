--------------------------------- MODULE Qio ---------------------------------
(***************************************************************************)
(* Queues of blocks with flow control (emu/port/qio.c): qread, qbread,     *)
(* qwrite, qclose, qhangup and qreopen.  Modelled are queues that coalesce *)
(* nothing, keep no message boundaries, have no kick and block when full,  *)
(* which is what qopen(limit, 0, 0, 0) makes.                              *)
(*                                                                         *)
(* One step is what happens under Queue.l, or one call made without it.    *)
(* Sleep tests its condition and sleeps as one step (module Rendez);       *)
(* rlock and wlock are QLocks (module QLock), here by their owner.  A byte *)
(* is named by its writer and its number.  BALLOC, the memory of a block,  *)
(* is its length when it was made; what is read off the front of a block   *)
(* does not shorten it.                                                    *)
(***************************************************************************)
EXTENDS Naturals, SequencesExt

CONSTANTS
  Queues,
  Procs,      \* processes that read and write
  NoOne,      \* no owner
  Limit,      \* Queue.limit and inilim
  MaxBlock,   \* Maxatomic: a write is cut into blocks of this size
  ReadLens,   \* lengths asked for
  WriteLens,  \* lengths written
  MaxSent     \* bound: bytes each process writes

\* A queue with a limit of one would never wake its writers: len < limit/2.
ASSUME QioAssumption ==
  /\ Limit \in Nat /\ Limit > 1
  /\ MaxBlock \in Nat \ {0}
  /\ ReadLens \subseteq Nat \ {0} /\ WriteLens \subseteq Nat \ {0}

VARIABLES
  blocks,     \* Queue.bfirst and what hangs from it
  len,        \* Queue.len
  closed,     \* Qclosed of Queue.state
  starve,     \* Qstarve
  flow,       \* Qflow
  eof,        \* Queue.eof
  rlock,      \* owner of Queue.rlock
  wlock,      \* owner of Queue.wlock
  pc,         \* control point of each process in the functions above
  at,         \* the queue it is in
  todo,       \* bytes it has still to write, or has asked for
  left,       \* qread's b: what it has removed and not used, or <<>>
  sent,       \* bytes of each process queued so far
  got,        \* what its last read gave it
  killed      \* Proc.killed

queuevars == <<blocks, len, closed, starve, flow, eof>>
lockvars == <<rlock, wlock>>
datavars == <<left, sent, got>>
qvars == <<queuevars, lockvars, pc, at, todo, datavars, killed>>

PC == {"closed", "idle", "r_wait", "r_sleep", "r_asleep", "r_awake", "r_back",
       "r_wake", "w_lock", "w_wake", "w_flow", "w_mark", "w_sleep", "w_asleep",
       "w_awake", "c_hang", "c_close", "c_reopen"}
Nothing == [kind |-> "none", data |-> <<>>]
EndOfFile == [kind |-> "eof", data |-> <<>>]
NoBlock == [data |-> <<>>, alloc |-> 0]

QInit ==
  /\ blocks = [q \in Queues |-> <<>>]
  /\ len = [q \in Queues |-> 0]
  /\ closed = [q \in Queues |-> FALSE]
  /\ starve = [q \in Queues |-> TRUE]
  /\ flow = [q \in Queues |-> FALSE]
  /\ eof = [q \in Queues |-> 0]
  /\ rlock = [q \in Queues |-> NoOne]
  /\ wlock = [q \in Queues |-> NoOne]
  /\ pc = [p \in Procs |-> "closed"]
  /\ at = [p \in Procs |-> CHOOSE q \in Queues : TRUE]
  /\ todo = [p \in Procs |-> 0]
  /\ left = [p \in Procs |-> NoBlock]
  /\ sent = [p \in Procs |-> 0]
  /\ got = [p \in Procs |-> Nothing]
  /\ killed = [p \in Procs |-> FALSE]

Step(p, a, b) == pc[p] = a /\ pc' = [pc EXCEPT ![p] = b]

\* The process asleep on Queue.rr or Queue.wr is made ready.
Woken(f, qs, sleep, awake) ==
  [p \in Procs |-> IF f[p] = sleep /\ at[p] \in qs THEN awake ELSE f[p]]
ReaderWoken(f, q) == Woken(f, {q}, "r_asleep", "r_awake")
WriterWoken(f, q) == Woken(f, {q}, "w_asleep", "w_awake")

Notempty(q) == closed[q] \/ blocks[q] # <<>>
Qnotfull(q) == len[q] < Limit \/ closed[q]

-----------------------------------------------------------------------------
(* Reading                                                                 *)

\* Sleep on the way in and on the way out, for readers and writers: Eintr
\* leaves the function by way of its qunlock.
Interrupted(p) ==
  /\ killed[p] /\ killed' = [killed EXCEPT ![p] = FALSE]
  /\ pc' = [pc EXCEPT ![p] = "idle"]
  /\ todo' = [todo EXCEPT ![p] = 0]
  /\ rlock' = [q \in Queues |-> IF rlock[q] = p THEN NoOne ELSE rlock[q]]
  /\ wlock' = [q \in Queues |-> IF wlock[q] = p THEN NoOne ELSE wlock[q]]

\* qread or qbread of queue q has qlocked rlock.
ReadCall(p, q) ==
  /\ Step(p, "idle", "r_wait")
  /\ rlock[q] = NoOne /\ rlock' = [rlock EXCEPT ![q] = p]
  /\ at' = [at EXCEPT ![p] = q]
  /\ \E n \in ReadLens : todo' = [todo EXCEPT ![p] = n]
  /\ got' = [got EXCEPT ![p] = Nothing]
  /\ UNCHANGED <<queuevars, wlock, left, sent, killed>>

ReadDone(p, r) ==
  /\ rlock' = [rlock EXCEPT ![at[p]] = NoOne]
  /\ todo' = [todo EXCEPT ![p] = 0]
  /\ got' = [got EXCEPT ![p] = r]

\* qwait finds nothing: the end, more than three times an error, or to sleep.
QwaitEmpty(p) ==
  LET q == at[p] IN
  /\ blocks[q] = <<>>
  /\ \/ /\ closed[q]
        /\ Step(p, "r_wait", "idle")
        /\ eof' = [eof EXCEPT ![q] = IF @ > 3 THEN @ ELSE @ + 1]
        /\ ReadDone(p, IF eof[q] < 3 THEN EndOfFile ELSE Nothing)
        /\ UNCHANGED starve
     \/ /\ ~closed[q]
        /\ Step(p, "r_wait", "r_sleep")
        /\ starve' = [starve EXCEPT ![q] = TRUE]
        /\ UNCHANGED <<eof, rlock, todo, got>>
  /\ UNCHANGED <<blocks, len, closed, flow, wlock, at, left, sent, killed>>

SleepRead(p) ==
  /\ \/ pc[p] \in {"r_sleep", "r_awake"} /\ Interrupted(p)
     \/ /\ ~killed[p]
        /\ \/ Notempty(at[p]) /\ Step(p, "r_sleep", "r_wait")
           \/ ~Notempty(at[p]) /\ Step(p, "r_sleep", "r_asleep")
           \/ Step(p, "r_awake", "r_wait")
        /\ UNCHANGED <<lockvars, todo, killed>>
  /\ UNCHANGED <<queuevars, at, datavars>>

Gives(b, n) == [kind |-> "data", data |-> SubSeq(b.data, 1, n)]
Rest(b, n) == SubSeq(b.data, n + 1, Len(b.data))

\* qread takes the first block off the queue and lets go of Queue.l while it
\* copies; got is what it copies, left what it will put back.
QreadRemove(p) ==
  LET q == at[p]
      b == Head(blocks[q])
      n == Min({todo[p], Len(b.data)})
  IN
  /\ blocks[q] # <<>>
  /\ Step(p, "r_wait", "r_back")
  /\ blocks' = [blocks EXCEPT ![q] = Tail(@)]
  /\ len' = [len EXCEPT ![q] = @ - b.alloc]
  /\ got' = [got EXCEPT ![p] = Gives(b, n)]
  /\ left' = [left EXCEPT ![p] = IF n = Len(b.data) THEN NoBlock
                                 ELSE [data |-> Rest(b, n), alloc |-> b.alloc]]
  /\ UNCHANGED <<closed, starve, flow, eof, lockvars, at, todo, sent, killed>>

\* Mutated form: the rest of the block goes to the end of the queue.
PutbackLast(bs, b) == IF b = NoBlock THEN bs ELSE Append(bs, b)

\* qputback.
Putback(bs, b) == IF b = NoBlock THEN bs ELSE <<b>> \o bs

\* qwakeup_unlock: a flow controlled writer is restarted.
Restarts(q, n) == flow[q] /\ n < Limit \div 2

\* What both ways of reading do last under Queue.l, the queue's blocks and
\* length being bs and n.
Unlock(p, q, bs, n) ==
  /\ blocks' = [blocks EXCEPT ![q] = bs]
  /\ len' = [len EXCEPT ![q] = n]
  /\ flow' = [flow EXCEPT ![q] = @ /\ ~Restarts(q, n)]
  /\ pc' = [pc EXCEPT ![p] = IF Restarts(q, n) THEN "r_wake" ELSE "idle"]
  /\ rlock' = IF Restarts(q, n) THEN rlock ELSE [rlock EXCEPT ![q] = NoOne]

QreadPutback(p) ==
  LET q == at[p] IN
  /\ pc[p] = "r_back"
  /\ Unlock(p, q, Putback(blocks[q], left[p]), len[q] + left[p].alloc)
  /\ left' = [left EXCEPT ![p] = NoBlock]
  /\ todo' = [todo EXCEPT ![p] = 0]
  /\ UNCHANGED <<closed, starve, eof, wlock, at, sent, got, killed>>

\* qbread splits a block that is too long under the lock, the rest a new one.
Qbread(p) ==
  LET q == at[p]
      b == Head(blocks[q])
      n == Min({todo[p], Len(b.data)})
      rest == [data |-> Rest(b, n), alloc |-> Len(b.data) - n]
  IN
  /\ pc[p] = "r_wait" /\ blocks[q] # <<>>
  /\ IF rest.alloc = 0 THEN Unlock(p, q, Tail(blocks[q]), len[q] - b.alloc)
     ELSE Unlock(p, q, <<rest>> \o Tail(blocks[q]), len[q] - b.alloc + rest.alloc)
  /\ got' = [got EXCEPT ![p] = Gives(b, n)]
  /\ todo' = [todo EXCEPT ![p] = 0]
  /\ UNCHANGED <<closed, starve, eof, wlock, at, left, sent, killed>>

\* Wakeup(&q->wr), without Queue.l.
RestartWriter(p) ==
  /\ pc[p] = "r_wake"
  /\ pc' = [WriterWoken(pc, at[p]) EXCEPT ![p] = "idle"]
  /\ rlock' = [rlock EXCEPT ![at[p]] = NoOne]
  /\ UNCHANGED <<queuevars, wlock, at, todo, datavars, killed>>

-----------------------------------------------------------------------------
(* Writing                                                                 *)

WriteCall(p, q) ==
  /\ Step(p, "idle", "w_lock")
  /\ at' = [at EXCEPT ![p] = q]
  /\ \E n \in WriteLens :
       sent[p] + n <= MaxSent /\ todo' = [todo EXCEPT ![p] = n]
  /\ UNCHANGED <<queuevars, lockvars, datavars, killed>>

Numbered(p, m, n) == [i \in 1..n |-> <<p, m + i>>]

\* qbwrite of the next block of qwrite, with wlock and under Queue.l.
Qbwrite(p) ==
  LET q == at[p]
      n == Min({todo[p], MaxBlock})
  IN
  /\ pc[p] = "w_lock"
  /\ wlock[q] = NoOne
  /\ \/ /\ closed[q]
        /\ Step(p, "w_lock", "idle")
        /\ todo' = [todo EXCEPT ![p] = 0]
        /\ UNCHANGED <<blocks, len, starve, wlock, sent>>
     \/ /\ ~closed[q]
        /\ Step(p, "w_lock", IF starve[q] THEN "w_wake" ELSE "w_flow")
        /\ wlock' = [wlock EXCEPT ![q] = p]
        /\ blocks' = [blocks EXCEPT ![q] =
                        Append(@, [data |-> Numbered(p, sent[p], n), alloc |-> n])]
        /\ len' = [len EXCEPT ![q] = @ + n]
        /\ starve' = [starve EXCEPT ![q] = FALSE]
        /\ todo' = [todo EXCEPT ![p] = @ - n]
        /\ sent' = [sent EXCEPT ![p] = @ + n]
  /\ UNCHANGED <<closed, flow, eof, rlock, at, left, got, killed>>

\* Mutated form: nobody is woken.
StartNone(p) == pc' = [pc EXCEPT ![p] = "w_flow"]

\* Wakeup(&q->rr), without Queue.l.
StartReader(p) == pc' = [ReaderWoken(pc, at[p]) EXCEPT ![p] = "w_flow"]

WakeReader(p) ==
  /\ pc[p] = "w_wake"
  /\ StartReader(p)
  /\ UNCHANGED <<queuevars, lockvars, at, todo, datavars, killed>>

\* Mutated form: the writer goes on as long as the queue is not twice full.
PassesTwice(q) == len[q] < 2 * Limit \/ closed[q]

\* The test that lets a writer go on, made without Queue.l.
Passes(q) == Qnotfull(q)

\* qbwrite returns, and qwrite goes on with its next block.
FlowTest(p) ==
  /\ \/ /\ Passes(at[p])
        /\ Step(p, "w_flow", IF todo[p] > 0 THEN "w_lock" ELSE "idle")
        /\ wlock' = [wlock EXCEPT ![at[p]] = NoOne]
     \/ /\ ~Passes(at[p])
        /\ Step(p, "w_flow", "w_mark")
        /\ UNCHANGED wlock
  /\ UNCHANGED <<queuevars, rlock, at, todo, datavars, killed>>

\* Qflow is set under Queue.l, whatever has been read since the test.
FlowMark(p) ==
  /\ Step(p, "w_mark", "w_sleep")
  /\ flow' = [flow EXCEPT ![at[p]] = TRUE]
  /\ UNCHANGED <<blocks, len, closed, starve, eof, lockvars, at, todo, datavars,
                 killed>>

SleepWrite(p) ==
  /\ \/ pc[p] \in {"w_sleep", "w_awake"} /\ Interrupted(p)
     \/ /\ ~killed[p]
        /\ \/ Qnotfull(at[p]) /\ Step(p, "w_sleep", "w_flow")
           \/ ~Qnotfull(at[p]) /\ Step(p, "w_sleep", "w_asleep")
           \/ Step(p, "w_awake", "w_flow")
        /\ UNCHANGED <<lockvars, todo, killed>>
  /\ UNCHANGED <<queuevars, at, datavars>>

\* swiproc.
Interrupt(p) ==
  /\ ~killed[p] /\ killed' = [killed EXCEPT ![p] = TRUE]
  /\ pc' = [pc EXCEPT ![p] = CASE @ = "r_asleep" -> "r_awake"
                               [] @ = "w_asleep" -> "w_awake"
                               [] OTHER -> @]
  /\ UNCHANGED <<queuevars, lockvars, at, todo, datavars>>

ReadStep(p) ==
  \/ QwaitEmpty(p) \/ SleepRead(p) \/ QreadRemove(p) \/ QreadPutback(p)
  \/ Qbread(p) \/ RestartWriter(p)

WriteStep(p) ==
  \/ Qbwrite(p) \/ WakeReader(p) \/ FlowTest(p) \/ FlowMark(p) \/ SleepWrite(p)
=============================================================================
