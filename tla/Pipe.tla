-------------------------------- MODULE Pipe --------------------------------
(***************************************************************************)
(* The pipe device (emu/port/devpipe.c): two queues, one to be read at     *)
(* either end.  Walks and the reference count of the structure itself are  *)
(* left out: a process opens an end, reads and writes, and closes it.      *)
(***************************************************************************)
EXTENDS Qio

CONSTANTS
  Left, Right,      \* processes that open data and data1
  Readers, Writers, \* those of them that read, and that write
  MaxOpens,         \* bound: opens
  MaxKills          \* bound: interrupts

ASSUME PipeAssumption ==
  /\ Queues = {0, 1} /\ Procs = Left \cup Right /\ Left \cap Right = {}

VARIABLES
  qref,       \* Pipe.qref
  plock,      \* owner of Pipe.l
  opened,     \* history: ends opened since the pipe was new
  opens,      \* opens so far
  kills       \* interrupts so far

vars == <<qvars, qref, plock, opened, opens, kills>>
pipevars == <<qref, plock, opened, opens, kills>>

End(p) == IF p \in Left THEN 0 ELSE 1

Init ==
  /\ QInit
  /\ qref = [e \in Queues |-> 0]
  /\ plock = NoOne
  /\ opened = {}
  /\ opens = 0 /\ kills = 0

\* pipeopen.
Pipeopen(p) ==
  /\ opens < MaxOpens /\ opens' = opens + 1
  /\ plock = NoOne
  /\ Step(p, "closed", "idle")
  /\ qref' = [qref EXCEPT ![End(p)] = @ + 1]
  /\ opened' = opened \cup {End(p)}
  /\ UNCHANGED <<queuevars, lockvars, at, todo, datavars, killed, plock, kills>>

\* pipeclose.  The last one at its end goes on to hang up the queue it wrote to
\* and to close the one it read, and keeps Pipe.l meanwhile.
Pipeclose(p) ==
  /\ plock = NoOne
  /\ qref' = [qref EXCEPT ![End(p)] = @ - 1]
  /\ IF qref'[End(p)] = 0
     THEN Step(p, "idle", "c_hang") /\ plock' = p
     ELSE Step(p, "idle", "closed") /\ UNCHANGED plock
  /\ UNCHANGED <<queuevars, lockvars, at, todo, datavars, killed, opened, opens, kills>>

\* The sleepers of queue q are woken; p goes on.
WakeAll(p, q, next) ==
  pc' = [Woken(ReaderWoken(pc, q), {q}, "w_asleep", "w_awake") EXCEPT ![p] = next]

\* qhangup: what the queue holds may still be read.
Qhangup(p) ==
  LET q == 1 - End(p) IN
  /\ pc[p] = "c_hang"
  /\ closed' = [closed EXCEPT ![q] = TRUE]
  /\ WakeAll(p, q, "c_close")
  /\ UNCHANGED <<blocks, len, starve, flow, eof, lockvars, at, todo, datavars,
                 killed, pipevars>>

\* Mutated form: what is on the queue stays.
ReleasedNone(q) == UNCHANGED <<blocks, len>>

\* All blocks are released.
Released(q) ==
  blocks' = [blocks EXCEPT ![q] = <<>>] /\ len' = [len EXCEPT ![q] = 0]

\* qclose.
Qclose(p) ==
  LET q == End(p) IN
  /\ pc[p] = "c_close"
  /\ Released(q)
  /\ closed' = [closed EXCEPT ![q] = TRUE]
  /\ starve' = [starve EXCEPT ![q] = FALSE]
  /\ flow' = [flow EXCEPT ![q] = FALSE]
  /\ WakeAll(p, q, "c_reopen")
  /\ UNCHANGED <<eof, lockvars, at, todo, datavars, killed, pipevars>>

\* If both ends are closed both queues are reopened; nobody uses them.
Qreopen(p) ==
  /\ Step(p, "c_reopen", "closed")
  /\ plock' = NoOne
  /\ IF \A e \in Queues : qref[e] = 0
     THEN /\ closed' = [q \in Queues |-> FALSE]
          /\ starve' = [q \in Queues |-> TRUE]
          /\ eof' = [q \in Queues |-> 0]
          /\ opened' = {}
     ELSE UNCHANGED <<closed, starve, eof, opened>>
  /\ UNCHANGED <<blocks, len, flow, lockvars, at, todo, datavars, killed, qref,
                 opens, kills>>

\* piperead and pipebread.
Piperead(p) == p \in Readers /\ ReadCall(p, End(p)) /\ UNCHANGED pipevars

\* pipewrite and pipebwrite.
Pipewrite(p) ==
  p \in Writers /\ WriteCall(p, 1 - End(p)) /\ UNCHANGED pipevars

Reading(p) == ReadStep(p) /\ UNCHANGED pipevars
Writing(p) == WriteStep(p) /\ UNCHANGED pipevars
Closing(p) == Qhangup(p) \/ Qclose(p) \/ Qreopen(p)

Kill(p) ==
  /\ kills < MaxKills /\ kills' = kills + 1
  /\ Interrupt(p)
  /\ UNCHANGED <<qref, plock, opened, opens>>

Next ==
  \E p \in Procs :
    \/ Pipeopen(p) \/ Pipeclose(p) \/ Piperead(p) \/ Pipewrite(p)
    \/ Reading(p) \/ Writing(p) \/ Closing(p) \/ Kill(p)

Spec == Init /\ [][Next]_vars

\* A process in a call goes on; it need not make one.
FairSpec == Spec /\ \A p \in Procs : WF_vars(Reading(p) \/ Writing(p) \/ Closing(p))

-----------------------------------------------------------------------------
(* Properties                                                              *)

\* Every variable has its type.
TypeOK ==
  /\ \A q \in Queues : \A b \in Range(blocks[q]) : 0 < Len(b.data) /\ Len(b.data) <= b.alloc
  /\ len \in [Queues -> Nat]
  /\ {closed, starve, flow} \subseteq [Queues -> BOOLEAN]
  /\ eof \in [Queues -> 0..4]
  /\ {rlock, wlock} \subseteq [Queues -> Procs \cup {NoOne}]
  /\ pc \in [Procs -> PC]
  /\ at \in [Procs -> Queues]
  /\ todo \in [Procs -> Nat] /\ sent \in [Procs -> 0..MaxSent]
  /\ killed \in [Procs -> BOOLEAN]
  /\ qref \in [Queues -> Nat] /\ plock \in Procs \cup {NoOne}
  /\ \A p \in Procs : got[p].kind \in {"none", "data", "eof"}

\* The queue's length is the memory of its blocks, and exceeds the limit by
\* no more than the block that was accepted below it and one that a reader
\* puts back, and a block for every writer that was interrupted after its
\* block was queued.
NoOvershoot ==
  \A q \in Queues :
    /\ len[q] = FoldLeft(LAMBDA n, b : n + b.alloc, 0, blocks[q])
    /\ len[q] <= Limit - 1 + (2 + kills) * MaxBlock

\* The bytes of queue q that a reader has removed to put back, and those on it.
Held(q) ==
  LET back == {p \in Procs : at[p] = q /\ left[p] # NoBlock}
  IN IF back = {} THEN <<>> ELSE left[CHOOSE p \in back : TRUE].data
Stream(q) == FoldLeft(LAMBDA s, b : s \o b.data, Held(q), blocks[q])

\* A pipe is two streams that keep order, blocks, ends and sessions apart.
Streams == INSTANCE Duplex WITH
  Ends <- Queues,
  stream <- [q \in Queues |-> Stream(q)],
  shut <- {q \in Queues : closed[q]},
  inuse <- {e \in Queues : qref[e] > 0}

TwoStreams == Streams!Spec

\* A queue drained to half its limit, or closed: its writers may go on.
Drained(q) == len[q] < Limit \div 2 \/ closed[q]

\* Nobody sleeps through what it waits for: a reader through data or the end,
\* a writer through a queue that is and stays drained or closed.  (While
\* qread copies, a queue is drained that fills again when it puts back.)
SleepersServed ==
  /\ \A p \in Readers :
       (pc[p] = "r_asleep" /\ Notempty(at[p])) ~> pc[p] # "r_asleep"
  /\ \A p \in Writers :
       (pc[p] = "w_asleep" /\ Drained(at[p]))
         ~> (pc[p] # "w_asleep" \/ ~Drained(at[p]))
=============================================================================
