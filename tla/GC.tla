--------------------------------- MODULE GC ---------------------------------
(***************************************************************************)
(* The heap of the Dis virtual machine: reference counts (libinterp/       *)
(* heap.c), the collector that runs beside them (libinterp/gc.c), and what *)
(* it relies on in the pool allocator (emu/port/alloc.c) and in the        *)
(* scheduler (emu/port/dis.c).                                             *)
(*                                                                         *)
(* Who runs has the VM.  It changes hands between instructions, and when a *)
(* destructor releases it: the closing of a file may take for ever.        *)
(*                                                                         *)
(* The heap is one arena of cells, a block of a record or of a Sys->FD     *)
(* filling one.  A prog's frames are one set of slots; its module link and *)
(* the data of the module are one block, which all the progs share.        *)
(***************************************************************************)
EXTENDS Integers, Sequences, FiniteSets

CONSTANTS
  NCells,     \* size of the arena
  Progs,
  First,      \* the prog of disinit
  Callers,    \* progs that make host calls
  Leavers,    \* progs that exit
  Fields,     \* the pointers of a record, of the module data and of a frame
  Quanta,     \* blocks a call of rungc may look at; the code adapts it
  MaxDepth,   \* depth of the recursion in markheap: 64 in the code
  MaxHalt,    \* depth of that in destroy: 64 in the code
  Nil,        \* H
  Collector   \* the process in rungc

ASSUME GCAssumption ==
  /\ NCells \in Nat \ {0}
  /\ Progs \cap (1..NCells) = {} /\ First \in Progs
  /\ Callers \cup Leavers \subseteq Progs
  /\ Fields # {} /\ Fields \cap {"close", "closing", "M"} = {}
  /\ Quanta \subseteq Nat \ {0} /\ Quanta # {}
  /\ MaxDepth \in Nat \ {0} /\ MaxHalt \in Nat
  /\ Nil \notin (1..NCells) \cup Progs \cup {Collector} /\ Collector \notin Progs

Cells == 1..NCells
Limit == NCells + 1        \* where base ends
MP == 1                    \* the module data
Nodes == Cells \cup Progs  \* what holds pointers: blocks and frames
Nobody == Nil

VARIABLES
  magic,    \* header of each cell: "A", "F", or "0" inside a free block
  kind,     \* what the block is: "rec" or "fd" (Heap.t)
  ref,      \* Heap.ref
  color,    \* Heap.color
  ptrs,     \* the slots of blocks and frames
  alive,    \* progs on isched.head
  cptr,     \* the block a host call of the prog holds
  ptrtab,   \* the blocks of ptradd
  vm,       \* who has the VM
  stack,    \* each prog's calls of destroy: the block, and what is left of it
  gchalt,
  mutator,  \* gccolor % 3
  nprop,
  base,     \* a pass is under way
  ptr,      \* the block the pass stands on
  visit,
  gcpc,     \* where rungc is
  dying,    \* the block whose destructor rungc has called
  marking,  \* its calls of markheap: the node, and the slots left
  rooting,  \* the progs rootset has not come to
  idle,     \* execatidle is running
  left,     \* done - gccolor there
  doomed    \* history: the garbage of when it began, less what has been freed

heapvars == <<magic, kind, ref, color, ptrs>>
progvars == <<alive, cptr, ptrtab, stack>>
passvars == <<base, ptr, visit>>
gcvars == <<gcpc, dying, marking, rooting, idle, left>>
vars == <<heapvars, progvars, vm, gchalt, mutator, nprop, passvars, gcvars, doomed>>

-----------------------------------------------------------------------------
(* Colours and reference counts                                            *)

propagator == 3
sweeper == (mutator + 1) % 3

\* Setmark: the colours after it, and nprop.
Setmark(c, h) == IF h # Nil /\ c[h] # mutator THEN [c EXCEPT ![h] = propagator] ELSE c

Marked(n, h) == IF h # Nil /\ color[h] # mutator THEN TRUE ELSE n

Counted(r, h) == IF h = Nil THEN r ELSE [r EXCEPT ![h] = @ + 1]

-----------------------------------------------------------------------------
(* The pool: free neighbours are joined                                    *)

\* B2NB in the heap of the headers m.
NextBlock(m, b) ==
  CHOOSE c \in b+1..Limit : /\ c = Limit \/ m[c] # "0"
                            /\ \A d \in b+1..c-1 : m[d] = "0"

\* B2PT(b)->hdr.
BlockBefore(b) ==
  CHOOSE c \in 1..b-1 : magic[c] # "0" /\ \A d \in c+1..b-1 : magic[d] = "0"

JoinsForward(b) == b < NCells /\ magic[b+1] = "F"
JoinsBackward(b) == b > 1 /\ magic[BlockBefore(b)] = "F"

\* poolfree: the headers, and ptr, which follows a block that is joined to the
\* one before it.
FreedMagic(b) ==
  [c \in Cells |-> CASE c = b -> IF JoinsBackward(b) THEN "0" ELSE "F"
                     [] c = b + 1 /\ JoinsForward(b) -> "0"
                     [] OTHER -> magic[c]]

PtrLeft(b) == ptr  \* poolfree does not know of ptr

PtrAfterFree(b) ==
  LET joined == IF JoinsForward(b) /\ ptr = b + 1 THEN b ELSE ptr
  IN  IF JoinsBackward(b) /\ joined = b THEN BlockBefore(b) ELSE joined

\* What was in a freed block is forgotten.
Poolfree(b) ==
  /\ magic' = FreedMagic(b)
  /\ kind' = [kind EXCEPT ![b] = "rec"]
  /\ color' = [color EXCEPT ![b] = 0]
  /\ ptrs' = [ptrs EXCEPT ![b] = [f \in Fields |-> Nil]]
  /\ doomed' = doomed \ {b}

\* poolalloc: block b, or the first cell of it, is taken.
Poolalloc(b) ==
  /\ magic[b] = "F"
  /\ magic' = [c \in Cells |-> CASE c = b -> "A"
                                 [] c = b + 1 /\ magic[c] = "0" -> "F"
                                 [] OTHER -> magic[c]]

\* heap and nheap: a block comes in the mutator's colour, with one reference.
Heap(b, k) ==
  /\ Poolalloc(b)
  /\ kind' = [kind EXCEPT ![b] = k]
  /\ color' = [color EXCEPT ![b] = mutator]

-----------------------------------------------------------------------------
(* What can be reached                                                     *)

Exiting == {p \in alive : \E i \in DOMAIN stack[p] : stack[p][i].node = p}
Running == alive \ Exiting

Roots ==
  ( {ptrs[p][f] : p \in Running, f \in Fields} \cup {cptr[p] : p \in Progs}
      \cup (IF Running = {} THEN {} ELSE {MP}) ) \ {Nil}

Closed(S) == \A o \in S, f \in Fields : ptrs[o][f] \in S \cup {Nil}

Live == {o \in Cells : \A S \in SUBSET Cells : Roots \subseteq S /\ Closed(S) => o \in S}

BeingFreed ==
  (UNION {{stack[p][i].node : i \in DOMAIN stack[p]} : p \in Progs}) \cup {dying}

Garbage == {o \in Cells : magic[o] = "A"} \ (Live \cup BeingFreed)

-----------------------------------------------------------------------------
(* destroy                                                                 *)

Todo(b) == IF kind[b] = "fd" THEN {"close"} ELSE Fields

\* destroy(v), called by p with the counts r: the block is kept, or its
\* destructor is called.  below is what p has still to do before.
Drop(p, v, r, below) ==
  LET kept == v = Nil \/ r[v] > 1 \/ gchalt > MaxHalt
  IN  /\ ref' = IF v = Nil THEN r ELSE [r EXCEPT ![v] = @ - 1]
      /\ gchalt' = IF kept THEN gchalt ELSE gchalt + 1
      /\ stack' = [stack EXCEPT ![p] =
                     IF kept THEN below ELSE <<[node |-> v, todo |-> Todo(v)]>> \o below]
      /\ vm' = IF stack'[p] = <<>> THEN Nobody ELSE p

Top(p) == Head(stack[p])
Rest(p, todo) == <<[Top(p) EXCEPT !.todo = todo]>> \o Tail(stack[p])

InDestroy(p) == vm = p /\ stack[p] # <<>>

\* freeptrs comes to a pointer; destroystack to one of a frame.
Freeptr(p) ==
  /\ InDestroy(p)
  /\ \E f \in Top(p).todo \cap Fields :
       Drop(p, ptrs[Top(p).node][f], ref, Rest(p, Top(p).todo \ {f}))
  /\ UNCHANGED <<magic, kind, color, ptrs, alive, cptr, ptrtab, mutator, nprop,
                 passvars, gcvars, doomed>>

\* destroystack, when the frames are gone: the module link.
FreeModule(p) ==
  /\ InDestroy(p) /\ Top(p).todo = {"M"}
  /\ Drop(p, MP, ref, Rest(p, {}))
  /\ UNCHANGED <<magic, kind, color, ptrs, alive, cptr, ptrtab, mutator, nprop,
                 passvars, gcvars, doomed>>

\* freeFD, to its release, and from its acquire on.
FreeFD(p) ==
  /\ InDestroy(p) /\ Top(p).todo = {"close"}
  /\ stack' = [stack EXCEPT ![p] = Rest(p, {"closing"})]
  /\ vm' = Nobody
  /\ UNCHANGED <<heapvars, alive, cptr, ptrtab, gchalt, mutator, nprop, passvars, gcvars, doomed>>

FDClosed(p) ==
  /\ vm = Nobody /\ stack[p] # <<>> /\ Top(p).todo = {"closing"}
  /\ stack' = [stack EXCEPT ![p] = Rest(p, {})]
  /\ vm' = p
  /\ UNCHANGED <<heapvars, alive, cptr, ptrtab, gchalt, mutator, nprop, passvars, gcvars, doomed>>

\* destroy returns: the block is free, or the prog is gone.
Destroyed(p) ==
  /\ InDestroy(p) /\ Top(p).todo = {}
  /\ gchalt' = gchalt - 1
  /\ stack' = [stack EXCEPT ![p] = Tail(@)]
  /\ vm' = IF stack'[p] = <<>> THEN Nobody ELSE p
  /\ IF Top(p).node = p
     THEN /\ alive' = alive \ {p}
          /\ ptrs' = [ptrs EXCEPT ![p] = [f \in Fields |-> Nil]]
          /\ UNCHANGED <<magic, kind, color, ptr, doomed>>
     ELSE /\ Poolfree(Top(p).node)
          /\ ptr' = PtrAfterFree(Top(p).node)
          /\ UNCHANGED alive
  /\ UNCHANGED <<ref, cptr, ptrtab, mutator, nprop, base, visit, gcvars>>

-----------------------------------------------------------------------------
(* Instructions                                                            *)

Runs(p) == vm = Nobody /\ p \in alive /\ stack[p] = <<>> /\ cptr[p] = Nil

\* What p addresses: its frames, the module data and the records it points to.
Places(p) ==
  {p, MP} \cup {o \in {ptrs[p][f] : f \in Fields} \ {Nil} : kind[o] = "rec"}
Values(p) == {Nil} \cup {ptrs[n][f] : n \in Places(p), f \in Fields}

\* movp without its Setmark.
MovpUnmarked(p, n, f, v) ==
  /\ Runs(p) /\ n \in Places(p) /\ v \in Values(p)
  /\ ptrs' = [ptrs EXCEPT ![n][f] = v]
  /\ Drop(p, ptrs[n][f], Counted(ref, v), <<>>)
  /\ UNCHANGED <<magic, kind, color, nprop, alive, cptr, ptrtab, mutator, passvars, gcvars, doomed>>

\* movp: slot f of n takes v.
Movp(p, n, f, v) ==
  /\ Runs(p) /\ n \in Places(p) /\ v \in Values(p)
  /\ color' = Setmark(color, v)
  /\ nprop' = Marked(nprop, v)
  /\ ptrs' = [ptrs EXCEPT ![n][f] = v]
  /\ Drop(p, ptrs[n][f], Counted(ref, v), <<>>)
  /\ UNCHANGED <<magic, kind, alive, cptr, ptrtab, mutator, passvars, gcvars, doomed>>

\* new.
New(p, b, n, f) ==
  /\ Runs(p) /\ n \in Places(p)
  /\ Heap(b, "rec")
  /\ ptrs' = [ptrs EXCEPT ![n][f] = b]
  /\ Drop(p, ptrs[n][f], [ref EXCEPT ![b] = 1], <<>>)
  /\ UNCHANGED <<alive, cptr, ptrtab, mutator, nprop, passvars, gcvars, doomed>>

\* Sys_open: mkfd returns an FD to a slot of the frame that has been emptied.
Open(p, b, f) ==
  /\ Runs(p) /\ ptrs[p][f] = Nil
  /\ Heap(b, "fd")
  /\ ptrs' = [ptrs EXCEPT ![p][f] = b]
  /\ ref' = [ref EXCEPT ![b] = 1]
  /\ UNCHANGED <<progvars, vm, gchalt, mutator, nprop, passvars, gcvars, doomed>>

\* spawn: q gets a module link, and an argument.
Spawn(p, q, f, v) ==
  /\ Runs(p) /\ q \notin alive /\ v \in Values(p)
  /\ alive' = alive \cup {q}
  /\ ptrs' = [ptrs EXCEPT ![q][f] = v]
  /\ ref' = Counted(Counted(ref, MP), v)
  /\ color' = Setmark(Setmark(color, MP), v)
  /\ nprop' = Marked(Marked(nprop, MP), v)
  /\ UNCHANGED <<magic, kind, cptr, ptrtab, stack, vm, gchalt, mutator, passvars, gcvars, doomed>>

\* progexit.
Progexit(p) ==
  /\ Runs(p) /\ p \in Leavers
  /\ gchalt' = gchalt + 1
  /\ stack' = [stack EXCEPT ![p] = <<[node |-> p, todo |-> Fields \cup {"M"}]>>]
  /\ vm' = p
  /\ UNCHANGED <<heapvars, alive, cptr, ptrtab, mutator, nprop, passvars, gcvars, doomed>>

\* srvread, as far as the receive it waits in: nothing but its C variable and
\* ptrtab points to the block it will receive in.
HostCall(p, b) ==
  /\ Runs(p) /\ p \in Callers
  /\ Heap(b, "rec")
  /\ ref' = [ref EXCEPT ![b] = 1]
  /\ cptr' = [cptr EXCEPT ![p] = b]
  /\ ptrtab' = ptrtab \cup {b}
  /\ UNCHANGED <<ptrs, alive, stack, vm, gchalt, mutator, nprop, passvars, gcvars, doomed>>

\* The server s sends a value to it: movtmp.
Deliver(s, p, f, v) ==
  /\ Runs(s) /\ cptr[p] # Nil /\ v \in Values(s) \ {Nil}
  /\ ptrs[cptr[p]][f] = Nil
  /\ ptrs' = [ptrs EXCEPT ![cptr[p]][f] = v]
  /\ ref' = Counted(ref, v)
  /\ color' = Setmark(color, v)
  /\ nprop' = Marked(nprop, v)
  /\ UNCHANGED <<magic, kind, progvars, vm, gchalt, mutator, passvars, gcvars, doomed>>

\* srvread returns.
HostReturn(p) ==
  /\ vm = Nobody /\ cptr[p] # Nil
  /\ ptrtab' = ptrtab \ {cptr[p]}
  /\ cptr' = [cptr EXCEPT ![p] = Nil]
  /\ Drop(p, cptr[p], ref, <<>>)
  /\ UNCHANGED <<magic, kind, color, ptrs, alive, mutator, nprop, passvars, gcvars, doomed>>

-----------------------------------------------------------------------------
(* rungc                                                                   *)

IdleShort == 2  \* gccolor+2

IdleEpochs == 3

\* rungc is called: base and ptr are where it left them, unless the pass has
\* ended or ptr is no header any more.
Rungc(q) ==
  LET at == IF base THEN ptr ELSE 1
  IN  /\ gchalt = 0
      /\ IF magic[at] = "0"
         THEN base' = FALSE /\ UNCHANGED <<ptr, visit, gcpc, vm>>
         ELSE base' = TRUE /\ ptr' = at /\ visit' = q /\ gcpc' = "scan" /\ vm' = Collector

\* It returns: to vmachine, or to the loop of execatidle.
Return ==
  /\ gcpc' = IF idle THEN "loop" ELSE "out"
  /\ vm' = IF idle THEN Collector ELSE Nobody

\* vmachine calls it between two quanta.  Without progs there is none: the system
\* has stopped.
Busy(q) ==
  /\ vm = Nobody /\ alive # {}
  /\ Rungc(q)
  /\ UNCHANGED <<heapvars, progvars, gchalt, mutator, nprop, dying, marking, rooting,
                 idle, left, doomed>>

\* vmachine has no prog to run: execatidle.
Execatidle ==
  /\ vm = Nobody /\ alive # {} /\ gchalt = 0
  /\ vm' = Collector /\ gcpc' = "loop"
  /\ idle' = TRUE /\ left' = IdleEpochs
  /\ doomed' = Garbage
  /\ UNCHANGED <<heapvars, progvars, gchalt, mutator, nprop, passvars, dying, marking, rooting>>

InLoop == vm = Collector /\ gcpc = "loop"

IdleRungc(q) ==
  /\ InLoop /\ left > 0
  /\ Rungc(q)
  /\ UNCHANGED <<heapvars, progvars, gchalt, mutator, nprop, dying, marking, rooting,
                 idle, left, doomed>>

\* The epochs are done, or some prog or process wants the VM.
IdleEnd ==
  /\ InLoop
  /\ vm' = Nobody /\ gcpc' = "out" /\ idle' = FALSE /\ left' = 0 /\ doomed' = {}
  /\ UNCHANGED <<heapvars, progvars, gchalt, mutator, nprop, passvars, dying, marking, rooting>>

\* The block at ptr is done with: on to the next one, p being where ptr is now
\* and m the headers, unless the quantum is used up.
Advance(p, m) ==
  /\ ptr' = NextBlock(m, p)
  /\ base' = (ptr' # Limit)
  /\ IF base' /\ visit' = 0
     THEN Return
     ELSE gcpc' = "scan" /\ vm' = Collector

Scanning == vm = Collector /\ gcpc = "scan" /\ marking = <<>> /\ base

\* What markheap has to go through in a node.
Frame(n, d) ==
  IF n \in Cells /\ kind[n] = "fd" THEN <<>>
  ELSE <<[node |-> n, depth |-> d, todo |-> Fields]>>

\* A grey block: its children are marked, and it is done.
Propagate ==
  /\ Scanning /\ magic[ptr] = "A" /\ color[ptr] = propagator
  /\ visit' = visit - 1
  /\ color' = [color EXCEPT ![ptr] = mutator]
  /\ marking' = Frame(ptr, 1)
  /\ IF marking' = <<>> THEN Advance(ptr, magic) ELSE UNCHANGED <<base, ptr, gcpc, vm>>
  /\ UNCHANGED <<magic, kind, ref, ptrs, progvars, gchalt, mutator, nprop,
                 dying, rooting, idle, left, doomed>>

\* A block left from the epoch before the last one: freed as it is, so that what
\* it points to keeps its count.
Sweep ==
  /\ Scanning /\ magic[ptr] = "A" /\ color[ptr] = sweeper /\ kind[ptr] = "rec"
  /\ visit' = visit - 1
  /\ Poolfree(ptr)
  /\ Advance(PtrAfterFree(ptr), magic')
  /\ UNCHANGED <<ref, progvars, gchalt, mutator, nprop, dying, marking, rooting, idle, left>>

\* One with a destructor that releases the VM, and what follows when that returns.
SweepFD ==
  /\ Scanning /\ magic[ptr] = "A" /\ color[ptr] = sweeper /\ kind[ptr] = "fd"
  /\ visit' = visit - 1
  /\ gchalt' = gchalt + 1
  /\ dying' = ptr
  /\ vm' = Nobody /\ gcpc' = "close"
  /\ UNCHANGED <<heapvars, progvars, mutator, nprop, base, ptr, marking, rooting, idle, left, doomed>>

SweptFD ==
  /\ vm = Nobody /\ gcpc = "close"
  /\ gchalt' = gchalt - 1
  /\ dying' = Nil
  /\ visit' = visit
  /\ Poolfree(dying)
  /\ Advance(PtrAfterFree(dying), magic')
  /\ UNCHANGED <<ref, progvars, mutator, nprop, marking, rooting, idle, left>>

\* Any other block; free ones are not counted.
PassOver ==
  /\ Scanning
  /\ magic[ptr] = "A" => color[ptr] \notin {propagator, sweeper}
  /\ visit' = IF magic[ptr] = "A" THEN visit - 1 ELSE visit
  /\ Advance(ptr, magic)
  /\ UNCHANGED <<heapvars, progvars, gchalt, mutator, nprop, dying, marking, rooting,
                 idle, left, doomed>>

\* markheap comes to a pointer, and goes on into the block while it may; a call
\* with nothing left to do is forgotten.
Markptr ==
  /\ vm = Collector /\ marking # <<>>
  /\ \E f \in Head(marking).todo :
       LET call == Head(marking)
           x == ptrs[call.node][f]
           c == Setmark(color, x)
           grey == x # Nil /\ c[x] = propagator
           enters == grey /\ visit > 0 /\ call.depth < MaxDepth
           here == (IF call.todo = {f} THEN <<>> ELSE <<[call EXCEPT !.todo = @ \ {f}]>>)
                     \o Tail(marking)
       IN  /\ nprop' = Marked(nprop, x)
           /\ visit' = IF grey /\ visit > 0 THEN visit - 1 ELSE visit
           /\ color' = IF enters THEN [c EXCEPT ![x] = mutator] ELSE c
           /\ marking' = IF enters THEN Frame(x, call.depth + 1) \o here ELSE here
  /\ IF marking' = <<>> /\ gcpc = "scan"
     THEN Advance(ptr, magic)
     ELSE UNCHANGED <<base, ptr, gcpc, vm>>
  /\ UNCHANGED <<magic, kind, ref, ptrs, progvars, gchalt, mutator,
                 dying, rooting, idle, left, doomed>>

Passed == vm = Collector /\ gcpc = "scan" /\ marking = <<>> /\ ~base

\* The end of a pass does not reset nprop.
EndPassKept ==
  /\ Passed /\ nprop
  /\ Return
  /\ visit' = 0
  /\ UNCHANGED <<heapvars, progvars, gchalt, mutator, nprop, base, ptr,
                 dying, marking, rooting, idle, left, doomed>>

\* The pass has ended: another one is needed if anything has been made grey since
\* the last one did.
EndPass ==
  /\ Passed /\ nprop
  /\ Return
  /\ nprop' = FALSE
  /\ visit' = 0
  /\ UNCHANGED <<heapvars, progvars, gchalt, mutator, base, ptr,
                 dying, marking, rooting, idle, left, doomed>>

\* The epoch has: the colours change their roles.
EndEpoch ==
  /\ Passed /\ ~nprop
  /\ mutator' = (mutator + 1) % 3
  /\ rooting' = alive
  /\ gcpc' = "roots"
  /\ left' = IF idle THEN left - 1 ELSE left
  /\ UNCHANGED <<heapvars, progvars, vm, gchalt, nprop, passvars, dying, marking, idle, doomed>>

InRootset == vm = Collector /\ gcpc = "roots" /\ marking = <<>>

\* rootset comes to prog p.
Rootset(p) ==
  /\ InRootset /\ p \in rooting
  /\ rooting' = rooting \ {p}
  /\ color' = Setmark(color, MP)
  /\ nprop' = Marked(nprop, MP)
  /\ marking' = Frame(p, 1)
  /\ UNCHANGED <<magic, kind, ref, ptrs, progvars, vm, gchalt, mutator, passvars,
                 gcpc, dying, idle, left, doomed>>

\* ptrmark.
Ptrmark ==
  /\ InRootset /\ rooting = {}
  /\ color' = [h \in Cells |-> IF h \in ptrtab THEN Setmark(color, h)[h] ELSE color[h]]
  /\ nprop' = (nprop \/ \E h \in ptrtab : color[h] # mutator)
  /\ Return
  /\ visit' = 0
  /\ UNCHANGED <<magic, kind, ref, ptrs, progvars, gchalt, mutator, base, ptr,
                 dying, marking, rooting, idle, left, doomed>>

-----------------------------------------------------------------------------

Init ==
  /\ magic = [c \in Cells |-> CASE c = MP -> "A" [] c = MP + 1 -> "F" [] OTHER -> "0"]
  /\ kind = [c \in Cells |-> "rec"]
  /\ ref = [c \in Cells |-> IF c = MP THEN 1 ELSE 0]
  /\ color = [c \in Cells |-> 0]
  /\ ptrs = [n \in Nodes |-> [f \in Fields |-> Nil]]
  /\ alive = {First}
  /\ cptr = [p \in Progs |-> Nil]
  /\ ptrtab = {}
  /\ vm = Nobody
  /\ stack = [p \in Progs |-> <<>>]
  /\ gchalt = 0
  /\ mutator = 0 /\ nprop = FALSE
  /\ base = FALSE /\ ptr = Limit /\ visit = 0
  /\ gcpc = "out" /\ dying = Nil /\ marking = <<>> /\ rooting = {}
  /\ idle = FALSE /\ left = 0 /\ doomed = {}

Instruction ==
  \E p \in Progs :
    \/ \E n \in Places(p), f \in Fields, v \in Values(p) : Movp(p, n, f, v)
    \/ \E b \in Cells, n \in Places(p), f \in Fields : New(p, b, n, f)
    \/ \E b \in Cells, f \in Fields : Open(p, b, f)
    \/ \E q \in Progs, f \in Fields, v \in Values(p) : Spawn(p, q, f, v)
    \/ Progexit(p)
    \/ \E b \in Cells : HostCall(p, b)
    \/ \E q \in Progs, f \in Fields, v \in Values(p) : Deliver(p, q, f, v)
    \/ HostReturn(p)

Destroying(p) == Freeptr(p) \/ FreeModule(p) \/ FreeFD(p) \/ Destroyed(p)

Collecting ==
  \/ \E q \in Quanta : IdleRungc(q)
  \/ IdleEnd
  \/ Propagate \/ Sweep \/ SweepFD \/ PassOver
  \/ Markptr
  \/ EndPass \/ EndEpoch
  \/ (\E p \in Progs : Rootset(p)) \/ Ptrmark

Next ==
  \/ Instruction
  \/ \E p \in Progs : Destroying(p) \/ FDClosed(p)
  \/ \E q \in Quanta : Busy(q)
  \/ Execatidle
  \/ Collecting
  \/ SweptFD

Spec == Init /\ [][Next]_vars

\* Who has the VM goes on; the destructor that the sweep has called returns, and
\* the VM is handed to who has waited longest for it.
FairSpec ==
  /\ Spec
  /\ WF_vars(\E p \in Progs : Destroying(p))
  /\ WF_vars(Collecting)
  /\ SF_vars(SweptFD)

-----------------------------------------------------------------------------

TypeOK ==
  /\ magic \in [Cells -> {"A", "F", "0"}]
  /\ kind \in [Cells -> {"rec", "fd"}]
  /\ ref \in [Cells -> Nat]
  /\ color \in [Cells -> 0..3]
  /\ ptrs \in [Nodes -> [Fields -> Cells \cup {Nil}]]
  /\ alive \subseteq Progs
  /\ cptr \in [Progs -> Cells \cup {Nil}]
  /\ ptrtab \subseteq Cells
  /\ vm \in Progs \cup {Collector, Nobody}
  /\ gchalt \in Nat /\ mutator \in 0..2 /\ nprop \in BOOLEAN
  /\ base \in BOOLEAN /\ ptr \in 1..Limit /\ visit \in Int
  /\ gcpc \in {"out", "loop", "scan", "close", "roots"}
  /\ dying \in Cells \cup {Nil} /\ rooting \subseteq Progs
  /\ idle \in BOOLEAN /\ left \in 0..IdleEpochs /\ doomed \subseteq Cells

\* What a prog, or a host call, can reach is an allocated block, and neither
\* destroy nor the sweep has begun to free it.
ReachableKept == \A o \in Live : magic[o] = "A" /\ o \notin BeingFreed

\* poolfree keeps ptr on a block while it joins blocks between two calls of
\* rungc, which never finds the chain broken.
ScanOnBlock == base => magic[ptr] # "0"

\* gccolor+3: three epochs at idle free all that was garbage when they began.
IdleFreesAll == InLoop /\ left = 0 => doomed = {}

\* execatidle ends, even if progs run during the destructors that it calls.
IdleEnds == idle ~> ~idle
=============================================================================
