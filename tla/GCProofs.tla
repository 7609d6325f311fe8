------------------------------ MODULE GCProofs ------------------------------
(***************************************************************************)
(* Proofs about the heap of the Dis virtual machine, for every size of the *)
(* arena, every set of progs and every bound of the collector.             *)
(*                                                                         *)
(* What has to be kept in view is everything that may hold a pointer: the  *)
(* frames, the blocks, the variables of host calls, the module links, what *)
(* a call of destroy has still to do and what a call of markheap has still *)
(* to mark.  The invariant says of the first four that a reference count   *)
(* is never less than the pointers they hold, and of all of them that the  *)
(* collector has not overlooked any: no block that a pass may free is      *)
(* pointed to by one that it may not.                                      *)
(***************************************************************************)
EXTENDS GC, FiniteSetTheorems, TLAPS

\* An activation of destroy, and one of markheap.
Call == [node : Nodes, todo : SUBSET (Fields \cup {"close", "closing", "M"})]
Mark == [node : Nodes, depth : Nat, todo : SUBSET Fields]

\* The block or prog n is being freed; its pointer f has been dropped.
On(st, n) == \E p \in Progs : \E i \in 1..Len(st[p]) : st[p][i].node = n
Did(st, n, f) ==
  \E p \in Progs : \E i \in 1..Len(st[p]) : st[p][i].node = n /\ f \notin st[p][i].todo

\* The activations of destroy.
Depths(st) == {s \in Progs \X Nat : s[2] \in 1..Len(st[s[1]])}

\* The progs with a module link.
Linked(st, al) == {p \in al : ~Did(st, p, "M")}

White == (mutator + 2) % 3

\* A block that the pass under way frees when it comes to it.
Condemned(o) == base /\ color[o] = sweeper

Kept == {o \in Cells : magic[o] = "A" /\ ~Condemned(o)}
Holders == Progs \cup Kept

\* The references to a block.
SlotRefs(o) ==
  {s \in Nodes \X Fields : s[1] \in Holders /\ ~Did(stack, s[1], s[2]) /\ ptrs[s[1]][s[2]] = o}
HostRefs(o) == {p \in Progs : cptr[p] = o}
LinkRefs(o) == IF o = MP THEN Linked(stack, alive) ELSE {}

\* If v is a block, the sweep passes it over; it has been marked.
Unswept(v) == v \in Cells /\ magic[v] = "A" => color[v] # sweeper
Reached(v) == v \in Cells /\ magic[v] = "A" => color[v] \in {mutator, propagator}

\* What the sweep passes over; what has been scanned, but for what markheap has
\* still to do.
Stays(n) == n \in Cells => magic[n] = "A" /\ color[n] # sweeper
Scanned(n) == IF n \in Cells THEN magic[n] = "A" /\ color[n] = mutator ELSE n \notin rooting
Pending(n, f) == \E i \in 1..Len(marking) : marking[i].node = n /\ f \in marking[i].todo

-----------------------------------------------------------------------------
(* The invariant, in parts                                                 *)

TypeInv ==
  /\ magic \in [Cells -> {"A", "F", "0"}]
  /\ kind \in [Cells -> {"rec", "fd"}]
  /\ ref \in [Cells -> Int]
  /\ color \in [Cells -> 0..3]
  /\ ptrs \in [Nodes -> [Fields -> Cells \cup {Nil}]]
  /\ alive \subseteq Progs
  /\ cptr \in [Progs -> Cells \cup {Nil}]
  /\ ptrtab \subseteq Cells
  /\ vm \in Progs \cup {Collector, Nobody}
  /\ stack \in [Progs -> Seq(Call)]
  /\ gchalt \in Int /\ mutator \in 0..2 /\ nprop \in BOOLEAN
  /\ base \in BOOLEAN /\ visit \in Int
  /\ gcpc \in {"out", "loop", "scan", "close", "roots"}
  /\ dying \in Cells \cup {Nil}
  /\ marking \in Seq(Mark)
  /\ rooting \subseteq Progs
  /\ idle \in BOOLEAN /\ left \in Int /\ doomed \subseteq Cells

\* ptr stands on a header, and on what the destructor is closing.
HeaderInv ==
  /\ magic[MP] # "0"
  /\ ptr \in 1..Limit
  /\ base => ptr \in Cells /\ magic[ptr] # "0"
  /\ gcpc = "close" => base /\ dying = ptr /\ magic[ptr] = "A" /\ color[ptr] = sweeper

\* Where rungc and execatidle are.
ControlInv ==
  /\ vm = Collector <=> gcpc \in {"loop", "scan", "roots"}
  /\ \A p \in Progs : vm = p => stack[p] # <<>>
  /\ dying # Nil => gcpc = "close"
  /\ marking # <<>> => gcpc = "roots" \/ (gcpc = "scan" /\ base)
  /\ gcpc = "roots" => ~base
  /\ rooting # {} => gcpc = "roots"
  /\ rooting \subseteq alive
  /\ idle => gcpc # "out" /\ left \in 0..IdleEpochs
  /\ ~idle => gcpc # "loop" /\ left = 0 /\ doomed = {}
  /\ idle /\ gcpc \in {"scan", "close"} => left > 0

\* The calls of markheap have something left to do, in what has been marked.
MarkInv ==
  /\ marking # <<>> /\ gcpc = "scan" => magic[ptr] = "A" /\ color[ptr] = mutator
  /\ \A i \in 1..Len(marking) :
       /\ marking[i].todo # {}
       /\ marking[i].node \in Cells /\ magic[marking[i].node] = "A" => color[marking[i].node] = mutator

\* gchalt counts the destructors.
HaltInv ==
  /\ IsFiniteSet(Depths(stack))
  /\ gchalt = Cardinality(Depths(stack)) + (IF gcpc = "close" THEN 1 ELSE 0)

\* Nothing is freed twice; a prog frees its own frames, and nothing after that.
StackOK(st) ==
  /\ \A p, q \in Progs : \A i \in 1..Len(st[p]), j \in 1..Len(st[q]) :
       st[p][i].node = st[q][j].node => p = q /\ i = j
  /\ \A p \in Progs : \A i \in 1..Len(st[p]) :
       /\ st[p][i].node \in Progs => st[p][i].node = p /\ i = Len(st[p])
       /\ "M" \in st[p][i].todo => st[p][i].node = p

\* Progs, and their host calls.
ProgInv ==
  /\ \A p \in Progs : stack[p] # <<>> => p \in alive
  /\ \A p \in Progs : cptr[p] # Nil => stack[p] = <<>> /\ p \in alive
  /\ \A p, q \in Progs : cptr[p] # Nil /\ cptr[p] = cptr[q] => p = q
  /\ ptrtab = {cptr[p] : p \in Progs} \ {Nil}
  /\ \A p \in Progs \ alive : \A f \in Fields : ptrs[p][f] = Nil

\* What is no record points to nothing.
BlankInv ==
  /\ \A o \in Cells : magic[o] # "A" => kind[o] = "rec"
  /\ \A o \in Cells : magic[o] # "A" \/ kind[o] = "fd" => \A f \in Fields : ptrs[o][f] = Nil

\* Pointers are to blocks that are kept, and of which none is being freed.
KeptInv ==
  /\ \A n \in Nodes : On(stack, n) => n \in Holders
  /\ \A n \in Holders, f \in Fields :
       ~Did(stack, n, f) => ptrs[n][f] = Nil \/ (ptrs[n][f] \in Kept /\ ~On(stack, ptrs[n][f]))
  /\ \A p \in Progs : cptr[p] # Nil => cptr[p] \in Kept /\ ~On(stack, cptr[p]) /\ kind[cptr[p]] = "rec"
  /\ Linked(stack, alive) # {} => MP \in Kept /\ ~On(stack, MP) /\ kind[MP] = "rec"

\* No count is less than what it counts.
RefInv ==
  /\ \A o \in Cells : ref[o] >= 0
  /\ \A o \in Kept :
       /\ IsFiniteSet(SlotRefs(o)) /\ IsFiniteSet(HostRefs(o)) /\ IsFiniteSet(LinkRefs(o))
       /\ Cardinality(SlotRefs(o)) + Cardinality(HostRefs(o)) + Cardinality(LinkRefs(o)) <= ref[o]

\* The collector overlooks nothing.
EdgeInv ==
  \A n \in Nodes, f \in Fields :
    /\ Stays(n) => Unswept(ptrs[n][f])
    /\ Scanned(n) /\ ~Pending(n, f) => Reached(ptrs[n][f])

RootInv ==
  /\ \A p \in Progs : Unswept(cptr[p]) /\ (gcpc # "roots" => Reached(cptr[p]))
  /\ alive # {} => Unswept(MP) /\ (gcpc # "roots" \/ rooting # alive => Reached(MP))

\* The pass has been there; it leaves no block to sweep, and a grey one only if
\* there will be another pass.
Passed1(o) == (base /\ o < ptr) \/ (~base /\ gcpc = "scan")

PassInv ==
  \A o \in Cells :
    magic[o] = "A" /\ Passed1(o) => color[o] # sweeper /\ (color[o] = propagator => nprop)

\* What was garbage when execatidle began: nothing points to it, and it loses a
\* colour with each epoch.
DoomInv ==
  /\ \A o \in doomed : magic[o] = "A" /\ ~On(stack, o)
  /\ \A n \in Nodes \ doomed, f \in Fields : ptrs[n][f] \notin doomed
  /\ \A p \in Progs : cptr[p] \notin doomed
  /\ MP \notin doomed
  /\ left <= 2 => \A o \in doomed : color[o] \in {White, sweeper}
  /\ left <= 1 => \A o \in doomed : color[o] = sweeper
  /\ left <= 0 => doomed = {}
  /\ left <= 2 => \A i \in 1..Len(marking) : marking[i].node \notin doomed

IInv ==
  /\ TypeInv /\ HeaderInv /\ ControlInv /\ MarkInv /\ HaltInv /\ StackOK(stack)
  /\ ProgInv /\ BlankInv /\ KeptInv /\ RefInv
  /\ EdgeInv /\ RootInv /\ PassInv /\ DoomInv

-----------------------------------------------------------------------------
(* Numbers, sets                                                           *)

\* A set of numbers has a least member.
LEMMA Least ==
  ASSUME NEW T \in SUBSET Nat, T # {}
  PROVE  \E c \in T : \A d \in T : c <= d
  <1>1. IsWellFoundedOn(OpToRel(<, Nat), Nat)
    BY NatLessThanWellFounded
  <1>2. PICK x \in T : \A y \in T : ~ (<<y, x>> \in OpToRel(<, Nat))
    BY <1>1, WFMin
  <1>3. ASSUME NEW y \in T PROVE x <= y
    <2>1. ~ (<<y, x>> \in OpToRel(<, Nat))
      BY <1>2
    <2>. QED
      BY <2>1 DEF OpToRel
  <1>. QED
    BY <1>2, <1>3

\* If it is bounded it has a greatest one.
LEMMA Greatest ==
  ASSUME NEW b \in Nat, NEW T \in SUBSET (1..b), T # {}
  PROVE  \E c \in T : \A d \in T : d <= c
  <1>. DEFINE U == {b - d : d \in T}
  <1>1. U \in SUBSET Nat /\ U # {}
    <2>1. \A d \in T : d \in 1..b /\ b - d \in Nat
      OBVIOUS
    <2>2. PICK d \in T : TRUE
      OBVIOUS
    <2>3. b - d \in U
      OBVIOUS
    <2>. QED
      BY <2>1, <2>3
  <1>2. PICK u \in U : \A w \in U : u <= w
    BY <1>1, Least
  <1>3. PICK c \in T : u = b - c
    BY <1>2
  <1>4. ASSUME NEW d \in T PROVE d <= c
    <2>1. b - d \in U
      OBVIOUS
    <2>2. b - c <= b - d
      BY <2>1, <1>2, <1>3
    <2>. QED
      BY <2>2
  <1>. QED
    BY <1>4

\* A set that gains or loses one element, or none.
LEMMA OneMoves ==
  ASSUME NEW S, IsFiniteSet(S), NEW T, NEW s, T \ {s} = S \ {s}
  PROVE  /\ IsFiniteSet(T)
         /\ Cardinality(S) \in Nat /\ Cardinality(T) \in Nat
         /\ Cardinality(T) + (IF s \in S THEN 1 ELSE 0) = Cardinality(S) + (IF s \in T THEN 1 ELSE 0)
  <1>. DEFINE U == S \ {s}
  <1>1. IsFiniteSet(U) /\ Cardinality(U) = IF s \in S THEN Cardinality(S) - 1 ELSE Cardinality(S)
    BY FS_RemoveElement
  <1>2. T = IF s \in T THEN U \cup {s} ELSE U
    OBVIOUS
  <1>3. /\ IsFiniteSet(U \cup {s})
        /\ Cardinality(U \cup {s}) = Cardinality(U) + 1
    BY <1>1, FS_AddElement
  <1>4. Cardinality(S) \in Nat /\ Cardinality(U) \in Nat
    BY <1>1, FS_CardinalityType
  <1>. HIDE DEF U
  <1>5. CASE s \in T
    <2>1. T = U \cup {s}
      BY <1>2, <1>5
    <2>2. IsFiniteSet(T) /\ Cardinality(T) = Cardinality(U) + 1
      BY <2>1, <1>3
    <2>. QED
      BY <2>2, <1>1, <1>4, <1>5
  <1>6. CASE s \notin T
    <2>1. T = U
      BY <1>2, <1>6
    <2>2. IsFiniteSet(T) /\ Cardinality(T) = Cardinality(U)
      BY <2>1, <1>1
    <2>. QED
      BY <2>2, <1>1, <1>4, <1>6
  <1>. QED
    BY <1>5, <1>6

-----------------------------------------------------------------------------
(* Calls of destroy                                                        *)

\* The kinds of calls.
LEMMA CallFacts ==
  ASSUME NEW e \in Call
  PROVE  /\ e.node \in Nodes
         /\ \A t \in SUBSET (Fields \cup {"close", "closing", "M"}) :
              LET d == [e EXCEPT !.todo = t] IN d \in Call /\ d.node = e.node /\ d.todo = t
  BY DEF Call

\* A destructor is called by p: e is put on top.
Pushes(st, st2, p, e) ==
  /\ st2 \in [Progs -> Seq(Call)] /\ StackOK(st2) /\ st2[p] # <<>>
  /\ \A q \in Progs \ {p} : st2[q] = st[q]
  /\ IsFiniteSet(Depths(st2)) /\ Cardinality(Depths(st2)) = Cardinality(Depths(st)) + 1
  /\ \A n : On(st2, n) <=> On(st, n) \/ n = e.node
  /\ \A n, f : Did(st2, n, f) <=> Did(st, n, f) \/ (n = e.node /\ f \notin e.todo)

\* destroy of a block is called: one call deeper on the stack of p.
LEMMA PushStack ==
  ASSUME NEW st \in [Progs -> Seq(Call)], StackOK(st), IsFiniteSet(Depths(st)),
         NEW p \in Progs, NEW e \in Call, ~On(st, e.node),
         e.node \in Progs => e.node = p /\ st[p] = <<>>,
         "M" \in e.todo => e.node = p,
         NEW st2, st2 = [st EXCEPT ![p] = <<e>> \o st[p]]
  PROVE  Pushes(st, st2, p, e)
  <1>. DEFINE s == st[p]
              t == <<e>> \o s
  <1>1. s \in Seq(Call) /\ Len(s) \in Nat
    OBVIOUS
  <1>2. /\ t \in Seq(Call) /\ Len(t) = Len(s) + 1 /\ t[1] = e
        /\ \A i \in 1..Len(s) : t[i + 1] = s[i]
    BY <1>1
  <1>3. \A i \in 1..Len(t) : i # 1 => i - 1 \in 1..Len(s) /\ t[i] = s[i - 1]
    BY <1>1, <1>2
  <1>4. st2[p] = t /\ \A q \in Progs \ {p} : st2[q] = st[q]
    OBVIOUS
  <1>5. st2 \in [Progs -> Seq(Call)] /\ st2[p] # <<>>
    BY <1>1, <1>2
  <1>. HIDE DEF t
  <1>6. \A n : On(st2, n) <=> On(st, n) \/ n = e.node
    <2>1. ASSUME NEW n, On(st2, n) PROVE On(st, n) \/ n = e.node
      <3>1. PICK q \in Progs : \E i \in 1..Len(st2[q]) : st2[q][i].node = n
        BY <2>1 DEF On
      <3>2. PICK i \in 1..Len(st2[q]) : st2[q][i].node = n
        BY <3>1
      <3>. QED
        BY <3>2, <1>2, <1>3, <1>4 DEF On
    <2>2. ASSUME NEW n, On(st, n) PROVE On(st2, n)
      <3>1. PICK q \in Progs : \E i \in 1..Len(st[q]) : st[q][i].node = n
        BY <2>2 DEF On
      <3>2. PICK i \in 1..Len(st[q]) : st[q][i].node = n
        BY <3>1
      <3>3. CASE q = p
        <4>1. i \in 1..Len(s) /\ s[i].node = n
          BY <3>2, <3>3
        <4>2. i + 1 \in 1..Len(t) /\ t[i + 1] = s[i]
          BY <4>1, <1>1, <1>2
        <4>3. i + 1 \in 1..Len(t) /\ t[i + 1].node = n
          BY <4>1, <4>2
        <4>. QED
          BY <4>3, <1>4 DEF On
      <3>. QED
        BY <3>2, <3>3, <1>4 DEF On
    <2>3. On(st2, e.node)
      <3>1. 1 \in 1..Len(t)
        BY <1>1, <1>2
      <3>. QED
        BY <3>1, <1>2, <1>4 DEF On
    <2>. QED
      BY <2>1, <2>2, <2>3
  <1>7. \A n, f : Did(st2, n, f) <=> Did(st, n, f) \/ (n = e.node /\ f \notin e.todo)
    <2>1. ASSUME NEW n, NEW f, Did(st2, n, f) PROVE Did(st, n, f) \/ (n = e.node /\ f \notin e.todo)
      <3>1. PICK q \in Progs : \E i \in 1..Len(st2[q]) : st2[q][i].node = n /\ f \notin st2[q][i].todo
        BY <2>1 DEF Did
      <3>2. PICK i \in 1..Len(st2[q]) : st2[q][i].node = n /\ f \notin st2[q][i].todo
        BY <3>1
      <3>. QED
        BY <3>2, <1>2, <1>3, <1>4 DEF Did
    <2>2. ASSUME NEW n, NEW f, Did(st, n, f) PROVE Did(st2, n, f)
      <3>1. PICK q \in Progs : \E i \in 1..Len(st[q]) : st[q][i].node = n /\ f \notin st[q][i].todo
        BY <2>2 DEF Did
      <3>2. PICK i \in 1..Len(st[q]) : st[q][i].node = n /\ f \notin st[q][i].todo
        BY <3>1
      <3>3. CASE q = p
        <4>1. i + 1 \in 1..Len(t) /\ t[i + 1].node = n /\ f \notin t[i + 1].todo
          BY <3>2, <3>3, <1>1, <1>2
        <4>. QED
          BY <4>1, <1>4 DEF Did
      <3>. QED
        BY <3>2, <3>3, <1>4 DEF Did
    <2>3. ASSUME NEW f, f \notin e.todo PROVE Did(st2, e.node, f)
      <3>1. 1 \in 1..Len(t)
        BY <1>1, <1>2
      <3>. QED
        BY <2>3, <3>1, <1>2, <1>4 DEF Did
    <2>. QED
      BY <2>1, <2>2, <2>3
  <1>8. StackOK(st2)
    <2>0. \A q \in Progs : \A i \in 1..Len(st2[q]) : (q = p /\ i = 1) \/ st2[q][i].node # e.node
      <3>1. \A q \in Progs : \A i \in 1..Len(st[q]) : st[q][i].node # e.node
        BY DEF On
      <3>2. ASSUME NEW i \in 1..Len(t), i # 1 PROVE t[i].node # e.node
        BY <3>1, <3>2, <1>3
      <3>. QED
        BY <3>1, <3>2, <1>4
    <2>1. ASSUME NEW q \in Progs, NEW r \in Progs, NEW i \in 1..Len(st2[q]), NEW j \in 1..Len(st2[r]),
                 st2[q][i].node = st2[r][j].node
          PROVE  q = r /\ i = j
      <3>1. CASE q = p /\ i = 1
        BY <2>0, <2>1, <3>1, <1>2, <1>4
      <3>2. CASE r = p /\ j = 1
        BY <2>0, <2>1, <3>2, <1>2, <1>4
      <3>3. CASE ~(q = p /\ i = 1) /\ ~(r = p /\ j = 1)
        <4>. DEFINE a == IF q = p THEN i - 1 ELSE i
                    b == IF r = p THEN j - 1 ELSE j
        <4>1. a \in 1..Len(st[q]) /\ st[q][a].node = st2[q][i].node
          BY <3>3, <1>3, <1>4
        <4>2. b \in 1..Len(st[r]) /\ st[r][b].node = st2[r][j].node
          BY <3>3, <1>3, <1>4
        <4>. HIDE DEF a, b
        <4>3. st[q][a].node = st[r][b].node
          BY <2>1, <4>1, <4>2
        <4>4. \A x, y \in Progs : \A k \in 1..Len(st[x]), l \in 1..Len(st[y]) :
                st[x][k].node = st[y][l].node => x = y /\ k = l
          BY DEF StackOK
        <4>5. q = r /\ a = b
          BY ONLY <4>1, <4>2, <4>3, <4>4
        <4>. QED
          BY <4>5, <1>1, <1>2, <1>4 DEF a, b
      <3>. QED
        BY <3>1, <3>2, <3>3
    <2>2. ASSUME NEW q \in Progs, NEW i \in 1..Len(st2[q])
          PROVE  /\ st2[q][i].node \in Progs => st2[q][i].node = q /\ i = Len(st2[q])
                 /\ "M" \in st2[q][i].todo => st2[q][i].node = q
      <3>1. CASE q = p /\ i = 1
        <4>1. st[p] = <<>> => Len(t) = 1
          BY <1>2
        <4>. QED
          BY <3>1, <4>1, <1>2, <1>4
      <3>2. CASE q = p /\ i # 1
        BY <3>2, <1>1, <1>2, <1>3, <1>4 DEF StackOK
      <3>3. CASE q # p
        BY <3>3, <1>4 DEF StackOK
      <3>. QED
        BY <3>1, <3>2, <3>3
    <2>. QED
      BY <2>1, <2>2 DEF StackOK
  <1>9. IsFiniteSet(Depths(st2)) /\ Cardinality(Depths(st2)) = Cardinality(Depths(st)) + 1
    <2>. DEFINE d == <<p, Len(s) + 1>>
    <2>1. d \in Depths(st2) /\ d \notin Depths(st)
      BY <1>1, <1>2, <1>4 DEF Depths
    <2>2. Depths(st2) \ {d} = Depths(st) \ {d}
      BY <1>1, <1>2, <1>4 DEF Depths
    <2>. HIDE DEF d
    <2>3. /\ IsFiniteSet(Depths(st2)) /\ Cardinality(Depths(st)) \in Nat /\ Cardinality(Depths(st2)) \in Nat
          /\ Cardinality(Depths(st2)) + (IF d \in Depths(st) THEN 1 ELSE 0)
               = Cardinality(Depths(st)) + (IF d \in Depths(st2) THEN 1 ELSE 0)
      <3>. DEFINE S == Depths(st)
                  T == Depths(st2)
      <3>1. IsFiniteSet(S) /\ T \ {d} = S \ {d}
        BY <2>2
      <3>. HIDE DEF S, T
      <3>2. /\ IsFiniteSet(T) /\ Cardinality(S) \in Nat /\ Cardinality(T) \in Nat
            /\ Cardinality(T) + (IF d \in S THEN 1 ELSE 0) = Cardinality(S) + (IF d \in T THEN 1 ELSE 0)
        BY ONLY <3>1, OneMoves
      <3>. QED
        BY <3>2 DEF S, T
    <2>. QED
      BY <2>1, <2>3
  <1>. QED
    BY <1>4, <1>5, <1>6, <1>7, <1>8, <1>9 DEF Pushes

\* The call on top of p has t left to do.
Tops(st, st2, p, t) ==
  /\ st2 \in [Progs -> Seq(Call)] /\ StackOK(st2) /\ st2[p] # <<>>
  /\ \A q \in Progs \ {p} : st2[q] = st[q]
  /\ Depths(st2) = Depths(st)
  /\ Head(st[p]) \in Call /\ On(st, Head(st[p]).node)
  /\ \A n : On(st2, n) <=> On(st, n)
  /\ \A n, f : n # Head(st[p]).node => (Did(st2, n, f) <=> Did(st, n, f))
  /\ \A f : Did(st2, Head(st[p]).node, f) <=> f \notin t
  /\ \A f : Did(st, Head(st[p]).node, f) <=> f \notin Head(st[p]).todo

\* The innermost destroy of p gets further.
LEMMA TopStack ==
  ASSUME NEW st \in [Progs -> Seq(Call)], StackOK(st), IsFiniteSet(Depths(st)),
         NEW p \in Progs, st[p] # <<>>,
         NEW t \in SUBSET (Fields \cup {"close", "closing", "M"}),
         "M" \in t => "M" \in Head(st[p]).todo,
         NEW st2, st2 = [st EXCEPT ![p] = <<[Head(st[p]) EXCEPT !.todo = t]>> \o Tail(st[p])]
  PROVE  Tops(st, st2, p, t)
  <1>. DEFINE s == st[p]
              e == Head(s)
              e2 == [e EXCEPT !.todo = t]
              u == <<e2>> \o Tail(s)
  <1>1. s \in Seq(Call) /\ Len(s) \in Nat /\ Len(s) >= 1 /\ e \in Call /\ e = s[1]
    OBVIOUS
  <1>2. e2 \in Call /\ e2.node = e.node /\ e2.todo = t /\ e.node \in Nodes
    BY <1>1, CallFacts
  <1>. HIDE DEF e2
  <1>3. /\ u \in Seq(Call) /\ Len(u) = Len(s) /\ u[1] = e2
        /\ \A i \in 1..Len(s) : i # 1 => u[i] = s[i]
    BY <1>1, <1>2
  <1>4. st2[p] = u /\ \A q \in Progs \ {p} : st2[q] = st[q]
    BY DEF e2
  <1>. HIDE DEF u
  <1>5. st2 \in [Progs -> Seq(Call)] /\ st2[p] # <<>>
    <2>1. u # <<>>
      BY <1>1, <1>3
    <2>2. st2 = [st EXCEPT ![p] = u]
      BY DEF u, e2
    <2>. QED
      BY <2>1, <2>2, <1>3
  <1>6. /\ \A q \in Progs : Len(st2[q]) = Len(st[q])
        /\ \A q \in Progs : \A i \in 1..Len(st[q]) :
             /\ st2[q][i].node = st[q][i].node
             /\ (q = p /\ i = 1) \/ st2[q][i].todo = st[q][i].todo
    BY <1>1, <1>2, <1>3, <1>4
  <1>7. Depths(st2) = Depths(st)
    BY <1>6 DEF Depths
  <1>8. ASSUME NEW n PROVE On(st2, n) <=> On(st, n)
    <2>1. ASSUME NEW q \in Progs, NEW i \in 1..Len(st[q])
          PROVE  i \in 1..Len(st2[q]) /\ st2[q][i].node = st[q][i].node
      BY <1>6
    <2>2. ASSUME NEW q \in Progs, NEW i \in 1..Len(st2[q])
          PROVE  i \in 1..Len(st[q]) /\ st2[q][i].node = st[q][i].node
      BY <1>6
    <2>3. ASSUME On(st, n) PROVE On(st2, n)
      <3>0. PICK q \in Progs : \E i \in 1..Len(st[q]) : st[q][i].node = n
        BY <2>3 DEF On
      <3>1. PICK i \in 1..Len(st[q]) : st[q][i].node = n
        BY <3>0
      <3>. QED
        BY <3>1, <2>1 DEF On
    <2>4. ASSUME On(st2, n) PROVE On(st, n)
      <3>0. PICK q \in Progs : \E i \in 1..Len(st2[q]) : st2[q][i].node = n
        BY <2>4 DEF On
      <3>1. PICK i \in 1..Len(st2[q]) : st2[q][i].node = n
        BY <3>0
      <3>. QED
        BY <3>1, <2>2 DEF On
    <2>. QED
      BY <2>3, <2>4
  <1>9. 1 \in 1..Len(s) /\ st2[p][1].todo = t
    BY <1>1, <1>2, <1>3, <1>4
  <1>10. \A q \in Progs : \A i \in 1..Len(st[q]) : st[q][i].node = e.node => q = p /\ i = 1
    BY <1>1, <1>9 DEF StackOK
  <1>11. ASSUME NEW n, NEW f, n # e.node PROVE Did(st2, n, f) <=> Did(st, n, f)
    <2>1. ASSUME NEW q \in Progs, NEW i \in 1..Len(st[q]), st[q][i].node = n
          PROVE  /\ i \in 1..Len(st2[q])
                 /\ st2[q][i].node = st[q][i].node /\ st2[q][i].todo = st[q][i].todo
      BY <2>1, <1>1, <1>6, <1>11
    <2>2. ASSUME NEW q \in Progs, NEW i \in 1..Len(st2[q]), st2[q][i].node = n
          PROVE  /\ i \in 1..Len(st[q])
                 /\ st2[q][i].node = st[q][i].node /\ st2[q][i].todo = st[q][i].todo
      <3>1. i \in 1..Len(st[q]) /\ st2[q][i].node = st[q][i].node
        BY <1>6
      <3>. QED
        BY <3>1, <2>1, <2>2
    <2>3. ASSUME Did(st, n, f) PROVE Did(st2, n, f)
      <3>0. PICK q \in Progs : \E i \in 1..Len(st[q]) : st[q][i].node = n /\ f \notin st[q][i].todo
        BY <2>3 DEF Did
      <3>1. PICK i \in 1..Len(st[q]) : st[q][i].node = n /\ f \notin st[q][i].todo
        BY <3>0
      <3>. QED
        BY <3>1, <2>1 DEF Did
    <2>4. ASSUME Did(st2, n, f) PROVE Did(st, n, f)
      <3>0. PICK q \in Progs : \E i \in 1..Len(st2[q]) : st2[q][i].node = n /\ f \notin st2[q][i].todo
        BY <2>4 DEF Did
      <3>1. PICK i \in 1..Len(st2[q]) : st2[q][i].node = n /\ f \notin st2[q][i].todo
        BY <3>0
      <3>. QED
        BY <3>1, <2>2 DEF Did
    <2>. QED
      BY <2>3, <2>4
  <1>12. ASSUME NEW f PROVE Did(st2, e.node, f) <=> f \notin t
    <2>1. ASSUME NEW q \in Progs, NEW i \in 1..Len(st2[q]), st2[q][i].node = e.node
          PROVE  q = p /\ i = 1
      BY <2>1, <1>6, <1>10
    <2>2. 1 \in 1..Len(st2[p]) /\ st2[p][1].node = e.node
      BY <1>1, <1>6, <1>9
    <2>. QED
      BY <2>1, <2>2, <1>9 DEF Did
  <1>13. \A f : Did(st, e.node, f) <=> f \notin e.todo
    BY <1>1, <1>9, <1>10 DEF Did
  <1>14. StackOK(st2)
    <2>1. ASSUME NEW q \in Progs, NEW r \in Progs, NEW i \in 1..Len(st2[q]), NEW j \in 1..Len(st2[r]),
                 st2[q][i].node = st2[r][j].node
          PROVE  q = r /\ i = j
      <3>1. st[q][i].node = st[r][j].node /\ i \in 1..Len(st[q]) /\ j \in 1..Len(st[r])
        BY <2>1, <1>6
      <3>. QED
        BY <3>1 DEF StackOK
    <2>2. ASSUME NEW q \in Progs, NEW i \in 1..Len(st2[q])
          PROVE  /\ st2[q][i].node \in Progs => st2[q][i].node = q /\ i = Len(st2[q])
                 /\ "M" \in st2[q][i].todo => st2[q][i].node = q
      <3>1. i \in 1..Len(st[q]) /\ st2[q][i].node = st[q][i].node
        BY <1>6
      <3>2. Len(st2[q]) = Len(st[q])
        BY <1>3, <1>4
      <3>3. "M" \in st2[q][i].todo => "M" \in st[q][i].todo
        BY <3>1, <1>1, <1>6, <1>9
      <3>. QED
        BY <3>1, <3>2, <3>3 DEF StackOK
    <2>. QED
      BY <2>1, <2>2 DEF StackOK
  <1>15. On(st, e.node)
    BY <1>1, <1>9 DEF On
  <1>. QED
    BY <1>1, <1>4, <1>5, <1>7, <1>8, <1>11, <1>12, <1>13, <1>14, <1>15 DEF Tops

\* The call on top of p returns.
Pops(st, st2, p) ==
  /\ st2 \in [Progs -> Seq(Call)] /\ StackOK(st2)
  /\ \A q \in Progs \ {p} : st2[q] = st[q]
  /\ IsFiniteSet(Depths(st2)) /\ Cardinality(Depths(st2)) = Cardinality(Depths(st)) - 1
  /\ Head(st[p]) \in Call /\ On(st, Head(st[p]).node)
  /\ Head(st[p]).node \in Progs => Head(st[p]).node = p /\ st2[p] = <<>>
  /\ \A n : On(st2, n) <=> On(st, n) /\ n # Head(st[p]).node
  /\ \A n, f : Did(st2, n, f) <=> Did(st, n, f) /\ n # Head(st[p]).node
  /\ \A f : Did(st, Head(st[p]).node, f) <=> f \notin Head(st[p]).todo

\* The innermost destroy of p returns.
LEMMA PopStack ==
  ASSUME NEW st \in [Progs -> Seq(Call)], StackOK(st), IsFiniteSet(Depths(st)),
         NEW p \in Progs, st[p] # <<>>,
         NEW st2, st2 = [st EXCEPT ![p] = Tail(@)]
  PROVE  Pops(st, st2, p)
  <1>. DEFINE s == st[p]
              e == Head(s)
              t == Tail(s)
  <1>1. s \in Seq(Call) /\ Len(s) \in Nat /\ Len(s) >= 1 /\ e \in Call /\ e = s[1]
    OBVIOUS
  <1>2. /\ t \in Seq(Call) /\ Len(t) = Len(s) - 1
        /\ \A i \in 1..Len(t) : i + 1 \in 1..Len(s) /\ t[i] = s[i + 1]
    BY <1>1
  <1>3. \A i \in 1..Len(s) : i # 1 => i - 1 \in 1..Len(t) /\ t[i - 1] = s[i]
    BY <1>1, <1>2
  <1>4. st2[p] = t /\ \A q \in Progs \ {p} : st2[q] = st[q]
    OBVIOUS
  <1>5. st2 \in [Progs -> Seq(Call)]
    BY <1>2
  <1>. HIDE DEF t
  <1>6. 1 \in 1..Len(s)
    BY <1>1
  <1>7. \A q \in Progs : \A i \in 1..Len(st[q]) : st[q][i].node = e.node => q = p /\ i = 1
    BY <1>1, <1>6 DEF StackOK
  <1>8. ASSUME NEW q \in Progs, NEW i \in 1..Len(st2[q])
        PROVE  /\ (IF q = p THEN i + 1 ELSE i) \in 1..Len(st[q])
               /\ st[q][IF q = p THEN i + 1 ELSE i] = st2[q][i]
               /\ st2[q][i].node # e.node
    <2>1. CASE q = p
      BY <2>1, <1>1, <1>2, <1>4, <1>7
    <2>2. CASE q # p
      BY <2>2, <1>4, <1>7
    <2>. QED
      BY <2>1, <2>2
  <1>9. ASSUME NEW q \in Progs, NEW i \in 1..Len(st[q]), st[q][i].node # e.node
        PROVE  \E j \in 1..Len(st2[q]) : st2[q][j] = st[q][i]
    <2>1. CASE q = p
      BY <2>1, <1>1, <1>3, <1>4, <1>9
    <2>2. CASE q # p
      BY <2>2, <1>4
    <2>. QED
      BY <2>1, <2>2
  <1>10. ASSUME NEW q \in Progs, NEW i \in 1..Len(st2[q])
         PROVE  st2[q][i].node # e.node /\ \E j \in 1..Len(st[q]) : st[q][j] = st2[q][i]
    BY <1>8
  <1>11. \A n : On(st2, n) <=> On(st, n) /\ n # e.node
    <2>1. ASSUME NEW n, On(st2, n) PROVE On(st, n) /\ n # e.node
      <3>0. PICK q \in Progs : \E i \in 1..Len(st2[q]) : st2[q][i].node = n
        BY <2>1 DEF On
      <3>1. PICK i \in 1..Len(st2[q]) : st2[q][i].node = n
        BY <3>0
      <3>2. PICK j \in 1..Len(st[q]) : st[q][j] = st2[q][i]
        BY <3>1, <1>10
      <3>3. st[q][j].node = n
        BY <3>1, <3>2
      <3>4. st2[q][i].node # e.node
        BY <1>10
      <3>5. n # e.node
        BY <3>1, <3>4
      <3>. HIDE DEF e
      <3>. QED
        BY <3>3, <3>5 DEF On
    <2>2. ASSUME NEW n, On(st, n), n # e.node PROVE On(st2, n)
      <3>0. PICK q \in Progs : \E i \in 1..Len(st[q]) : st[q][i].node = n
        BY <2>2 DEF On
      <3>1. PICK i \in 1..Len(st[q]) : st[q][i].node = n
        BY <3>0
      <3>2. PICK j \in 1..Len(st2[q]) : st2[q][j] = st[q][i]
        BY <2>2, <3>1, <1>9
      <3>3. st2[q][j].node = n
        BY <3>1, <3>2
      <3>. QED
        BY <2>2, <3>3 DEF On
    <2>. QED
      BY <2>1, <2>2
  <1>12. \A n, f : Did(st2, n, f) <=> Did(st, n, f) /\ n # e.node
    <2>1. ASSUME NEW n, NEW f, Did(st2, n, f) PROVE Did(st, n, f) /\ n # e.node
      <3>0. PICK q \in Progs : \E i \in 1..Len(st2[q]) : st2[q][i].node = n /\ f \notin st2[q][i].todo
        BY <2>1 DEF Did
      <3>1. PICK i \in 1..Len(st2[q]) : st2[q][i].node = n /\ f \notin st2[q][i].todo
        BY <3>0
      <3>2. PICK j \in 1..Len(st[q]) : st[q][j] = st2[q][i]
        BY <3>1, <1>10
      <3>3. st[q][j].node = n /\ f \notin st[q][j].todo
        BY <3>1, <3>2
      <3>4. st2[q][i].node # e.node
        BY <1>10
      <3>5. n # e.node
        BY <3>1, <3>4
      <3>. HIDE DEF e
      <3>. QED
        BY <3>3, <3>5 DEF Did
    <2>2. ASSUME NEW n, NEW f, Did(st, n, f), n # e.node PROVE Did(st2, n, f)
      <3>0. PICK q \in Progs : \E i \in 1..Len(st[q]) : st[q][i].node = n /\ f \notin st[q][i].todo
        BY <2>2 DEF Did
      <3>1. PICK i \in 1..Len(st[q]) : st[q][i].node = n /\ f \notin st[q][i].todo
        BY <3>0
      <3>2. PICK j \in 1..Len(st2[q]) : st2[q][j] = st[q][i]
        BY <2>2, <3>1, <1>9
      <3>3. st2[q][j].node = n /\ f \notin st2[q][j].todo
        BY <3>1, <3>2
      <3>. QED
        BY <2>2, <3>3 DEF Did
    <2>. QED
      BY <2>1, <2>2
  <1>13. \A f : Did(st, e.node, f) <=> f \notin e.todo
    BY <1>1, <1>6, <1>7 DEF Did
  <1>14. StackOK(st2)
    <2>1. ASSUME NEW q \in Progs, NEW r \in Progs, NEW i \in 1..Len(st2[q]), NEW j \in 1..Len(st2[r]),
                 st2[q][i].node = st2[r][j].node
          PROVE  q = r /\ i = j
      <3>. DEFINE a == IF q = p THEN i + 1 ELSE i
                  b == IF r = p THEN j + 1 ELSE j
      <3>1. a \in 1..Len(st[q]) /\ st[q][a].node = st2[q][i].node
        BY <1>8
      <3>2. b \in 1..Len(st[r]) /\ st[r][b].node = st2[r][j].node
        BY <1>8
      <3>3. q = r /\ a = b
        BY <2>1, <3>1, <3>2 DEF StackOK
      <3>. QED
        BY <3>3, <1>2, <1>4
    <2>2. ASSUME NEW q \in Progs, NEW i \in 1..Len(st2[q])
          PROVE  /\ st2[q][i].node \in Progs => st2[q][i].node = q /\ i = Len(st2[q])
                 /\ "M" \in st2[q][i].todo => st2[q][i].node = q
      <3>1. CASE q = p
        <4>1. i + 1 \in 1..Len(st[q]) /\ st[q][i + 1] = st2[q][i]
          BY <3>1, <1>8
        <4>. QED
          BY <3>1, <4>1, <1>1, <1>2, <1>4 DEF StackOK
      <3>2. CASE q # p
        BY <3>2, <1>4 DEF StackOK
      <3>. QED
        BY <3>1, <3>2
    <2>. QED
      BY <2>1, <2>2 DEF StackOK
  <1>15. IsFiniteSet(Depths(st2)) /\ Cardinality(Depths(st2)) = Cardinality(Depths(st)) - 1
    <2>. DEFINE d == <<p, Len(s)>>
    <2>1. d \in Depths(st) /\ d \notin Depths(st2)
      BY <1>1, <1>2, <1>4 DEF Depths
    <2>2. Depths(st2) \ {d} = Depths(st) \ {d}
      BY <1>1, <1>2, <1>4 DEF Depths
    <2>. HIDE DEF d
    <2>3. /\ IsFiniteSet(Depths(st2)) /\ Cardinality(Depths(st)) \in Nat /\ Cardinality(Depths(st2)) \in Nat
          /\ Cardinality(Depths(st2)) + (IF d \in Depths(st) THEN 1 ELSE 0)
               = Cardinality(Depths(st)) + (IF d \in Depths(st2) THEN 1 ELSE 0)
      <3>. DEFINE S == Depths(st)
                  T == Depths(st2)
      <3>1. IsFiniteSet(S) /\ T \ {d} = S \ {d}
        BY <2>2
      <3>. HIDE DEF S, T
      <3>2. /\ IsFiniteSet(T) /\ Cardinality(S) \in Nat /\ Cardinality(T) \in Nat
            /\ Cardinality(T) + (IF d \in S THEN 1 ELSE 0) = Cardinality(S) + (IF d \in T THEN 1 ELSE 0)
        BY ONLY <3>1, OneMoves
      <3>. QED
        BY <3>2 DEF S, T
    <2>. QED
      BY <2>1, <2>3
  <1>16. On(st, e.node)
    BY <1>1, <1>6 DEF On
  <1>17. e.node \in Progs => e.node = p /\ st2[p] = <<>>
    <2>1. ASSUME e.node \in Progs PROVE e.node = p /\ 1 = Len(s)
      <3>1. st[p][1].node \in Progs
        BY <2>1, <1>1
      <3>2. st[p][1].node = p /\ 1 = Len(st[p])
        BY <3>1, <1>6 DEF StackOK
      <3>. QED
        BY <3>2, <1>1
    <2>. QED
      BY <2>1, <1>2, <1>4
  <1>. QED
    BY <1>1, <1>4, <1>5, <1>11, <1>12, <1>13, <1>14, <1>15, <1>16, <1>17 DEF Pops

\* p drops a reference to v, and r are the counts: st is what is left of the calls
\* of destroy, and if the reference was the last one the block is put on top of
\* them, which pushed tells.
Dropped(p, v, r, below, st, pushed) ==
  /\ pushed => v \in Cells /\ ref'[v] <= 0
  /\ ref' \in [Cells -> Int]
  /\ \A o \in Cells : ref'[o] = r[o] - (IF o = v THEN 1 ELSE 0)
  /\ stack' \in [Progs -> Seq(Call)] /\ StackOK(stack')
  /\ IsFiniteSet(Depths(stack')) /\ gchalt' \in Int
  /\ gchalt' = Cardinality(Depths(stack')) + (IF gcpc = "close" THEN 1 ELSE 0)
  /\ \A q \in Progs \ {p} : stack'[q] = stack[q]
  /\ stack'[p] # <<>> <=> pushed \/ below # <<>>
  /\ vm' \in Progs \cup {Nobody} /\ \A q \in Progs : vm' = q => stack'[q] # <<>>
  /\ \A n : On(stack', n) <=> On(st, n) \/ (pushed /\ n = v)
  /\ \A n, f : Did(stack', n, f) <=> Did(st, n, f) \/ (pushed /\ n = v /\ f \notin Todo(v))

\* It is, or is not.
Drops(p, v, r, below, st) == \E pushed \in BOOLEAN : Dropped(p, v, r, below, st, pushed)

\* What destroy(v) does: either only the count falls, or one call is pushed.
LEMMA DropFacts ==
  ASSUME NEW p \in Progs, NEW v \in Cells \cup {Nil}, NEW r \in [Cells -> Int], NEW below,
         NEW st, st = [stack EXCEPT ![p] = below], stack \in [Progs -> Seq(Call)],
         st \in [Progs -> Seq(Call)], StackOK(st), IsFiniteSet(Depths(st)),
         v # Nil => ~On(st, v),
         gchalt = Cardinality(Depths(st)) + (IF gcpc = "close" THEN 1 ELSE 0),
         Drop(p, v, r, below)
  PROVE  Drops(p, v, r, below, st)
  <1>. DEFINE kept == v = Nil \/ r[v] > 1 \/ gchalt > MaxHalt
              e == [node |-> v, todo |-> Todo(v)]
  <1>1. Nil \notin Cells /\ "M" \notin Fields /\ Cells \cap Progs = {}
    BY GCAssumption DEF Cells
  <1>2. st[p] = below /\ \A q \in Progs \ {p} : st[q] = stack[q]
    OBVIOUS
  <1>3. vm' \in Progs \cup {Nobody} /\ \A q \in Progs : vm' = q => stack'[q] # <<>>
    <2>1. vm' = IF stack'[p] = <<>> THEN Nobody ELSE p
      BY DEF Drop
    <2>. QED
      BY <2>1, GCAssumption DEF Nobody
  <1>4. Cardinality(Depths(st)) \in Nat /\ gchalt \in Int
    BY FS_CardinalityType
  <1>5. /\ ref' \in [Cells -> Int]
        /\ \A o \in Cells : ref'[o] = r[o] - (IF o = v THEN 1 ELSE 0)
    <2>1. CASE v = Nil
      <3>1. ref' = r
        BY <2>1 DEF Drop
      <3>. QED
        BY <3>1, <2>1, <1>1
    <2>2. CASE v # Nil
      <3>1. ref' = [r EXCEPT ![v] = @ - 1] /\ v \in Cells
        BY <2>2 DEF Drop
      <3>. QED
        BY <3>1
    <2>. QED
      BY <2>1, <2>2
  <1>6. CASE kept
    <2>1. gchalt' = gchalt /\ stack' = st
      BY <1>6 DEF Drop
    <2>2. Dropped(p, v, r, below, st, FALSE)
      BY <2>1, <1>2, <1>3, <1>4, <1>5 DEF Dropped
    <2>. QED
      BY <2>2 DEF Drops
  <1>7. CASE ~kept
    <2>1. v \in Cells /\ r[v] <= 1 /\ gchalt' = gchalt + 1 /\ v \in Nodes
      BY <1>7 DEF Drop, Nodes
    <2>2. stack' = [stack EXCEPT ![p] = <<e>> \o below]
      BY <1>7 DEF Drop
    <2>3. stack' = [st EXCEPT ![p] = <<e>> \o st[p]]
      BY <2>2, <1>2
    <2>4. e \in Call /\ e.node = v /\ e.todo = Todo(v) /\ "M" \notin e.todo
      BY <2>1, <1>1 DEF Call, Todo
    <2>5. ~On(st, e.node) /\ e.node \notin Progs
      BY <2>1, <2>4, <1>1
    <2>. HIDE DEF e
    <2>6. /\ stack' \in [Progs -> Seq(Call)] /\ StackOK(stack') /\ stack'[p] # <<>>
          /\ \A q \in Progs \ {p} : stack'[q] = st[q]
          /\ IsFiniteSet(Depths(stack')) /\ Cardinality(Depths(stack')) = Cardinality(Depths(st)) + 1
          /\ \A n : On(stack', n) <=> On(st, n) \/ n = e.node
          /\ \A n, f : Did(stack', n, f) <=> Did(st, n, f) \/ (n = e.node /\ f \notin e.todo)
      <3>1. Pushes(st, stack', p, e)
        BY <2>3, <2>4, <2>5, PushStack
      <3>. QED
        BY <3>1 DEF Pushes
    <2>7. gchalt' = Cardinality(Depths(stack')) + (IF gcpc = "close" THEN 1 ELSE 0) /\ gchalt' \in Int
      BY <2>1, <2>6, <1>4
    <2>8. \A q \in Progs \ {p} : stack'[q] = stack[q]
      BY <2>6, <1>2
    <2>9. \A n : On(stack', n) <=> On(st, n) \/ n = v
      BY <2>4, <2>6
    <2>10. \A n, f : Did(stack', n, f) <=> Did(st, n, f) \/ (n = v /\ f \notin Todo(v))
      BY <2>4, <2>6
    <2>11. ref'[v] <= 0
      BY <2>1, <1>5
    <2>12. Dropped(p, v, r, below, st, TRUE)
      BY <2>1, <2>6, <2>7, <2>8, <2>9, <2>10, <2>11, <1>3, <1>5 DEF Dropped
    <2>. QED
      BY <2>12 DEF Drops
  <1>. QED
    BY <1>6, <1>7

-----------------------------------------------------------------------------
(* The pool                                                                *)

\* B2NB finds the next header.
LEMMA NextBlockFact ==
  ASSUME NEW m, NEW b \in Cells
  PROVE  /\ NextBlock(m, b) \in b+1..Limit
         /\ NextBlock(m, b) = Limit \/ m[NextBlock(m, b)] # "0"
         /\ \A d \in Int : b < d /\ d < NextBlock(m, b) => m[d] = "0"
  <1>. DEFINE T == {c \in b+1..Limit : c = Limit \/ m[c] # "0"}
  <1>1. NCells \in Nat /\ b \in 1..NCells
    BY GCAssumption DEF Cells
  <1>2. Limit \in T /\ T \subseteq Nat
    BY <1>1 DEF Limit
  <1>3. PICK c \in T : \A d \in T : c <= d
    BY <1>2, Least
  <1>4. \A d \in b+1..c-1 : m[d] = "0"
    <2>1. ASSUME NEW d \in b+1..c-1, m[d] # "0" PROVE FALSE
      <3>1. d \in T
        BY <2>1, <1>1, <1>2, <1>3
      <3>. QED
        BY <3>1, <1>1, <1>2, <1>3
    <2>. QED
      BY <2>1
  <1>5. \E x \in b+1..Limit : (x = Limit \/ m[x] # "0") /\ \A d \in b+1..x-1 : m[d] = "0"
    BY <1>3, <1>4
  <1>6. /\ NextBlock(m, b) \in b+1..Limit
        /\ NextBlock(m, b) = Limit \/ m[NextBlock(m, b)] # "0"
        /\ \A d \in b+1..NextBlock(m, b) - 1 : m[d] = "0"
    BY <1>5 DEF NextBlock
  <1>7. \A d \in Int : b < d /\ d < NextBlock(m, b) => d \in b+1..NextBlock(m, b) - 1
    BY <1>1, <1>6, Limit \in Nat DEF Limit
  <1>. QED
    BY <1>6, <1>7

\* B2PT finds the one before.
LEMMA BlockBeforeFact ==
  ASSUME NEW b \in Cells, b > 1, magic[MP] # "0"
  PROVE  BlockBefore(b) \in 1..b-1 /\ magic[BlockBefore(b)] # "0"
  <1>. DEFINE T == {c \in 1..b-1 : magic[c] # "0"}
  <1>1. b \in Nat /\ b - 1 \in Nat
    BY GCAssumption DEF Cells
  <1>2. 1 \in T /\ T \subseteq 1..b-1
    BY <1>1 DEF MP
  <1>3. PICK c \in T : \A d \in T : d <= c
    BY <1>1, <1>2, Greatest
  <1>4. \A d \in c+1..b-1 : magic[d] = "0"
    <2>1. ASSUME NEW d \in c+1..b-1, magic[d] # "0" PROVE FALSE
      <3>1. d \in T
        BY <2>1, <1>1, <1>2, <1>3
      <3>. QED
        BY <3>1, <1>1, <1>2, <1>3
    <2>. QED
      BY <2>1
  <1>5. \E x \in 1..b-1 : magic[x] # "0" /\ \A d \in x+1..b-1 : magic[d] = "0"
    BY <1>3, <1>4
  <1>. QED
    BY <1>5 DEF BlockBefore

\* poolfree: the block is no more, the others are what they were, and ptr stays
\* on a header, if it was on one.
LEMMA PoolfreeFact ==
  ASSUME magic \in [Cells -> {"A", "F", "0"}], magic[MP] # "0", NEW b \in Cells,
         ptr \in 1..Limit
  PROVE  /\ FreedMagic(b) \in [Cells -> {"A", "F", "0"}]
         /\ FreedMagic(b)[MP] # "0" /\ FreedMagic(b)[b] # "A"
         /\ \A c \in Cells \ {b} : FreedMagic(b)[c] = "A" <=> magic[c] = "A"
         /\ PtrAfterFree(b) \in 1..Limit /\ PtrAfterFree(b) <= ptr
         /\ ptr \in Cells => PtrAfterFree(b) \in Cells
         /\ ptr \in Cells /\ magic[ptr] # "0" => FreedMagic(b)[PtrAfterFree(b)] # "0"
         /\ ptr # b /\ (ptr \in Cells => magic[ptr] = "A") => PtrAfterFree(b) = ptr
  <1>1. NCells \in Nat /\ NCells >= 1 /\ b \in 1..NCells /\ MP \in Cells /\ MP = 1 /\ Limit = NCells + 1
    BY GCAssumption DEF Cells, MP, Limit
  <1>2. /\ FreedMagic(b) \in [Cells -> {"A", "F", "0"}]
        /\ FreedMagic(b)[b] = IF JoinsBackward(b) THEN "0" ELSE "F"
        /\ \A c \in Cells \ {b} :
             FreedMagic(b)[c] = IF c = b + 1 /\ JoinsForward(b) THEN "0" ELSE magic[c]
    <2>1. FreedMagic(b) \in [Cells -> {"A", "F", "0"}]
      BY DEF FreedMagic
    <2>2. FreedMagic(b)[b] = IF JoinsBackward(b) THEN "0" ELSE "F"
      <3>1. b # b + 1
        BY <1>1
      <3>2. CASE JoinsBackward(b)
        BY <3>1, <3>2 DEF FreedMagic
      <3>3. CASE ~JoinsBackward(b)
        BY <3>1, <3>3 DEF FreedMagic
      <3>. QED
        BY <3>2, <3>3
    <2>3. ASSUME NEW c \in Cells \ {b}
          PROVE  FreedMagic(b)[c] = IF c = b + 1 /\ JoinsForward(b) THEN "0" ELSE magic[c]
      <3>1. CASE c = b + 1 /\ JoinsForward(b)
        BY <3>1 DEF FreedMagic
      <3>2. CASE ~(c = b + 1 /\ JoinsForward(b))
        BY <3>2 DEF FreedMagic
      <3>. QED
        BY <3>1, <3>2
    <2>. QED
      BY <2>1, <2>2, <2>3
  <1>3. FreedMagic(b)[MP] # "0" /\ FreedMagic(b)[b] # "A"
    BY <1>1, <1>2 DEF JoinsBackward
  <1>4. \A c \in Cells \ {b} : FreedMagic(b)[c] = "A" <=> magic[c] = "A"
    BY <1>1, <1>2 DEF JoinsForward
  <1>. DEFINE joined == IF JoinsForward(b) /\ ptr = b + 1 THEN b ELSE ptr
  <1>5. /\ joined \in 1..Limit /\ joined <= ptr
        /\ ptr \in Cells => joined \in Cells
        /\ joined # b /\ ptr \in Cells /\ magic[ptr] # "0" => FreedMagic(b)[joined] # "0"
        /\ ptr # b /\ (ptr \in Cells => magic[ptr] = "A") => joined = ptr
    <2>1. CASE JoinsForward(b) /\ ptr = b + 1
      BY <2>1, <1>1 DEF JoinsForward, Cells
    <2>2. CASE ~(JoinsForward(b) /\ ptr = b + 1)
      BY <2>2, <1>1, <1>2
    <2>. QED
      BY <2>1, <2>2
  <1>6. PtrAfterFree(b) = IF JoinsBackward(b) /\ joined = b THEN BlockBefore(b) ELSE joined
    BY DEF PtrAfterFree
  <1>. HIDE DEF joined
  <1>7. CASE JoinsBackward(b) /\ joined = b
    <2>1. BlockBefore(b) \in 1..b-1 /\ magic[BlockBefore(b)] # "0"
      BY <1>7, BlockBeforeFact DEF JoinsBackward
    <2>2. BlockBefore(b) \in Cells \ {b} /\ BlockBefore(b) # b + 1
      BY <2>1, <1>1 DEF Cells
    <2>3. FreedMagic(b)[BlockBefore(b)] # "0"
      BY <2>1, <2>2, <1>2
    <2>4. BlockBefore(b) \in 1..Limit /\ BlockBefore(b) <= ptr
      BY <2>1, <1>1, <1>5, <1>7
    <2>. QED
      BY <2>2, <2>3, <2>4, <1>1, <1>2, <1>3, <1>4, <1>5, <1>6, <1>7
  <1>8. CASE ~(JoinsBackward(b) /\ joined = b)
    <2>1. PtrAfterFree(b) = joined
      BY <1>6, <1>8
    <2>2. joined = b => FreedMagic(b)[joined] # "0"
      BY <1>2, <1>8
    <2>. QED
      BY <2>1, <2>2, <1>2, <1>3, <1>4, <1>5
  <1>. QED
    BY <1>7, <1>8

\* poolalloc.
LEMMA PoolallocFact ==
  ASSUME magic \in [Cells -> {"A", "F", "0"}], NEW b \in Cells, Poolalloc(b)
  PROVE  /\ magic' \in [Cells -> {"A", "F", "0"}]
         /\ magic[b] # "A" /\ magic'[b] = "A"
         /\ \A c \in Cells : magic[c] # "0" => magic'[c] # "0"
         /\ \A c \in Cells \ {b} : magic'[c] = "A" <=> magic[c] = "A"
  BY DEF Poolalloc

\* The three colours of an epoch, and the fourth one, differ.
LEMMA ColourFacts ==
  ASSUME mutator \in 0..2
  PROVE  /\ sweeper \in 0..2 /\ White \in 0..2
         /\ sweeper # mutator /\ White # mutator /\ White # sweeper
         /\ propagator = 3
         /\ {mutator, sweeper, White, propagator} = 0..3
  BY DEF sweeper, White, propagator

-----------------------------------------------------------------------------
(* What an action that leaves things alone preserves                       *)

\* The constants are told apart.
LEMMA Constants ==
  /\ NCells \in Nat /\ NCells >= 1 /\ Limit = NCells + 1 /\ MP = 1
  /\ MP \in Cells /\ Nil \notin Cells /\ Cells \cap Progs = {}
  /\ Cells \subseteq Nodes /\ Progs \subseteq Nodes /\ Nodes = Cells \cup Progs
  /\ Fields # {} /\ Fields \cap {"close", "closing", "M"} = {}
  /\ Nil \notin Progs /\ Collector \notin Progs /\ Nobody = Nil /\ Nobody # Collector
  BY GCAssumption DEF Cells, Nodes, MP, Limit, Nobody

\* Nothing holds a reference that did not, and the heap is the same.
LEMMA KeptFrame ==
  ASSUME IInv, UNCHANGED <<magic, kind, ref, ptrs, alive, cptr, ptrtab, stack>>, Kept' = Kept
  PROVE  StackOK(stack)' /\ ProgInv' /\ BlankInv' /\ KeptInv' /\ RefInv'
  <1>1. StackOK(stack)' /\ ProgInv' /\ BlankInv'
    BY DEF IInv, StackOK, ProgInv, BlankInv
  <1>2. /\ Holders' = Holders
        /\ \A n : On(stack', n) <=> On(stack, n)
        /\ \A n, f : Did(stack', n, f) <=> Did(stack, n, f)
        /\ Linked(stack', alive') = Linked(stack, alive)
    BY DEF Holders
  <1>3. KeptInv'
    BY <1>2 DEF IInv, KeptInv
  <1>4. ASSUME NEW o PROVE SlotRefs(o)' = SlotRefs(o) /\ HostRefs(o)' = HostRefs(o) /\ LinkRefs(o)' = LinkRefs(o)
    BY <1>2 DEF SlotRefs, HostRefs, LinkRefs
  <1>5. RefInv'
    BY <1>4 DEF IInv, RefInv
  <1>. QED
    BY <1>1, <1>3, <1>5

\* No destructor runs: nothing is being freed.
LEMMA NoDepths ==
  ASSUME TypeInv, HaltInv, gchalt = 0
  PROVE  gcpc # "close" /\ \A n : ~On(stack, n)
  <1>1. Cardinality(Depths(stack)) \in Nat
    BY FS_CardinalityType DEF HaltInv
  <1>2. Cardinality(Depths(stack)) = 0 /\ gcpc # "close"
    BY <1>1 DEF HaltInv
  <1>3. Depths(stack) = {}
    BY <1>2, FS_EmptySet DEF HaltInv
  <1>4. ASSUME NEW n, On(stack, n) PROVE FALSE
    <2>1. PICK p \in Progs : \E i \in 1..Len(stack[p]) : stack[p][i].node = n
      BY <1>4 DEF On
    <2>2. PICK i \in 1..Len(stack[p]) : TRUE
      BY <2>1
    <2>3. <<p, i>> \in Depths(stack)
      BY <2>2 DEF Depths
    <2>. QED
      BY <2>3, <1>3
  <1>. QED
    BY <1>2, <1>4

\* What no colour, no pointer and no root changes.
LEMMA EdgeFrame ==
  ASSUME IInv, UNCHANGED <<magic, color, mutator, ptrs, marking, rooting, cptr, stack, alive>>,
         gcpc = "roots" <=> gcpc' = "roots"
  PROVE  EdgeInv' /\ RootInv'
  <1>1. EdgeInv'
    BY DEF IInv, EdgeInv, Stays, Scanned, Pending, Unswept, Reached, sweeper
  <1>2. RootInv'
    BY DEF IInv, RootInv, Unswept, Reached, sweeper
  <1>. QED
    BY <1>1, <1>2

\* rungc is called.
LEMMA RungcStep ==
  ASSUME IInv, NEW q \in Quanta, Rungc(q),
         gcpc \notin {"roots", "scan"}, idle => left > 0,
         UNCHANGED <<heapvars, progvars, gchalt, mutator, nprop, dying, marking, rooting,
                     idle, left, doomed>>
  PROVE  IInv'
  <1>. USE DEF heapvars, progvars
  <1>1. gchalt = 0 /\ gcpc # "close" /\ \A n : ~On(stack, n)
    BY NoDepths DEF IInv, Rungc
  <1>. DEFINE at == IF base THEN ptr ELSE 1
  <1>2. at \in Cells /\ magic[at] # "0"
    BY Constants DEF IInv, HeaderInv
  <1>3. base' = TRUE /\ ptr' = at /\ visit' = q /\ gcpc' = "scan" /\ vm' = Collector
    BY <1>2 DEF Rungc
  <1>4. marking = <<>> /\ rooting = {}
    BY <1>1 DEF IInv, ControlInv
  <1>5. TypeInv'
    BY <1>3, GCAssumption DEF IInv, TypeInv
  <1>6. HeaderInv'
    BY <1>2, <1>3, Constants DEF IInv, HeaderInv, Cells
  <1>7. ControlInv'
    <2>1. \A p \in Progs : vm' # p
      BY <1>3, Constants
    <2>2. dying = Nil
      BY <1>1 DEF IInv, ControlInv
    <2>. QED
      BY <1>3, <1>4, <2>1, <2>2 DEF IInv, ControlInv
  <1>8. MarkInv'
    BY <1>4 DEF IInv, MarkInv
  <1>9. HaltInv'
    BY <1>1, <1>3 DEF IInv, HaltInv
  <1>10. EdgeInv' /\ RootInv'
    BY <1>3, EdgeFrame DEF IInv
  <1>11. PassInv'
    <2>1. ASSUME NEW o \in Cells, magic[o] = "A", o < at
          PROVE  color[o] # sweeper /\ (color[o] = propagator => nprop)
      <3>1. base
        BY <2>1, Constants DEF Cells
      <3>. QED
        BY <2>1, <3>1 DEF IInv, PassInv, Passed1
    <2>. QED
      BY <2>1, <1>3 DEF PassInv, Passed1, sweeper, propagator
  <1>12. DoomInv'
    BY DEF IInv, DoomInv, White, sweeper
  <1>13. StackOK(stack)' /\ ProgInv' /\ BlankInv'
    BY DEF IInv, StackOK, ProgInv, BlankInv
  <1>14. Kept' = {o \in Cells : magic[o] = "A" /\ color[o] # sweeper} /\ Kept' \subseteq Kept
    BY <1>3 DEF Kept, Condemned, sweeper
  <1>15. /\ \A n \in Holders' : n \in Holders /\ Stays(n) /\ n \in Nodes
         /\ \A v \in Kept : Unswept(v) => v \in Kept'
    BY <1>14, Constants DEF Holders, Stays, Unswept, Kept
  <1>16. KeptInv'
    <2>1. ASSUME NEW n \in Holders', NEW f \in Fields, ~Did(stack, n, f), ptrs[n][f] # Nil
          PROVE  ptrs[n][f] \in Kept'
      <3>1. ptrs[n][f] \in Kept
        BY <2>1, <1>15 DEF IInv, KeptInv
      <3>2. Unswept(ptrs[n][f])
        BY <2>1, <1>15 DEF IInv, EdgeInv
      <3>. QED
        BY <3>1, <3>2, <1>15
    <2>2. ASSUME NEW p \in Progs, cptr[p] # Nil PROVE cptr[p] \in Kept' /\ kind[cptr[p]] = "rec"
      BY <2>2, <1>15 DEF IInv, KeptInv, RootInv
    <2>3. ASSUME Linked(stack, alive) # {} PROVE MP \in Kept' /\ kind[MP] = "rec"
      <3>1. alive # {}
        BY <2>3 DEF Linked
      <3>. QED
        BY <2>3, <3>1, <1>15 DEF IInv, KeptInv, RootInv
    <2>. QED
      BY <2>1, <2>2, <2>3, <1>1 DEF KeptInv
  <1>17. RefInv'
    <2>1. ASSUME NEW o \in Kept'
          PROVE  /\ IsFiniteSet(SlotRefs(o)') /\ IsFiniteSet(HostRefs(o)') /\ IsFiniteSet(LinkRefs(o)')
                 /\ Cardinality(SlotRefs(o)') + Cardinality(HostRefs(o)') + Cardinality(LinkRefs(o)') <= ref[o]
      <3>1. SlotRefs(o)' \subseteq SlotRefs(o) /\ HostRefs(o)' = HostRefs(o) /\ LinkRefs(o)' = LinkRefs(o)
        BY <1>15 DEF SlotRefs, HostRefs, LinkRefs
      <3>2. /\ IsFiniteSet(SlotRefs(o)) /\ IsFiniteSet(HostRefs(o)) /\ IsFiniteSet(LinkRefs(o))
            /\ Cardinality(SlotRefs(o)) + Cardinality(HostRefs(o)) + Cardinality(LinkRefs(o)) <= ref[o]
        BY <1>14 DEF IInv, RefInv
      <3>3. IsFiniteSet(SlotRefs(o)') /\ Cardinality(SlotRefs(o)') <= Cardinality(SlotRefs(o))
        BY <3>1, <3>2, FS_Subset
      <3>4. /\ Cardinality(SlotRefs(o)') \in Nat /\ Cardinality(SlotRefs(o)) \in Nat
            /\ Cardinality(HostRefs(o)) \in Nat /\ Cardinality(LinkRefs(o)) \in Nat
        BY <3>2, <3>3, FS_CardinalityType
      <3>5. ref[o] \in Int
        BY <1>14 DEF IInv, TypeInv, Kept
      <3>. QED
        BY <3>1, <3>2, <3>3, <3>4, <3>5
    <2>. QED
      BY <2>1 DEF IInv, RefInv
  <1>. QED
    BY <1>5, <1>6, <1>7, <1>8, <1>9, <1>10, <1>11, <1>12, <1>13, <1>16, <1>17 DEF IInv

\* rungc, because a prog is to run next.
LEMMA BusyStep ==
  ASSUME IInv, NEW q \in Quanta, Busy(q)
  PROVE  IInv'
  <1>1. gcpc \notin {"roots", "scan"} /\ ~idle
    <2>1. vm # Collector
      BY Constants DEF Busy
    <2>2. gcpc \notin {"loop", "scan", "roots"}
      BY <2>1 DEF IInv, ControlInv
    <2>3. gcpc # "close"
      BY NoDepths DEF IInv, Busy, Rungc
    <2>. QED
      BY <2>2, <2>3 DEF IInv, ControlInv, TypeInv
  <1>. QED
    BY <1>1, RungcStep DEF Busy

\* rungc, from execatidle.
LEMMA IdleRungcStep ==
  ASSUME IInv, NEW q \in Quanta, IdleRungc(q)
  PROVE  IInv'
  BY RungcStep DEF IdleRungc, InLoop

\* What marking a block changes: nothing that is swept, and what was reached is.
LEMMA MarkingFacts ==
  ASSUME TypeInv, color' \in [Cells -> 0..3], UNCHANGED <<magic, mutator>>,
         \A h \in Cells : color'[h] = color[h]
                          \/ (Unswept(h) /\ color[h] # mutator /\ color'[h] \in {mutator, propagator})
  PROVE  /\ sweeper' = sweeper /\ propagator' = propagator /\ White' = White
         /\ \A v : Unswept(v) => Unswept(v)'
         /\ \A v : Reached(v) => Reached(v)'
         /\ \A n : Stays(n)' => Stays(n)
         /\ \A h \in Cells : color[h] = mutator => color'[h] = mutator
         /\ \A h \in Cells : magic[h] = "A" => (color'[h] # sweeper <=> color[h] # sweeper)
  <1>1. sweeper' = sweeper /\ propagator' = propagator /\ White' = White
    BY DEF sweeper, propagator, White
  <1>2. sweeper # mutator /\ sweeper # propagator /\ mutator # propagator
    BY ColourFacts DEF TypeInv
  <1>3. \A h \in Cells : magic[h] = "A" => (color'[h] # sweeper <=> color[h] # sweeper)
    BY <1>2 DEF Unswept
  <1>4. \A v : Unswept(v) => Unswept(v)'
    BY <1>1, <1>3 DEF Unswept
  <1>5. \A v : Reached(v) => Reached(v)'
    BY <1>1 DEF Reached
  <1>6. \A n : Stays(n)' => Stays(n)
    BY <1>1, <1>3 DEF Stays
  <1>. QED
    BY <1>1, <1>3, <1>4, <1>5, <1>6

\* The pass goes on to the next block, and all it leaves behind has been dealt
\* with; p is where ptr stands, in the heap as it is after the step.
LEMMA AdvanceFact ==
  ASSUME NEW p \in Cells, Advance(p, magic'), visit' \in Int, idle \in BOOLEAN, idle' = idle,
         \A o \in Cells : magic'[o] = "A" /\ o <= p
                            => color'[o] # sweeper' /\ (color'[o] = propagator' => nprop')
  PROVE  /\ base' \in BOOLEAN /\ ptr' \in 1..Limit
         /\ base' => ptr' \in Cells /\ magic'[ptr'] # "0"
         /\ gcpc' = "scan" \/ (base' /\ gcpc' = IF idle THEN "loop" ELSE "out")
         /\ vm' \in {Collector, Nobody} /\ (vm' = Collector <=> gcpc' \in {"loop", "scan"})
         /\ PassInv'
         /\ Kept' = {o \in Cells : magic'[o] = "A" /\ color'[o] # sweeper'}
  <1>1. /\ ptr' \in p+1..Limit
        /\ ptr' = Limit \/ magic'[ptr'] # "0"
        /\ \A d \in Int : p < d /\ d < ptr' => magic'[d] = "0"
    BY NextBlockFact DEF Advance
  <1>2. base' = (ptr' # Limit)
    BY DEF Advance
  <1>3. ptr' \in 1..Limit /\ (ptr' # Limit => ptr' \in Cells)
    BY <1>1, Constants DEF Cells
  <1>4. /\ gcpc' = "scan" \/ (base' /\ gcpc' = IF idle THEN "loop" ELSE "out")
        /\ vm' \in {Collector, Nobody} /\ (vm' = Collector <=> gcpc' \in {"loop", "scan"})
    <2>1. CASE base' /\ visit' = 0
      BY <2>1, Constants DEF Advance, Return
    <2>2. CASE ~(base' /\ visit' = 0)
      BY <2>2, Constants DEF Advance
    <2>. QED
      BY <2>1, <2>2
  <1>5. ASSUME NEW o \in Cells, magic'[o] = "A", o < ptr'
        PROVE  color'[o] # sweeper' /\ (color'[o] = propagator' => nprop')
    <2>1. o <= p
      <3>1. o \in Int /\ p \in Int /\ ptr' \in Int
        BY <1>3, Constants DEF Cells
      <3>2. CASE o > p
        <4>1. magic'[o] = "0"
          BY <3>1, <3>2, <1>1, <1>5
        <4>. QED
          BY <4>1, <1>5
      <3>. QED
        BY <3>1, <3>2
    <2>. QED
      BY <1>5, <2>1
  <1>6. ~base' => \A o \in Cells : o < ptr'
    <2>1. ~base' => ptr' = NCells + 1
      BY <1>2, Constants
    <2>2. \A o \in Cells : o < NCells + 1
      BY Constants DEF Cells
    <2>. QED
      BY <2>1, <2>2
  <1>7. PassInv'
    BY <1>5, <1>6 DEF PassInv, Passed1
  <1>8. Kept' = {o \in Cells : magic'[o] = "A" /\ color'[o] # sweeper'}
    BY <1>5, <1>6 DEF Kept, Condemned
  <1>. QED
    BY <1>1, <1>2, <1>3, <1>4, <1>7, <1>8

\* The blocks the pass has come by, up to where it stands.
LEMMA PassFact ==
  ASSUME IInv, base
  PROVE  /\ ptr \in Cells
         /\ \A o \in Cells : magic[o] = "A" /\ o < ptr
                               => color[o] # sweeper /\ (color[o] = propagator => nprop)
         /\ Kept = {o \in Cells : magic[o] = "A" /\ color[o] # sweeper}
  BY DEF IInv, HeaderInv, PassInv, Passed1, Kept, Condemned

\* Any other block.
LEMMA PassOverStep ==
  ASSUME IInv, PassOver
  PROVE  IInv'
  <1>. USE DEF heapvars, progvars
  <1>1. base /\ gcpc = "scan" /\ vm = Collector /\ marking = <<>>
    BY DEF PassOver, Scanning
  <1>2. /\ UNCHANGED <<magic, kind, ref, color, ptrs, alive, cptr, ptrtab, stack, gchalt, mutator, nprop,
                       dying, marking, rooting, idle, left, doomed>>
        /\ Advance(ptr, magic') /\ visit' \in Int
    BY DEF PassOver, IInv, TypeInv
  <1>3. sweeper' = sweeper /\ propagator' = propagator /\ White' = White
    BY <1>2 DEF sweeper, propagator, White
  <1>4. \A o \in Cells : magic'[o] = "A" /\ o <= ptr
                            => color'[o] # sweeper' /\ (color'[o] = propagator' => nprop')
    <2>1. magic[ptr] = "A" => color[ptr] # sweeper /\ color[ptr] # propagator
      BY DEF PassOver
    <2>2. \A o \in Cells : o <= ptr => o = ptr \/ o < ptr
      BY <1>1, PassFact, Constants DEF Cells
    <2>. QED
      BY <2>1, <2>2, <1>1, <1>2, <1>3, PassFact
  <1>5. /\ base' \in BOOLEAN /\ ptr' \in 1..Limit
        /\ base' => ptr' \in Cells /\ magic'[ptr'] # "0"
        /\ gcpc' = "scan" \/ (base' /\ gcpc' = IF idle THEN "loop" ELSE "out")
        /\ vm' \in {Collector, Nobody} /\ (vm' = Collector <=> gcpc' \in {"loop", "scan"})
        /\ PassInv'
        /\ Kept' = {o \in Cells : magic'[o] = "A" /\ color'[o] # sweeper'}
    BY <1>1, <1>2, <1>4, PassFact, AdvanceFact DEF IInv, TypeInv
  <1>6. TypeInv'
    BY <1>2, <1>5 DEF IInv, TypeInv
  <1>7. HeaderInv'
    BY <1>2, <1>5 DEF IInv, HeaderInv
  <1>8. ControlInv'
    <2>1. \A p \in Progs : vm' # p
      BY <1>5, Constants
    <2>2. dying = Nil /\ rooting = {}
      BY <1>1 DEF IInv, ControlInv
    <2>. QED
      BY <1>1, <1>2, <1>5, <2>1, <2>2 DEF IInv, ControlInv
  <1>9. MarkInv'
    BY <1>1, <1>2 DEF IInv, MarkInv
  <1>10. HaltInv'
    BY <1>1, <1>2, <1>5 DEF IInv, HaltInv
  <1>11. EdgeInv' /\ RootInv'
    BY <1>1, <1>2, <1>5, EdgeFrame
  <1>12. DoomInv'
    BY <1>2, <1>3 DEF IInv, DoomInv
  <1>13. Kept' = Kept
    BY <1>1, <1>2, <1>3, <1>5, PassFact
  <1>14. StackOK(stack)' /\ ProgInv' /\ BlankInv' /\ KeptInv' /\ RefInv'
    BY <1>2, <1>13, KeptFrame
  <1>. QED
    BY <1>5, <1>6, <1>7, <1>8, <1>9, <1>10, <1>11, <1>12, <1>14 DEF IInv

\* A pass ends.
LEMMA EndPassStep ==
  ASSUME IInv, EndPass
  PROVE  IInv'
  <1>. USE DEF heapvars, progvars
  <1>1. ~base /\ gcpc = "scan" /\ vm = Collector /\ marking = <<>> /\ idle' = idle /\ base' = base
    BY DEF EndPass, Passed
  <1>2. UNCHANGED <<magic, kind, ref, color, ptrs, alive, cptr, ptrtab, stack, gchalt, mutator, ptr,
                    dying, marking, rooting, left, doomed>>
    BY DEF EndPass
  <1>3. nprop' = FALSE /\ visit' = 0 /\ gcpc' = (IF idle THEN "loop" ELSE "out")
          /\ vm' = (IF idle THEN Collector ELSE Nobody)
    BY DEF EndPass, Return
  <1>4. sweeper' = sweeper /\ propagator' = propagator /\ White' = White
    BY <1>2 DEF sweeper, propagator, White
  <1>5. TypeInv'
    <2>1. vm' \in {Collector, Nobody} /\ gcpc' \in {"loop", "out"}
      BY <1>3
    <2>2. nprop' \in BOOLEAN
      BY <1>3
    <2>3. visit' \in Int
      BY <1>3
    <2>. QED
      BY <1>1, <1>2, <2>1, <2>2, <2>3 DEF IInv, TypeInv
  <1>6. HeaderInv' /\ MarkInv' /\ HaltInv'
    BY <1>1, <1>2, <1>3, <1>4 DEF IInv, HeaderInv, MarkInv, HaltInv
  <1>7. ControlInv'
    <2>1. (\A p \in Progs : vm' # p) /\ Nobody # Collector
      BY <1>3, Constants
    <2>2. dying = Nil /\ rooting = {}
      BY <1>1 DEF IInv, ControlInv
    <2>3. idle \in BOOLEAN
      BY DEF IInv, TypeInv
    <2>4. CASE idle
      BY <1>1, <1>2, <1>3, <2>1, <2>2, <2>4 DEF IInv, ControlInv
    <2>5. CASE ~idle
      BY <1>1, <1>2, <1>3, <2>1, <2>2, <2>5 DEF IInv, ControlInv
    <2>. QED
      BY <2>3, <2>4, <2>5
  <1>8. EdgeInv' /\ RootInv'
    BY <1>1, <1>2, <1>3, EdgeFrame
  <1>9. PassInv'
    BY <1>1, <1>3 DEF PassInv, Passed1
  <1>10. DoomInv'
    BY <1>2, <1>4 DEF IInv, DoomInv
  <1>11. Kept' = Kept
    BY <1>1, <1>2 DEF Kept, Condemned
  <1>12. StackOK(stack)' /\ ProgInv' /\ BlankInv' /\ KeptInv' /\ RefInv'
    BY <1>2, <1>11, KeptFrame
  <1>. QED
    BY <1>5, <1>6, <1>7, <1>8, <1>9, <1>10, <1>12 DEF IInv

\* An epoch ends: all that is left has been reached, or goes in the next one.
LEMMA EndEpochStep ==
  ASSUME IInv, EndEpoch
  PROVE  IInv'
  <1>. USE DEF heapvars, progvars, passvars
  <1>1. ~base /\ gcpc = "scan" /\ vm = Collector /\ marking = <<>> /\ rooting = {} /\ ~nprop
    BY DEF EndEpoch, Passed, IInv, ControlInv
  <1>2. UNCHANGED <<magic, kind, ref, color, ptrs, alive, cptr, ptrtab, stack, gchalt, nprop, base, ptr,
                    visit, vm, dying, marking, idle, doomed>>
    BY DEF EndEpoch
  <1>3. /\ mutator' = (mutator + 1) % 3 /\ rooting' = alive /\ gcpc' = "roots"
        /\ left' = IF idle THEN left - 1 ELSE left
    BY DEF EndEpoch
  <1>4. /\ mutator \in 0..2 /\ mutator' \in 0..2
        /\ mutator' = sweeper /\ sweeper' = White /\ White' = mutator /\ propagator' = propagator
    <2>1. mutator \in 0..2
      BY DEF IInv, TypeInv
    <2>2. mutator = 0 \/ mutator = 1 \/ mutator = 2
      BY <2>1
    <2>. QED
      BY <1>3, <2>2 DEF sweeper, White, propagator
  <1>5. /\ sweeper # mutator /\ White # mutator /\ White # sweeper /\ propagator # White
        /\ propagator # mutator
        /\ {mutator, sweeper, White, propagator} = 0..3
    BY <1>4, ColourFacts
  <1>6. \A o \in Cells : magic[o] = "A" => color[o] \in {mutator, White}
    <2>1. ASSUME NEW o \in Cells, magic[o] = "A" PROVE color[o] \in {mutator, White}
      <3>1. color[o] # sweeper /\ color[o] # propagator
        BY <2>1, <1>1 DEF IInv, PassInv, Passed1
      <3>2. color[o] \in 0..3
        BY DEF IInv, TypeInv
      <3>. QED
        BY <3>1, <3>2, <1>5
    <2>. QED
      BY <2>1
  <1>7. TypeInv'
    BY <1>2, <1>3, <1>4 DEF IInv, TypeInv
  <1>8. HeaderInv' /\ MarkInv' /\ HaltInv'
    BY <1>1, <1>2, <1>3 DEF IInv, HeaderInv, MarkInv, HaltInv
  <1>9. ControlInv'
    <2>1. left > 0 \/ ~idle
      BY <1>1 DEF IInv, ControlInv
    <2>2. CASE idle
      BY <1>1, <1>2, <1>3, <2>1, <2>2 DEF IInv, ControlInv, IdleEpochs
    <2>3. CASE ~idle
      BY <1>1, <1>2, <1>3, <2>3 DEF IInv, ControlInv
    <2>. QED
      BY <2>2, <2>3
  <1>10. \A v : Reached(v) => Unswept(v)'
    BY <1>2, <1>4, <1>5 DEF Reached, Unswept
  <1>11. EdgeInv'
    <2>1. \A n \in Nodes, f \in Fields : ~Pending(n, f)
      BY <1>1 DEF Pending
    <2>2. ASSUME NEW n \in Nodes, NEW f \in Fields, Stays(n)' PROVE Unswept(ptrs[n][f])'
      <3>1. Scanned(n)
        BY <2>2, <1>1, <1>2, <1>4, <1>6 DEF Stays, Scanned
      <3>2. Reached(ptrs[n][f])
        BY <3>1, <2>1 DEF IInv, EdgeInv
      <3>. QED
        BY <3>2, <1>2, <1>10 DEF Unswept
    <2>3. ASSUME NEW n \in Nodes, NEW f \in Fields, Scanned(n)' PROVE Reached(ptrs[n][f])'
      <3>1. n \notin Cells
        BY <2>3, <1>2, <1>4, <1>5, <1>6 DEF Scanned
      <3>2. n \in Progs \ alive
        BY <2>3, <3>1, <1>3 DEF Scanned, Nodes
      <3>3. ptrs'[n][f] = Nil
        BY <3>2, <1>2 DEF IInv, ProgInv
      <3>. QED
        BY <3>3, Constants DEF Reached
    <2>. QED
      BY <2>2, <2>3, <1>2 DEF EdgeInv, Unswept, Reached
  <1>12. RootInv'
    <2>1. \A p \in Progs : Reached(cptr[p])
      BY <1>1 DEF IInv, RootInv
    <2>2. alive # {} => Reached(MP)
      BY <1>1 DEF IInv, RootInv
    <2>. QED
      BY <2>1, <2>2, <1>2, <1>3, <1>10 DEF RootInv, Unswept, Reached
  <1>13. PassInv'
    BY <1>1, <1>2, <1>3 DEF PassInv, Passed1
  <1>14. DoomInv'
    <2>1. \A o \in doomed : magic[o] = "A" /\ o \in Cells /\ color[o] \in {mutator, White}
      BY <1>6 DEF IInv, DoomInv, TypeInv
    <2>2. left' \in Int /\ left \in Int /\ (idle \/ doomed = {})
      BY <1>7 DEF IInv, TypeInv, ControlInv
    <2>3. left' <= 2 => \A o \in doomed : color[o] \in {White', sweeper'}
      BY <2>1, <1>4
    <2>4. left' <= 1 => \A o \in doomed : color[o] = sweeper'
      <3>1. ASSUME NEW o \in doomed, left' <= 1 PROVE color[o] = sweeper'
        <4>1. left <= 2
          BY <3>1, <2>2, <1>3
        <4>2. color[o] \in {White, sweeper}
          BY <4>1 DEF IInv, DoomInv
        <4>. QED
          BY <4>2, <2>1, <1>4, <1>5
      <3>. QED
        BY <3>1
    <2>5. left' <= 0 => doomed = {}
      <3>1. ASSUME NEW o \in doomed, left' <= 0 PROVE FALSE
        <4>1. left <= 1
          BY <3>1, <2>2, <1>3
        <4>2. color[o] = sweeper
          BY <4>1 DEF IInv, DoomInv
        <4>. QED
          BY <4>2, <2>1, <1>5
      <3>. QED
        BY <3>1
    <2>. QED
      BY <2>3, <2>4, <2>5, <1>1, <1>2 DEF IInv, DoomInv
  <1>15. Kept' = Kept
    BY <1>1, <1>2 DEF Kept, Condemned
  <1>16. StackOK(stack)' /\ ProgInv' /\ BlankInv' /\ KeptInv' /\ RefInv'
    BY <1>2, <1>15, KeptFrame
  <1>. QED
    BY <1>7, <1>8, <1>9, <1>11, <1>12, <1>13, <1>14, <1>16 DEF IInv

\* The marking of a block: the graph is as before, but for what the step says of
\* the nodes it scans.
LEMMA MarkingEdges ==
  ASSUME IInv, color' \in [Cells -> 0..3], UNCHANGED <<magic, mutator, ptrs>>,
         \A h \in Cells : color'[h] = color[h]
                          \/ (Unswept(h) /\ color[h] # mutator /\ color'[h] \in {mutator, propagator}),
         \A n \in Nodes, f \in Fields :
           Scanned(n)' /\ ~Pending(n, f)' => (Scanned(n) /\ ~Pending(n, f)) \/ Reached(ptrs[n][f])'
  PROVE  EdgeInv'
  <1>1. /\ \A v : Unswept(v) => Unswept(v)'
        /\ \A v : Reached(v) => Reached(v)'
        /\ \A n : Stays(n)' => Stays(n)
    BY MarkingFacts DEF IInv
  <1>2. ASSUME NEW n \in Nodes, NEW f \in Fields
        PROVE  /\ Stays(n)' => Unswept(ptrs[n][f])'
               /\ Scanned(n)' /\ ~Pending(n, f)' => Reached(ptrs[n][f])'
    <2>1. Stays(n) => Unswept(ptrs[n][f])
      BY DEF IInv, EdgeInv
    <2>2. Scanned(n) /\ ~Pending(n, f) => Reached(ptrs[n][f])
      BY DEF IInv, EdgeInv
    <2>3. Unswept(ptrs[n][f]) => Unswept(ptrs[n][f])'
      BY <1>1 DEF Unswept
    <2>4. Reached(ptrs[n][f]) => Reached(ptrs[n][f])'
      BY <1>1 DEF Reached
    <2>. QED
      BY <2>1, <2>2, <2>3, <2>4, <1>1
  <1>. QED
    BY <1>2 DEF EdgeInv

\* ptrmark: what host calls hold is marked.
LEMMA PtrmarkStep ==
  ASSUME IInv, Ptrmark
  PROVE  IInv'
  <1>. USE DEF heapvars, progvars
  <1>1. /\ ~base /\ gcpc = "roots" /\ vm = Collector /\ marking = <<>> /\ rooting = {}
        /\ idle' = idle /\ base' = base
    BY DEF Ptrmark, InRootset, IInv, ControlInv
  <1>2. UNCHANGED <<magic, kind, ref, ptrs, alive, cptr, ptrtab, stack, gchalt, mutator, ptr,
                    dying, marking, rooting, left, doomed>>
    BY DEF Ptrmark
  <1>3. gcpc' = (IF idle THEN "loop" ELSE "out") /\ vm' = (IF idle THEN Collector ELSE Nobody)
    BY DEF Ptrmark, Return
  <1>4. visit' = 0 /\ nprop' \in BOOLEAN
    <2>1. visit' = 0
      BY DEF Ptrmark
    <2>2. nprop' = (nprop \/ \E h \in ptrtab : color[h] # mutator)
      BY DEF Ptrmark
    <2>. QED
      BY <2>1, <2>2
  <1>5. /\ color' \in [Cells -> 0..3]
        /\ \A h \in Cells : color'[h] = IF h \in ptrtab /\ color[h] # mutator THEN propagator ELSE color[h]
    <2>1. color' = [h \in Cells |-> IF h \in ptrtab THEN Setmark(color, h)[h] ELSE color[h]]
      BY DEF Ptrmark
    <2>2. \A h \in Cells : h \in ptrtab => Setmark(color, h)[h] = IF color[h] # mutator THEN propagator ELSE color[h]
      BY Constants DEF Setmark, IInv, TypeInv
    <2>. QED
      BY <2>1, <2>2 DEF IInv, TypeInv, propagator
  <1>6. \A h \in ptrtab : h \in Cells /\ Unswept(h) /\ h \notin doomed
    <2>1. ASSUME NEW h \in ptrtab PROVE h \in Cells /\ Unswept(h) /\ h \notin doomed
      <3>1. PICK p \in Progs : h = cptr[p]
        BY DEF IInv, ProgInv
      <3>. QED
        BY <3>1 DEF IInv, RootInv, DoomInv, TypeInv
    <2>. QED
      BY <2>1
  <1>7. \A h \in Cells : color'[h] = color[h]
                          \/ (Unswept(h) /\ color[h] # mutator /\ color'[h] \in {mutator, propagator})
    BY <1>5, <1>6
  <1>8. /\ sweeper' = sweeper /\ propagator' = propagator /\ White' = White
        /\ \A v : Unswept(v) => Unswept(v)'
        /\ \A v : Reached(v) => Reached(v)'
        /\ \A h \in Cells : color[h] = mutator => color'[h] = mutator
    BY <1>2, <1>5, <1>7, MarkingFacts DEF IInv
  <1>9. TypeInv'
    <2>1. vm' \in {Collector, Nobody} /\ gcpc' \in {"loop", "out"}
      BY <1>3
    <2>. QED
      BY <1>1, <1>2, <1>4, <1>5, <2>1 DEF IInv, TypeInv
  <1>10. HeaderInv' /\ MarkInv' /\ HaltInv'
    BY <1>1, <1>2, <1>3 DEF IInv, HeaderInv, MarkInv, HaltInv
  <1>11. ControlInv'
    <2>1. (\A p \in Progs : vm' # p) /\ Nobody # Collector
      BY <1>3, Constants
    <2>2. dying = Nil
      BY <1>1 DEF IInv, ControlInv
    <2>3. idle \in BOOLEAN
      BY DEF IInv, TypeInv
    <2>4. CASE idle
      BY <1>1, <1>2, <1>3, <2>1, <2>2, <2>4 DEF IInv, ControlInv
    <2>5. CASE ~idle
      BY <1>1, <1>2, <1>3, <2>1, <2>2, <2>5 DEF IInv, ControlInv
    <2>. QED
      BY <2>3, <2>4, <2>5
  <1>12. EdgeInv'
    <2>1. \A n \in Nodes, f \in Fields :
            Scanned(n)' /\ ~Pending(n, f)' => (Scanned(n) /\ ~Pending(n, f)) \/ Reached(ptrs[n][f])'
      <3>1. propagator # mutator
        BY ColourFacts DEF IInv, TypeInv
      <3>2. \A n : Scanned(n)' => Scanned(n)
        BY <1>2, <1>5, <3>1 DEF Scanned
      <3>3. \A n, f : Pending(n, f)' <=> Pending(n, f)
        BY <1>2 DEF Pending
      <3>. QED
        BY <3>2, <3>3
    <2>. QED
      BY <2>1, <1>2, <1>5, <1>7, MarkingEdges
  <1>13. RootInv'
    <2>1. ASSUME NEW p \in Progs PROVE Unswept(cptr[p])' /\ Reached(cptr[p])'
      <3>1. Unswept(cptr[p])'
        BY <1>2, <1>8 DEF IInv, RootInv, Unswept
      <3>2. cptr[p] \in Cells => cptr[p] \in ptrtab
        BY Constants DEF IInv, ProgInv
      <3>3. cptr[p] \in Cells => color'[cptr[p]] \in {mutator, propagator}
        BY <3>2, <1>5
      <3>. QED
        BY <3>1, <3>3, <1>2, <1>8 DEF Reached
    <2>2. ASSUME alive # {} PROVE Unswept(MP)' /\ Reached(MP)'
      BY <2>2, <1>1, <1>8 DEF IInv, RootInv
    <2>. QED
      BY <2>1, <2>2, <1>2 DEF RootInv
  <1>14. PassInv'
    BY <1>1, <1>3 DEF PassInv, Passed1
  <1>15. DoomInv'
    <2>1. \A o \in doomed : color'[o] = color[o]
      BY <1>5, <1>6 DEF IInv, TypeInv
    <2>. QED
      BY <2>1, <1>2, <1>8 DEF IInv, DoomInv
  <1>16. Kept' = Kept
    BY <1>1, <1>2 DEF Kept, Condemned
  <1>17. StackOK(stack)' /\ ProgInv' /\ BlankInv' /\ KeptInv' /\ RefInv'
    BY <1>2, <1>16, KeptFrame
  <1>. QED
    BY <1>9, <1>10, <1>11, <1>12, <1>13, <1>14, <1>15, <1>17 DEF IInv

\* The call of markheap that begins in n.
LEMMA FrameFact ==
  ASSUME NEW n \in Nodes, NEW d \in Nat, kind \in [Cells -> {"rec", "fd"}]
  PROVE  /\ Frame(n, d) \in Seq(Mark) /\ Len(Frame(n, d)) \in {0, 1}
         /\ Frame(n, d) = <<>> \/ Len(Frame(n, d)) = 1
         /\ n \in Cells /\ kind[n] = "fd" => Frame(n, d) = <<>>
         /\ ~(n \in Cells /\ kind[n] = "fd") =>
              /\ Len(Frame(n, d)) = 1
              /\ Frame(n, d)[1].node = n /\ Frame(n, d)[1].todo = Fields
  <1>1. CASE n \in Cells /\ kind[n] = "fd"
    <2>1. Frame(n, d) = <<>>
      BY <1>1 DEF Frame
    <2>. QED
      BY <2>1, <1>1
  <1>2. CASE ~(n \in Cells /\ kind[n] = "fd")
    <2>. DEFINE r == [node |-> n, depth |-> d, todo |-> Fields]
    <2>1. Frame(n, d) = <<r>>
      BY <1>2 DEF Frame
    <2>2. r \in Mark /\ r.node = n /\ r.todo = Fields
      BY DEF Mark
    <2>. HIDE DEF r
    <2>3. <<r>> \in Seq(Mark) /\ Len(<<r>>) = 1 /\ <<r>>[1] = r
      BY <2>2
    <2>. QED
      BY <2>1, <2>2, <2>3, <1>2
  <1>. QED
    BY <1>1, <1>2

\* rootset comes to a prog.
LEMMA RootsetStep ==
  ASSUME IInv, NEW p \in Progs, Rootset(p)
  PROVE  IInv'
  <1>. USE DEF heapvars, progvars, passvars
  <1>1. /\ ~base /\ gcpc = "roots" /\ vm = Collector /\ marking = <<>> /\ p \in rooting
        /\ rooting' = rooting \ {p} /\ rooting \subseteq alive /\ p \in alive
    BY DEF Rootset, InRootset, IInv, ControlInv
  <1>2. UNCHANGED <<magic, kind, ref, ptrs, alive, cptr, ptrtab, stack, gchalt, mutator, ptr, base, visit,
                    vm, gcpc, dying, idle, left, doomed>>
    BY DEF Rootset
  <1>3. /\ color' \in [Cells -> 0..3]
        /\ \A h \in Cells : color'[h] = IF h = MP /\ color[h] # mutator THEN propagator ELSE color[h]
    <2>1. color' = Setmark(color, MP)
      BY DEF Rootset
    <2>. QED
      BY <2>1, Constants DEF Setmark, IInv, TypeInv, propagator
  <1>4. nprop' \in BOOLEAN
    <2>1. nprop' = Marked(nprop, MP)
      BY DEF Rootset
    <2>. QED
      BY <2>1 DEF Marked, IInv, TypeInv
  <1>5. Unswept(MP)
    BY <1>1 DEF IInv, RootInv
  <1>6. \A h \in Cells : color'[h] = color[h]
                          \/ (Unswept(h) /\ color[h] # mutator /\ color'[h] \in {mutator, propagator})
    BY <1>3, <1>5
  <1>7. /\ sweeper' = sweeper /\ propagator' = propagator /\ White' = White
        /\ \A v : Unswept(v) => Unswept(v)'
        /\ \A v : Reached(v) => Reached(v)'
    BY <1>2, <1>3, <1>6, MarkingFacts DEF IInv
  <1>8. /\ marking' \in Seq(Mark) /\ Len(marking') = 1
        /\ marking'[1].node = p /\ marking'[1].todo = Fields
    <2>1. marking' = Frame(p, 1) /\ p \notin Cells /\ p \in Nodes
      BY Constants DEF Rootset
    <2>. QED
      BY <2>1, FrameFact DEF IInv, TypeInv
  <1>9. TypeInv'
    BY <1>1, <1>2, <1>3, <1>4, <1>8 DEF IInv, TypeInv
  <1>10. HeaderInv' /\ HaltInv'
    BY <1>1, <1>2 DEF IInv, HeaderInv, HaltInv
  <1>11. MarkInv'
    BY <1>1, <1>2, <1>8, Constants DEF MarkInv
  <1>12. ControlInv'
    BY <1>1, <1>2 DEF IInv, ControlInv
  <1>13. EdgeInv'
    <2>1. ASSUME NEW n \in Nodes, NEW f \in Fields, Scanned(n)', ~Pending(n, f)'
          PROVE  Scanned(n) /\ ~Pending(n, f)
      <3>1. propagator # mutator
        BY ColourFacts DEF IInv, TypeInv
      <3>2. Pending(p, f)'
        BY <1>8 DEF Pending
      <3>3. ~Pending(n, f)
        BY <1>1 DEF Pending
      <3>4. n # p
        BY <2>1, <3>2
      <3>. QED
        BY <2>1, <3>1, <3>3, <3>4, <1>1, <1>2, <1>3 DEF Scanned
    <2>. QED
      BY <2>1, <1>2, <1>3, <1>6, MarkingEdges
  <1>14. RootInv'
    <2>1. \A q \in Progs : Unswept(cptr[q])'
      BY <1>2, <1>7 DEF IInv, RootInv, Unswept
    <2>2. Unswept(MP)' /\ Reached(MP)'
      BY <1>2, <1>3, <1>5, <1>7 DEF Reached
    <2>. QED
      BY <2>1, <2>2, <1>1, <1>2 DEF RootInv
  <1>15. PassInv'
    BY <1>1, <1>2 DEF PassInv, Passed1
  <1>16. DoomInv'
    <2>1. \A o \in doomed : o \in Cells /\ color'[o] = color[o] /\ o # p
      BY <1>3, Constants DEF IInv, TypeInv, DoomInv
    <2>2. \A i \in 1..Len(marking') : marking'[i].node \notin doomed
      BY <2>1, <1>8
    <2>. QED
      BY <2>1, <2>2, <1>2, <1>7 DEF IInv, DoomInv
  <1>17. Kept' = Kept
    BY <1>1, <1>2 DEF Kept, Condemned
  <1>18. StackOK(stack)' /\ ProgInv' /\ BlankInv' /\ KeptInv' /\ RefInv'
    BY <1>2, <1>17, KeptFrame
  <1>. QED
    BY <1>9, <1>10, <1>11, <1>12, <1>13, <1>14, <1>15, <1>16, <1>18 DEF IInv

\* A grey block: its children are to be marked.
LEMMA PropagateStep ==
  ASSUME IInv, Propagate
  PROVE  IInv'
  <1>. USE DEF heapvars, progvars
  <1>1. /\ base /\ gcpc = "scan" /\ vm = Collector /\ marking = <<>>
        /\ magic[ptr] = "A" /\ color[ptr] = propagator /\ ptr \in Cells /\ ptr \in Nodes
    BY PassFact, Constants DEF Propagate, Scanning
  <1>2. UNCHANGED <<magic, kind, ref, ptrs, alive, cptr, ptrtab, stack, gchalt, mutator, nprop,
                    dying, rooting, idle, left, doomed>>
    BY DEF Propagate
  <1>3. visit' = visit - 1 /\ visit' \in Int
    BY DEF Propagate, IInv, TypeInv
  <1>4. sweeper # mutator /\ propagator # mutator /\ propagator # sweeper /\ propagator # White
    BY ColourFacts DEF IInv, TypeInv
  <1>5. /\ color' \in [Cells -> 0..3]
        /\ \A h \in Cells : color'[h] = IF h = ptr THEN mutator ELSE color[h]
    <2>1. color' = [color EXCEPT ![ptr] = mutator]
      BY DEF Propagate
    <2>. QED
      BY <2>1, <1>1 DEF IInv, TypeInv
  <1>6. \A h \in Cells : color'[h] = color[h]
                          \/ (Unswept(h) /\ color[h] # mutator /\ color'[h] \in {mutator, propagator})
    BY <1>1, <1>4, <1>5 DEF Unswept
  <1>7. /\ sweeper' = sweeper /\ propagator' = propagator /\ White' = White
        /\ \A v : Unswept(v) => Unswept(v)'
        /\ \A v : Reached(v) => Reached(v)'
        /\ \A h \in Cells : magic[h] = "A" => (color'[h] # sweeper <=> color[h] # sweeper)
    BY <1>2, <1>5, <1>6, MarkingFacts DEF IInv
  <1>8. /\ marking' \in Seq(Mark) /\ Len(marking') \in {0, 1} /\ (marking' = <<>> \/ Len(marking') = 1)
        /\ kind[ptr] = "fd" => marking' = <<>>
        /\ kind[ptr] # "fd" => /\ Len(marking') = 1
                               /\ marking'[1].node = ptr /\ marking'[1].todo = Fields
    <2>1. marking' = Frame(ptr, 1)
      BY DEF Propagate
    <2>. QED
      BY <2>1, <1>1, FrameFact DEF IInv, TypeInv
  <1>9. \A i \in 1..Len(marking') : marking'[i].node = ptr /\ marking'[i].todo = Fields
    <2>1. CASE marking' = <<>>
      <3>1. Len(marking') = 0
        BY <2>1
      <3>. QED
        BY <3>1
    <2>2. CASE marking' # <<>>
      BY <2>2, <1>8
    <2>. QED
      BY <2>1, <2>2
  <1>10. \A o \in Cells : magic'[o] = "A" /\ o <= ptr
                            => color'[o] # sweeper' /\ (color'[o] = propagator' => nprop')
    <2>1. \A o \in Cells : o <= ptr => o = ptr \/ o < ptr
      BY <1>1, Constants DEF Cells
    <2>. QED
      BY <2>1, <1>1, <1>2, <1>4, <1>5, <1>7, PassFact
  <1>11. /\ base' \in BOOLEAN /\ ptr' \in 1..Limit
         /\ base' => ptr' \in Cells /\ magic'[ptr'] # "0"
         /\ gcpc' = "scan" \/ (base' /\ gcpc' = IF idle THEN "loop" ELSE "out")
         /\ vm' \in {Collector, Nobody} /\ (vm' = Collector <=> gcpc' \in {"loop", "scan"})
         /\ PassInv'
         /\ Kept' = {o \in Cells : magic'[o] = "A" /\ color'[o] # sweeper'}
         /\ marking' # <<>> => base' /\ gcpc' = "scan" /\ ptr' = ptr
    <2>1. CASE marking' = <<>>
      <3>1. Advance(ptr, magic')
        BY <2>1, <1>2 DEF Propagate
      <3>. QED
        BY <2>1, <3>1, <1>1, <1>2, <1>3, <1>10, AdvanceFact DEF IInv, TypeInv
    <2>2. CASE marking' # <<>>
      <3>1. UNCHANGED <<base, ptr, gcpc, vm>>
        BY <2>2 DEF Propagate
      <3>2. PassInv'
        BY <3>1, <1>1, <1>2, <1>5, <1>7, PassFact DEF PassInv, Passed1
      <3>3. Kept' = {o \in Cells : magic'[o] = "A" /\ color'[o] # sweeper'}
        BY <3>1, <1>1 DEF Kept, Condemned
      <3>4. base' \in BOOLEAN /\ ptr' \in 1..Limit /\ ptr' \in Cells /\ magic'[ptr'] # "0"
        BY <3>1, <1>1, <1>2 DEF IInv, TypeInv, HeaderInv
      <3>. QED
        BY <3>1, <3>2, <3>3, <3>4, <1>1
    <2>. QED
      BY <2>1, <2>2
  <1>12. TypeInv'
    BY <1>2, <1>3, <1>5, <1>8, <1>11 DEF IInv, TypeInv
  <1>13. HeaderInv'
    BY <1>2, <1>11 DEF IInv, HeaderInv
  <1>14. HaltInv'
    BY <1>1, <1>2, <1>11 DEF IInv, HaltInv
  <1>15. MarkInv'
    <2>1. color'[ptr] = mutator'
      BY <1>1, <1>2, <1>5
    <2>. QED
      BY <2>1, <1>1, <1>2, <1>9, <1>11, Constants DEF MarkInv
  <1>16. ControlInv'
    <2>1. \A p \in Progs : vm' # p
      BY <1>11, Constants
    <2>2. dying = Nil /\ rooting = {}
      BY <1>1 DEF IInv, ControlInv
    <2>. QED
      BY <1>1, <1>2, <1>11, <2>1, <2>2 DEF IInv, ControlInv
  <1>17. EdgeInv'
    <2>1. ASSUME NEW n \in Nodes, NEW f \in Fields, Scanned(n)', ~Pending(n, f)'
          PROVE  (Scanned(n) /\ ~Pending(n, f)) \/ Reached(ptrs[n][f])'
      <3>1. ~Pending(n, f)
        BY <1>1 DEF Pending
      <3>2. CASE n = ptr /\ kind[ptr] = "fd"
        <4>1. ptrs'[n][f] = Nil
          BY <3>2, <1>1, <1>2 DEF IInv, BlankInv
        <4>. QED
          BY <4>1, Constants DEF Reached
      <3>3. CASE n = ptr /\ kind[ptr] # "fd"
        <4>1. 1 \in 1..Len(marking') /\ marking'[1].node = n /\ f \in marking'[1].todo
          BY <3>3, <1>8
        <4>2. Pending(n, f)'
          BY <4>1 DEF Pending
        <4>. QED
          BY <4>2, <2>1
      <3>4. CASE n # ptr
        BY <3>1, <3>4, <2>1, <1>2, <1>5 DEF Scanned
      <3>. QED
        BY <3>2, <3>3, <3>4
    <2>. QED
      BY <2>1, <1>2, <1>5, <1>6, MarkingEdges
  <1>18. RootInv'
    <2>1. ASSUME NEW p \in Progs PROVE Unswept(cptr[p])' /\ Reached(cptr[p])'
      <3>1. Unswept(cptr[p]) /\ Reached(cptr[p])
        BY <1>1 DEF IInv, RootInv
      <3>. QED
        BY <3>1, <1>2, <1>7 DEF Unswept, Reached
    <2>2. ASSUME alive # {} PROVE Unswept(MP)' /\ Reached(MP)'
      BY <2>2, <1>1, <1>7 DEF IInv, RootInv
    <2>. QED
      BY <2>1, <2>2, <1>2 DEF RootInv
  <1>19. DoomInv'
    <2>1. left <= 2 => ptr \notin doomed
      BY <1>1, <1>4 DEF IInv, DoomInv
    <2>2. left <= 2 => \A o \in doomed : color'[o] = color[o]
      BY <2>1, <1>5 DEF IInv, TypeInv
    <2>3. left <= 1 => left <= 2
      BY DEF IInv, TypeInv
    <2>4. left <= 2 => \A i \in 1..Len(marking') : marking'[i].node \notin doomed
      BY <2>1, <1>9
    <2>. QED
      BY <2>2, <2>3, <2>4, <1>2, <1>7 DEF IInv, DoomInv
  <1>20. Kept' = Kept
    BY <1>1, <1>2, <1>7, <1>11, PassFact
  <1>21. StackOK(stack)' /\ ProgInv' /\ BlankInv' /\ KeptInv' /\ RefInv'
    BY <1>2, <1>20, KeptFrame
  <1>. QED
    BY <1>11, <1>12, <1>13, <1>14, <1>15, <1>16, <1>17, <1>18, <1>19, <1>21 DEF IInv

\* What is where in two sequences put together.
LEMMA Concat ==
  ASSUME NEW S, NEW a \in Seq(S), NEW b \in Seq(S), NEW t, t = a \o b
  PROVE  /\ t \in Seq(S) /\ Len(t) = Len(a) + Len(b) /\ Len(b) \in Nat /\ Len(a) \in Nat
         /\ \A i \in 1..Len(a) : i \in 1..Len(t) /\ t[i] = a[i]
         /\ \A i \in 1..Len(b) : i + Len(a) \in 1..Len(t) /\ t[i + Len(a)] = b[i]
         /\ \A i \in 1..Len(t) : i \in 1..Len(a) \/ (i - Len(a) \in 1..Len(b) /\ t[i] = b[i - Len(a)])
  <1>1. t \in Seq(S) /\ Len(t) = Len(a) + Len(b) /\ Len(b) \in Nat /\ Len(a) \in Nat
    OBVIOUS
  <1>2. \A i \in 1..Len(t) : t[i] = IF i <= Len(a) THEN a[i] ELSE b[i - Len(a)]
    OBVIOUS
  <1>3. \A i \in 1..Len(a) : i \in 1..Len(t) /\ t[i] = a[i]
    BY <1>1, <1>2
  <1>4. ASSUME NEW i \in 1..Len(b) PROVE i + Len(a) \in 1..Len(t) /\ t[i + Len(a)] = b[i]
    <2>1. i + Len(a) \in 1..Len(t) /\ ~(i + Len(a) <= Len(a)) /\ i + Len(a) - Len(a) = i
      BY <1>1
    <2>. QED
      BY <2>1, <1>2
  <1>5. ASSUME NEW i \in 1..Len(t), ~(i \in 1..Len(a))
        PROVE  i - Len(a) \in 1..Len(b) /\ t[i] = b[i - Len(a)]
    BY <1>1, <1>2, <1>5
  <1>. QED
    BY <1>1, <1>3, <1>4, <1>5

\* What is left of the calls s of markheap when it has come to pointer f of the one
\* on top: all that was, but that pointer.
CallsLeft(s, f) ==
  (IF Head(s).todo = {f} THEN <<>> ELSE <<[Head(s) EXCEPT !.todo = @ \ {f}]>>) \o Tail(s)

AllBut(s, f, here) ==
  /\ here \in Seq(Mark)
  /\ \A i \in 1..Len(here) :
       \/ here[i].node = Head(s).node /\ here[i].todo = Head(s).todo \ {f} /\ here[i].todo # {}
       \/ \E j \in 1..Len(s) : here[i] = s[j]
  /\ \A i \in 1..Len(s) : \A g \in s[i].todo :
       ~(s[i].node = Head(s).node /\ g = f)
         => \E j \in 1..Len(here) : here[j].node = s[i].node /\ g \in here[j].todo

\* The calls of markheap that are left once slot f of the innermost is seen.
LEMMA MarkptrRest ==
  ASSUME NEW s \in Seq(Mark), s # <<>>, NEW f \in Head(s).todo
  PROVE  AllBut(s, f, CallsLeft(s, f))
  <1>. DEFINE rest == IF Head(s).todo = {f} THEN <<>> ELSE <<[Head(s) EXCEPT !.todo = @ \ {f}]>>
              here == CallsLeft(s, f)
  <1>. DEFINE c == Head(s)
              d == [c EXCEPT !.todo = @ \ {f}]
              u == Tail(s)
  <1>1. /\ c \in Mark /\ c = s[1] /\ Len(s) \in Nat /\ Len(s) >= 1
        /\ u \in Seq(Mark) /\ Len(u) = Len(s) - 1 /\ Len(u) \in Nat
        /\ \A i \in 1..Len(u) : i + 1 \in 1..Len(s) /\ u[i] = s[i + 1]
    OBVIOUS
  <1>2. d \in Mark /\ d.node = c.node /\ d.todo = c.todo \ {f}
    BY <1>1 DEF Mark
  <1>. HIDE DEF d, u, c, here, rest
  <1>3. /\ here \in Seq(Mark) /\ Len(here) \in Nat
        /\ c.todo = {f} => here = u
        /\ c.todo # {f} => /\ Len(here) = Len(u) + 1 /\ here[1] = d
                           /\ \A i \in 1..Len(u) : here[i + 1] = u[i]
    <2>1. CASE c.todo = {f}
      <3>1. rest = <<>> /\ here = rest \o u
        BY <2>1 DEF c, u, here, rest, CallsLeft
      <3>2. here = u
        <4>1. here = <<>> \o u /\ u \in Seq(Mark)
          BY <3>1, <1>1
        <4>. QED
          BY ONLY <4>1
      <3>. QED
        BY <2>1, <3>2, <1>1
    <2>2. CASE c.todo # {f}
      <3>1. rest = <<d>> /\ here = rest \o u
        BY <2>2 DEF c, d, u, here, rest, CallsLeft
      <3>2. rest \in Seq(Mark) /\ Len(rest) = 1 /\ rest[1] = d
        <4>1. rest = <<d>> /\ d \in Mark
          BY <3>1, <1>2
        <4>. QED
          BY ONLY <4>1
      <3>3. /\ here \in Seq(Mark) /\ Len(here) = Len(rest) + Len(u)
            /\ \A i \in 1..Len(rest) : i \in 1..Len(here) /\ here[i] = rest[i]
            /\ \A i \in 1..Len(u) : i + Len(rest) \in 1..Len(here) /\ here[i + Len(rest)] = u[i]
        <4>1. here = rest \o u /\ rest \in Seq(Mark) /\ u \in Seq(Mark)
          BY <3>1, <3>2, <1>1
        <4>. QED
          BY ONLY <4>1, Concat
      <3>4. Len(u) \in Nat /\ c.todo # {f}
        BY <2>2, <1>1
      <3>. QED
        BY ONLY <3>2, <3>3, <3>4
    <2>. QED
      BY <2>1, <2>2
  <1>4. ASSUME NEW i \in 1..Len(here)
        PROVE  (here[i].node = c.node /\ here[i].todo = c.todo \ {f} /\ here[i].todo # {})
               \/ \E j \in 1..Len(s) : here[i] = s[j]
    <2>1. CASE c.todo = {f}
      <3>1. i \in 1..Len(u) /\ here[i] = u[i]
        BY <2>1, <1>3
      <3>. QED
        BY <3>1, <1>1
    <2>2. CASE c.todo # {f} /\ i = 1
      <3>1. c.todo \ {f} # {}
        BY <2>2 DEF c
      <3>. QED
        BY <3>1, <2>2, <1>2, <1>3
    <2>3. CASE c.todo # {f} /\ i # 1
      <3>1. i - 1 \in 1..Len(u) /\ here[i] = u[i - 1]
        BY <2>3, <1>1, <1>3
      <3>. QED
        BY <3>1, <1>1
    <2>. QED
      BY <2>1, <2>2, <2>3
  <1>5. ASSUME NEW i \in 1..Len(s), NEW g \in s[i].todo, ~(s[i].node = c.node /\ g = f)
        PROVE  \E j \in 1..Len(here) : here[j].node = s[i].node /\ g \in here[j].todo
    <2>1. CASE i = 1
      <3>1. g \in c.todo \ {f}
        BY <2>1, <1>1, <1>5
      <3>2. c.todo # {f} /\ 1 \in 1..Len(here) /\ here[1] = d
        BY <3>1, <1>1, <1>3
      <3>. QED
        BY <3>1, <3>2, <2>1, <1>1, <1>2
    <2>2. CASE i # 1
      <3>1. i - 1 \in 1..Len(u) /\ u[i - 1] = s[i]
        BY <2>2, <1>1
      <3>2. CASE c.todo = {f}
        BY <3>1, <3>2, <1>3, <1>5
      <3>3. CASE c.todo # {f}
        <4>1. i \in 1..Len(here) /\ here[i] = s[i]
          BY <3>1, <3>3, <1>1, <1>3
        <4>. QED
          BY <4>1, <1>5
      <3>. QED
        BY <3>2, <3>3
    <2>. QED
      BY <2>1, <2>2
  <1>. QED
    BY <1>3, <1>4, <1>5 DEF c, here, AllBut

\* markheap comes to a pointer.
LEMMA MarkptrStep ==
  ASSUME IInv, Markptr
  PROVE  IInv'
  <1>. USE DEF heapvars, progvars
  <1>1. /\ vm = Collector /\ marking # <<>> /\ dying = Nil
        /\ (gcpc = "roots" /\ ~base) \/ (gcpc = "scan" /\ base /\ rooting = {})
    BY DEF Markptr, IInv, ControlInv
  <1>2. UNCHANGED <<magic, kind, ref, ptrs, alive, cptr, ptrtab, stack, gchalt, mutator,
                    dying, rooting, idle, left, doomed>>
    BY DEF Markptr
  <1>3. /\ marking' = <<>> /\ gcpc = "scan" => Advance(ptr, magic')
        /\ ~(marking' = <<>> /\ gcpc = "scan") => UNCHANGED <<base, ptr, gcpc, vm>>
    BY <1>2 DEF Markptr
  <1>. DEFINE call == Head(marking)
  <1>4. /\ marking \in Seq(Mark) /\ 1 \in 1..Len(marking) /\ call = marking[1] /\ call \in Mark
        /\ call.node \in Nodes /\ call.depth \in Nat /\ call.todo \in SUBSET Fields
    <2>1. marking \in Seq(Mark)
      BY DEF IInv, TypeInv
    <2>2. 1 \in 1..Len(marking) /\ call = marking[1] /\ call \in Mark
      BY <1>1, <2>1
    <2>. QED
      BY <2>1, <2>2 DEF Mark
  <1>5. call.node \in Cells /\ magic[call.node] = "A" => color[call.node] = mutator
    BY <1>4 DEF IInv, MarkInv
  <1>. DEFINE X(f) == ptrs[call.node][f]
              C(f) == Setmark(color, X(f))
              Grey(f) == X(f) # Nil /\ C(f)[X(f)] = propagator
              Enters(f) == Grey(f) /\ visit > 0 /\ call.depth < MaxDepth
              Left(f) == IF call.todo = {f} THEN <<>> ELSE <<[call EXCEPT !.todo = @ \ {f}]>>
              Here(f) == Left(f) \o Tail(marking)
  <1>6. PICK f \in call.todo :
          /\ nprop' = Marked(nprop, X(f))
          /\ visit' = IF Grey(f) /\ visit > 0 THEN visit - 1 ELSE visit
          /\ color' = IF Enters(f) THEN [C(f) EXCEPT ![X(f)] = mutator] ELSE C(f)
          /\ marking' = IF Enters(f) THEN Frame(X(f), call.depth + 1) \o Here(f) ELSE Here(f)
    BY Markptr, Zenon DEF Markptr
  <1>7. sweeper # mutator /\ propagator # mutator /\ propagator # sweeper /\ propagator = 3 /\ mutator \in 0..2
    BY ColourFacts DEF IInv, TypeInv
  <1>8. f \in Fields /\ X(f) \in Cells \cup {Nil}
    <2>1. ptrs \in [Nodes -> [Fields -> Cells \cup {Nil}]]
      BY DEF IInv, TypeInv
    <2>2. f \in Fields /\ call.node \in Nodes
      BY <1>4
    <2>3. PICK n \in Nodes : n = call.node
      BY <2>2
    <2>4. ptrs[n][f] \in Cells \cup {Nil}
      BY ONLY <2>1, <2>2, <2>3
    <2>. QED
      BY ONLY <2>2, <2>3, <2>4
  <1>9. Unswept(X(f))
    <2>1. CASE call.node \in Cells /\ magic[call.node] # "A"
      BY <2>1, <1>8, Constants DEF Unswept, IInv, BlankInv
    <2>2. CASE ~(call.node \in Cells /\ magic[call.node] # "A")
      <3>1. Stays(call.node)
        BY <2>2, <1>5, <1>7 DEF Stays
      <3>. QED
        BY <3>1, <1>4, <1>8 DEF IInv, EdgeInv
    <2>. QED
      BY <2>1, <2>2
  <1>10. Grey(f) <=> X(f) \in Cells /\ color[X(f)] # mutator
    BY <1>7, <1>8, Constants DEF Setmark, IInv, TypeInv
  <1>11. /\ color' \in [Cells -> 0..3]
         /\ \A h \in Cells : color'[h] = IF h = X(f) /\ color[h] # mutator
                                         THEN IF Enters(f) THEN mutator ELSE propagator
                                         ELSE color[h]
    <2>1. color \in [Cells -> 0..3]
      BY DEF IInv, TypeInv
    <2>2. CASE Enters(f)
      <3>1. X(f) \in Cells /\ color[X(f)] # mutator
        BY <2>2, <1>10
      <3>2. color' = [[color EXCEPT ![X(f)] = propagator] EXCEPT ![X(f)] = mutator]
        BY <2>2, <3>1, <1>6, Constants DEF Setmark
      <3>. HIDE DEF Enters, X
      <3>. QED
        BY <2>1, <2>2, <3>1, <3>2, <1>7
    <2>3. CASE ~Enters(f)
      <3>1. color' = Setmark(color, X(f))
        BY <2>3, <1>6
      <3>. HIDE DEF Enters, X
      <3>. QED
        BY <2>1, <2>3, <3>1, <1>7, <1>8, Constants DEF Setmark
    <2>. QED
      BY <2>2, <2>3
  <1>12. nprop' \in BOOLEAN /\ (nprop' <=> nprop \/ (X(f) \in Cells /\ color[X(f)] # mutator))
    <2>1. nprop' = Marked(nprop, X(f)) /\ nprop \in BOOLEAN
      BY <1>6 DEF IInv, TypeInv
    <2>2. CASE X(f) # Nil /\ color[X(f)] # mutator
      BY <2>1, <2>2, <1>8 DEF Marked
    <2>3. CASE ~(X(f) # Nil /\ color[X(f)] # mutator)
      BY <2>1, <2>3, <1>8, Constants DEF Marked
    <2>. QED
      BY <2>2, <2>3
  <1>13. visit' \in Int
    <2>. DEFINE costs == Grey(f) /\ visit > 0
    <2>1. visit \in Int
      BY DEF IInv, TypeInv
    <2>2. visit' = IF costs THEN visit - 1 ELSE visit
      BY ONLY <1>6
    <2>. HIDE DEF costs
    <2>. QED
      BY ONLY <2>1, <2>2
  <1>. DEFINE into == IF Enters(f) THEN Frame(X(f), call.depth + 1) ELSE <<>>
              here == Here(f)
  <1>14. /\ here \in Seq(Mark)
         /\ \A i \in 1..Len(here) :
              \/ here[i].node = call.node /\ here[i].todo = call.todo \ {f} /\ here[i].todo # {}
              \/ \E j \in 1..Len(marking) : here[i] = marking[j]
         /\ \A i \in 1..Len(marking) : \A g \in marking[i].todo :
              ~(marking[i].node = call.node /\ g = f)
                => \E j \in 1..Len(here) : here[j].node = marking[i].node /\ g \in here[j].todo
    <2>1. marking \in Seq(Mark) /\ marking # <<>> /\ f \in Head(marking).todo
      BY <1>1, <1>4
    <2>2. here = CallsLeft(marking, f)
      BY DEF CallsLeft
    <2>. HIDE DEF here
    <2>3. AllBut(marking, f, here)
      BY <2>1, <2>2, MarkptrRest
    <2>. QED
      BY <2>3 DEF AllBut
  <1>15. /\ into \in Seq(Mark)
         /\ \A i \in 1..Len(into) : Enters(f) /\ into[i].node = X(f) /\ into[i].todo = Fields
         /\ Enters(f) /\ kind[X(f)] # "fd" => Len(into) = 1
    <2>1. CASE Enters(f)
      <3>1. X(f) \in Cells /\ X(f) \in Nodes /\ call.depth + 1 \in Nat
        BY <2>1, <1>4, <1>10, Constants
      <3>2. into = Frame(X(f), call.depth + 1)
        BY <2>1
      <3>. HIDE DEF into, Enters, X, call
      <3>3. /\ into \in Seq(Mark) /\ (into = <<>> \/ Len(into) = 1)
            /\ Len(into) = 1 => into[1].node = X(f) /\ into[1].todo = Fields
            /\ kind[X(f)] # "fd" => Len(into) = 1
        <4>1. PICK n \in Nodes : n = X(f) /\ n \in Cells
          BY <3>1
        <4>2. PICK d \in Nat : d = call.depth + 1
          BY <3>1
        <4>3. into = Frame(n, d) /\ kind \in [Cells -> {"rec", "fd"}]
          BY <3>2, <4>1, <4>2 DEF IInv, TypeInv
        <4>4. /\ into \in Seq(Mark) /\ (into = <<>> \/ Len(into) = 1)
              /\ n \in Cells /\ kind[n] = "fd" => into = <<>>
              /\ ~(n \in Cells /\ kind[n] = "fd") =>
                   /\ Len(into) = 1
                   /\ into[1].node = n /\ into[1].todo = Fields
          BY ONLY <4>3, FrameFact
        <4>5. into = <<>> => Len(into) = 0
          OBVIOUS
        <4>. QED
          BY ONLY <4>1, <4>4, <4>5
      <3>4. Len(into) \in Nat /\ (into = <<>> => Len(into) = 0)
        BY <3>3
      <3>. QED
        BY <2>1, <3>3, <3>4
    <2>2. CASE ~Enters(f)
      <3>1. into = <<>>
        BY <2>2
      <3>. HIDE DEF into
      <3>2. into \in Seq(Mark) /\ Len(into) = 0
        BY ONLY <3>1
      <3>. QED
        BY <2>2, <3>2
    <2>. QED
      BY <2>1, <2>2
  <1>16. marking' = into \o here
    <2>1. CASE Enters(f)
      BY <2>1, <1>6
    <2>2. CASE ~Enters(f)
      <3>1. marking' = here /\ into = <<>>
        BY <2>2, <1>6
      <3>. HIDE DEF here, into
      <3>. QED
        BY ONLY <3>1, <1>14
    <2>. QED
      BY <2>1, <2>2
  <1>. HIDE DEF into, here, X, C, Grey, Enters, Left, Here, call
  <1>17. PICK x \in Cells \cup {Nil} : x = X(f)
    BY <1>8
  <1>18. PICK entered \in {0, 1} : entered = 1 <=> Enters(f)
    OBVIOUS
  <1>19. /\ Unswept(x)
         /\ entered = 1 => x \in Cells /\ color[x] # mutator
         /\ color' \in [Cells -> 0..3]
         /\ \A h \in Cells : color'[h] = IF h = x /\ color[h] # mutator
                                         THEN IF entered = 1 THEN mutator ELSE propagator
                                         ELSE color[h]
         /\ nprop' <=> nprop \/ (x \in Cells /\ color[x] # mutator)
         /\ \A i \in 1..Len(into) : entered = 1 /\ into[i].node = x /\ into[i].todo = Fields
         /\ entered = 1 /\ kind[x] # "fd" => Len(into) = 1
         /\ x = ptrs[call.node][f]
    <2>1. Enters(f) => Grey(f)
      BY DEF Enters
    <2>. QED
      BY <2>1, <1>17, <1>18, <1>9, <1>10, <1>11, <1>12, <1>15 DEF X
  <1>20. /\ Len(into) \in Nat /\ marking' \in Seq(Mark)
         /\ \A i \in 1..Len(into) : i \in 1..Len(marking') /\ marking'[i] = into[i]
         /\ \A i \in 1..Len(here) : \E j \in 1..Len(marking') : marking'[j] = here[i]
         /\ \A i \in 1..Len(marking') :
              (\E j \in 1..Len(into) : marking'[i] = into[j]) \/ (\E j \in 1..Len(here) : marking'[i] = here[j])
    <2>1. /\ marking' \in Seq(Mark) /\ Len(into) \in Nat
          /\ \A i \in 1..Len(into) : i \in 1..Len(marking') /\ marking'[i] = into[i]
          /\ \A i \in 1..Len(here) : i + Len(into) \in 1..Len(marking') /\ marking'[i + Len(into)] = here[i]
          /\ \A i \in 1..Len(marking') :
               i \in 1..Len(into) \/ (i - Len(into) \in 1..Len(here) /\ marking'[i] = here[i - Len(into)])
      BY ONLY <1>14, <1>15, <1>16, Concat
    <2>. QED
      BY ONLY <2>1
  \* The calls there are now: the new one, the one on top without its pointer f, or
  \* one there was.
  <1>21. \A i \in 1..Len(marking') :
           \/ entered = 1 /\ marking'[i].node = x /\ marking'[i].todo = Fields
           \/ marking'[i].node = call.node /\ marking'[i].todo # {}
           \/ \E j \in 1..Len(marking) : marking'[i] = marking[j]
    <2>1. ASSUME NEW i \in 1..Len(marking')
          PROVE  \/ entered = 1 /\ marking'[i].node = x /\ marking'[i].todo = Fields
                 \/ marking'[i].node = call.node /\ marking'[i].todo # {}
                 \/ \E j \in 1..Len(marking) : marking'[i] = marking[j]
      <3>1. CASE \E j \in 1..Len(into) : marking'[i] = into[j]
        BY <3>1, <1>19
      <3>2. CASE \E j \in 1..Len(here) : marking'[i] = here[j]
        <4>1. PICK j \in 1..Len(here) : marking'[i] = here[j]
          BY <3>2
        <4>2. CASE here[j].node = call.node /\ here[j].todo # {}
          BY <4>1, <4>2
        <4>3. CASE \E k \in 1..Len(marking) : here[j] = marking[k]
          BY <4>1, <4>3
        <4>. QED
          BY <4>2, <4>3, <1>14
      <3>. QED
        BY <3>1, <3>2, <1>20
    <2>. QED
      BY <2>1
  <1>22. ASSUME NEW n, NEW g, Pending(n, g), ~(n = call.node /\ g = f)
         PROVE  Pending(n, g)'
    <2>1. PICK i \in 1..Len(marking) : marking[i].node = n /\ g \in marking[i].todo
      BY <1>22 DEF Pending
    <2>2. PICK j \in 1..Len(here) : here[j].node = n /\ g \in here[j].todo
      BY <2>1, <1>14, <1>22
    <2>3. PICK k \in 1..Len(marking') : marking'[k] = here[j]
      BY <1>20
    <2>. QED
      BY <2>2, <2>3 DEF Pending
  <1>23. ASSUME entered = 1, kind[x] # "fd", NEW g \in Fields
         PROVE  Pending(x, g)'
    <2>1. 1 \in 1..Len(into)
      BY <1>19, <1>23
    <2>2. 1 \in 1..Len(marking') /\ marking'[1].node = x /\ marking'[1].todo = Fields
      BY <2>1, <1>19, <1>20
    <2>. QED
      BY <2>2 DEF Pending
  <1>24. \A h \in Cells : color'[h] = color[h]
                          \/ (Unswept(h) /\ color[h] # mutator /\ color'[h] \in {mutator, propagator})
    BY <1>19
  <1>25. /\ sweeper' = sweeper /\ propagator' = propagator /\ White' = White
         /\ \A v : Unswept(v) => Unswept(v)'
         /\ \A v : Reached(v) => Reached(v)'
         /\ \A h \in Cells : color[h] = mutator => color'[h] = mutator
         /\ \A h \in Cells : magic[h] = "A" => (color'[h] # sweeper <=> color[h] # sweeper)
    BY <1>2, <1>19, <1>24, MarkingFacts DEF IInv
  <1>26. /\ base' \in BOOLEAN /\ ptr' \in 1..Limit
         /\ base' => ptr' \in Cells /\ magic'[ptr'] # "0"
         /\ (gcpc' = "scan" /\ gcpc = "scan")
            \/ (gcpc' = "roots" /\ gcpc = "roots" /\ ~base')
            \/ (base' /\ marking' = <<>> /\ gcpc = "scan" /\ gcpc' = IF idle THEN "loop" ELSE "out")
         /\ vm' \in {Collector, Nobody} /\ (vm' = Collector <=> gcpc' \in {"loop", "scan", "roots"})
         /\ PassInv'
         /\ Kept' = Kept
         /\ marking' # <<>> => UNCHANGED <<base, ptr, gcpc, vm>>
    <2>1. CASE marking' = <<>> /\ gcpc = "scan"
      <3>1. base
        BY <2>1, <1>1
      <3>2. Advance(ptr, magic')
        BY <2>1, <1>3
      <3>3. ASSUME NEW o \in Cells, magic'[o] = "A", o <= ptr
            PROVE  color'[o] # sweeper' /\ (color'[o] = propagator' => nprop')
        <4>1. ptr \in Cells
          BY <3>1, PassFact
        <4>2. CASE o = ptr
          <5>1. color[o] = mutator
            BY <4>2, <2>1, <1>1 DEF IInv, MarkInv
          <5>. QED
            BY <5>1, <1>7, <1>25
        <4>3. CASE o # ptr
          <5>1. o < ptr
            BY <4>1, <4>3, <3>3, Constants DEF Cells
          <5>2. magic[o] = "A"
            BY <3>3, <1>2
          <5>3. color[o] # sweeper /\ (color[o] = propagator => nprop)
            BY <5>1, <5>2, <3>1, PassFact
          <5>4. color'[o] # sweeper'
            BY <5>2, <5>3, <1>25
          <5>5. color'[o] = propagator' => nprop'
            BY <5>3, <1>7, <1>19, <1>25
          <5>. QED
            BY <5>4, <5>5
        <4>. QED
          BY <4>2, <4>3
      <3>4. ptr \in Cells /\ idle \in BOOLEAN /\ idle' = idle
        BY <3>1, <1>2, PassFact DEF IInv, TypeInv
      <3>5. /\ base' \in BOOLEAN /\ ptr' \in 1..Limit
            /\ base' => ptr' \in Cells /\ magic'[ptr'] # "0"
            /\ gcpc' = "scan" \/ (base' /\ gcpc' = IF idle THEN "loop" ELSE "out")
            /\ vm' \in {Collector, Nobody} /\ (vm' = Collector <=> gcpc' \in {"loop", "scan"})
            /\ PassInv'
            /\ Kept' = {o \in Cells : magic'[o] = "A" /\ color'[o] # sweeper'}
        BY <3>2, <3>3, <3>4, <1>13, AdvanceFact
      <3>6. Kept' = Kept
        BY <3>1, <3>5, <1>2, <1>25, PassFact
      <3>. QED
        BY <2>1, <3>5, <3>6
    <2>2. CASE ~(marking' = <<>> /\ gcpc = "scan")
      <3>1. UNCHANGED <<base, ptr, gcpc, vm>>
        BY <2>2, <1>3
      <3>2. Kept' = Kept
        BY <3>1, <1>2, <1>25 DEF Kept, Condemned
      <3>3. PassInv'
        <4>1. CASE ~base
          BY <4>1, <3>1, <1>1 DEF PassInv, Passed1
        <4>2. CASE base
          <5>1. ASSUME NEW o \in Cells, magic[o] = "A", o < ptr
                PROVE  color'[o] # sweeper' /\ (color'[o] = propagator' => nprop')
            <6>1. color[o] # sweeper /\ (color[o] = propagator => nprop)
              BY <4>2, <5>1, PassFact
            <6>. QED
              BY <5>1, <6>1, <1>7, <1>19, <1>25
          <5>. QED
            BY <4>2, <5>1, <3>1, <1>2 DEF PassInv, Passed1
        <4>. QED
          BY <4>1, <4>2
      <3>4. base' \in BOOLEAN /\ ptr' \in 1..Limit /\ (base' => ptr' \in Cells /\ magic'[ptr'] # "0")
        BY <3>1, <1>2 DEF IInv, TypeInv, HeaderInv
      <3>. QED
        BY <3>1, <3>2, <3>3, <3>4, <1>1
    <2>. QED
      BY <2>1, <2>2
  <1>27. TypeInv'
    BY <1>2, <1>19, <1>12, <1>13, <1>20, <1>26 DEF IInv, TypeInv
  <1>28. HeaderInv'
    <2>1. gcpc' # "close"
      <3>1. idle \in BOOLEAN
        BY DEF IInv, TypeInv
      <3>. QED
        BY <3>1, <1>26
    <2>. QED
      BY <2>1, <1>2, <1>26 DEF IInv, HeaderInv
  <1>29. HaltInv'
    <2>1. gcpc' # "close" /\ gcpc # "close"
      BY <1>1, <1>26 DEF IInv, TypeInv
    <2>. QED
      BY <2>1, <1>2 DEF IInv, HaltInv
  <1>30. ControlInv'
    <2>1. \A p \in Progs : vm' # p
      BY <1>26, Constants
    <2>2. rooting # {} => gcpc' = "roots"
      BY <1>1, <1>26
    <2>3. marking' # <<>> => gcpc' = "roots" \/ (gcpc' = "scan" /\ base')
      BY <1>1, <1>26
    <2>4. idle \in BOOLEAN
      BY DEF IInv, TypeInv
    <2>5. CASE idle
      BY <1>1, <1>2, <1>26, <2>1, <2>2, <2>3, <2>5 DEF IInv, ControlInv
    <2>6. CASE ~idle
      BY <1>1, <1>2, <1>26, <2>1, <2>2, <2>3, <2>6 DEF IInv, ControlInv
    <2>. QED
      BY <2>4, <2>5, <2>6
  <1>31. MarkInv'
    <2>1. marking' # <<>> /\ gcpc' = "scan" => magic'[ptr'] = "A" /\ color'[ptr'] = mutator'
      <3>1. ASSUME marking' # <<>>, gcpc' = "scan" PROVE magic'[ptr'] = "A" /\ color'[ptr'] = mutator'
        <4>1. base /\ gcpc = "scan" /\ ptr' = ptr /\ ptr \in Cells
          BY <3>1, <1>1, <1>26, PassFact
        <4>2. magic[ptr] = "A" /\ color[ptr] = mutator
          BY <4>1, <1>1 DEF IInv, MarkInv
        <4>. QED
          BY <4>1, <4>2, <1>2, <1>25
      <3>. QED
        BY <3>1
    <2>2. ASSUME NEW i \in 1..Len(marking')
          PROVE  /\ marking'[i].todo # {}
                 /\ marking'[i].node \in Cells /\ magic'[marking'[i].node] = "A"
                      => color'[marking'[i].node] = mutator'
      <3>1. CASE entered = 1 /\ marking'[i].node = x /\ marking'[i].todo = Fields
        BY <3>1, <1>2, <1>19, Constants
      <3>2. CASE marking'[i].node = call.node /\ marking'[i].todo # {}
        BY <3>2, <1>2, <1>5, <1>25
      <3>3. CASE \E j \in 1..Len(marking) : marking'[i] = marking[j]
        <4>1. PICK j \in 1..Len(marking) : marking'[i] = marking[j]
          BY <3>3
        <4>2. marking[j].todo # {}
              /\ (marking[j].node \in Cells /\ magic[marking[j].node] = "A" => color[marking[j].node] = mutator)
          BY DEF IInv, MarkInv
        <4>. QED
          BY <4>1, <4>2, <1>2, <1>25
      <3>. QED
        BY <3>1, <3>2, <3>3, <1>21
    <2>. QED
      BY <2>1, <2>2 DEF MarkInv
  <1>32. EdgeInv'
    <2>1. ASSUME NEW n \in Nodes, NEW g \in Fields, Scanned(n)', ~Pending(n, g)'
          PROVE  (Scanned(n) /\ ~Pending(n, g)) \/ Reached(ptrs[n][g])'
      <3>1. CASE n = call.node /\ g = f
        <4>1. ptrs'[n][g] = x
          BY <3>1, <1>2, <1>19
        <4>2. x \in Cells => color'[x] \in {mutator, propagator}
          BY <1>19
        <4>. QED
          BY <4>1, <4>2, <1>2, <1>25 DEF Reached
      <3>2. CASE ~(n = call.node /\ g = f) /\ entered = 1 /\ n = x
        <4>1. kind[x] = "fd"
          BY <2>1, <3>2, <1>23
        <4>2. ptrs'[n][g] = Nil
          BY <3>2, <4>1, <1>2, <1>19 DEF IInv, BlankInv
        <4>. QED
          BY <4>2, Constants DEF Reached
      <3>3. CASE ~(n = call.node /\ g = f) /\ ~(entered = 1 /\ n = x)
        <4>1. ~Pending(n, g)
          BY <2>1, <3>3, <1>22
        <4>2. Scanned(n)
          BY <2>1, <3>3, <1>2, <1>7, <1>19 DEF Scanned
        <4>. QED
          BY <4>1, <4>2
      <3>. QED
        BY <3>1, <3>2, <3>3
    <2>. QED
      BY <2>1, <1>2, <1>19, <1>24, MarkingEdges
  <1>33. RootInv'
    <2>0. gcpc = "roots" <=> gcpc' = "roots"
      <3>1. idle \in BOOLEAN
        BY DEF IInv, TypeInv
      <3>. QED
        BY <3>1, <1>1, <1>26
    <2>1. ASSUME NEW p \in Progs PROVE Unswept(cptr[p])' /\ (gcpc' # "roots" => Reached(cptr[p])')
      <3>1. Unswept(cptr[p]) /\ (gcpc # "roots" => Reached(cptr[p]))
        BY DEF IInv, RootInv
      <3>. QED
        BY <3>1, <2>0, <1>2, <1>25 DEF Unswept, Reached
    <2>2. ASSUME alive # {} PROVE Unswept(MP)' /\ (gcpc' # "roots" \/ rooting # alive => Reached(MP)')
      <3>1. Unswept(MP) /\ (gcpc # "roots" \/ rooting # alive => Reached(MP))
        BY <2>2 DEF IInv, RootInv
      <3>. QED
        BY <3>1, <2>0, <1>2, <1>25 DEF Unswept, Reached
    <2>. QED
      BY <2>1, <2>2, <1>2 DEF RootInv
  <1>34. DoomInv'
    <2>1. left <= 2 => x \notin doomed /\ call.node \notin doomed
      <3>1. ASSUME left <= 2 PROVE x \notin doomed /\ call.node \notin doomed
        <4>1. call.node \notin doomed
          BY <3>1, <1>4 DEF IInv, DoomInv
        <4>. QED
          BY <4>1, <1>4, <1>8, <1>19 DEF IInv, DoomInv
      <3>. QED
        BY <3>1
    <2>2. left <= 2 => \A o \in doomed : color'[o] = color[o]
      BY <2>1, <1>19 DEF IInv, TypeInv
    <2>3. left <= 1 => left <= 2
      BY DEF IInv, TypeInv
    <2>4. ASSUME left <= 2, NEW i \in 1..Len(marking') PROVE marking'[i].node \notin doomed
      <3>1. \A j \in 1..Len(marking) : marking[j].node \notin doomed
        BY <2>4 DEF IInv, DoomInv
      <3>. QED
        BY <3>1, <2>1, <2>4, <1>21
    <2>. QED
      BY <2>2, <2>3, <2>4, <1>2, <1>25 DEF IInv, DoomInv
  <1>35. StackOK(stack)' /\ ProgInv' /\ BlankInv' /\ KeptInv' /\ RefInv'
    BY <1>2, <1>26, KeptFrame
  <1>. QED
    BY <1>26, <1>27, <1>28, <1>29, <1>30, <1>31, <1>32, <1>33, <1>34, <1>35 DEF IInv

-----------------------------------------------------------------------------
(* At idle, and the sweep                                                  *)

\* What is being freed, and who exits.
LEMMA FreedFacts ==
  ASSUME TypeInv, StackOK(stack)
  PROVE  /\ \A n : n \in BeingFreed <=> On(stack, n) \/ n = dying
         /\ \A p \in alive : p \in Exiting <=> On(stack, p)
  <1>1. \A p \in Progs : DOMAIN stack[p] = 1..Len(stack[p])
    BY DEF TypeInv
  <1>2. ASSUME NEW n PROVE n \in BeingFreed <=> On(stack, n) \/ n = dying
    <2>1. ASSUME n \in BeingFreed, n # dying PROVE On(stack, n)
      <3>1. PICK p \in Progs : n \in {stack[p][i].node : i \in DOMAIN stack[p]}
        BY <2>1 DEF BeingFreed
      <3>2. PICK i \in 1..Len(stack[p]) : n = stack[p][i].node
        BY <3>1, <1>1
      <3>. QED
        BY <3>2 DEF On
    <2>2. ASSUME On(stack, n) PROVE n \in BeingFreed
      <3>1. PICK p \in Progs : \E i \in 1..Len(stack[p]) : stack[p][i].node = n
        BY <2>2 DEF On
      <3>2. n \in {stack[p][i].node : i \in DOMAIN stack[p]}
        BY <3>1, <1>1
      <3>. QED
        BY <3>2 DEF BeingFreed
    <2>3. dying \in BeingFreed
      BY DEF BeingFreed
    <2>. QED
      BY <2>1, <2>2, <2>3
  <1>3. ASSUME NEW p \in alive PROVE p \in Exiting <=> On(stack, p)
    <2>1. p \in Progs
      BY DEF TypeInv
    <2>2. ASSUME On(stack, p) PROVE p \in Exiting
      <3>1. PICK q \in Progs : \E i \in 1..Len(stack[q]) : stack[q][i].node = p
        BY <2>2 DEF On
      <3>2. PICK i \in 1..Len(stack[q]) : stack[q][i].node = p
        BY <3>1
      <3>3. stack[q][i].node \in Progs
        BY <3>2, <2>1
      <3>4. q = p
        BY <3>2, <3>3 DEF StackOK
      <3>. QED
        BY <3>2, <3>4, <1>1 DEF Exiting
    <2>3. ASSUME p \in Exiting PROVE On(stack, p)
      BY <2>1, <2>3, <1>1 DEF Exiting, On
    <2>. QED
      BY <2>2, <2>3
  <1>. QED
    BY <1>2, <1>3

\* What is reached from a root, and on from there, is live.
LEMMA LiveFacts ==
  ASSUME TypeInv
  PROVE  /\ Roots \subseteq Cells /\ Roots \subseteq Live /\ Live \subseteq Cells
         /\ \A o \in Live, f \in Fields : ptrs[o][f] \in Live \cup {Nil}
  <1>1. Roots \subseteq Cells
    BY Constants DEF Roots, TypeInv, Running
  <1>2. Roots \subseteq Live /\ Live \subseteq Cells
    BY <1>1 DEF Live
  <1>3. ASSUME NEW o \in Live, NEW f \in Fields, ptrs[o][f] # Nil PROVE ptrs[o][f] \in Live
    <2>1. o \in Cells /\ ptrs[o][f] \in Cells
      BY <1>2, <1>3, Constants DEF TypeInv
    <2>2. ASSUME NEW S \in SUBSET Cells, Roots \subseteq S, Closed(S) PROVE ptrs[o][f] \in S
      <3>1. o \in S
        BY <2>2 DEF Live
      <3>. QED
        BY <3>1, <2>2, <1>3 DEF Closed
    <2>. QED
      BY <2>1, <2>2 DEF Live
  <1>. QED
    BY <1>1, <1>2, <1>3

\* execatidle begins.
LEMMA ExecatidleStep ==
  ASSUME IInv, Execatidle
  PROVE  IInv'
  <1>. USE DEF heapvars, progvars, passvars
  <1>1. vm = Nobody /\ alive # {} /\ gchalt = 0 /\ gcpc # "close" /\ \A n : ~On(stack, n)
    BY NoDepths DEF Execatidle, IInv
  <1>2. UNCHANGED <<magic, kind, ref, color, ptrs, alive, cptr, ptrtab, stack, gchalt, mutator, nprop,
                    base, ptr, visit, dying, marking, rooting>>
    BY DEF Execatidle
  <1>3. vm' = Collector /\ gcpc' = "loop" /\ idle' = TRUE /\ left' = 3 /\ doomed' = Garbage
    BY DEF Execatidle, IdleEpochs
  <1>4. gcpc = "out" /\ marking = <<>> /\ rooting = {} /\ dying = Nil
    <2>1. gcpc \notin {"loop", "scan", "roots"}
      BY <1>1, Constants DEF IInv, ControlInv
    <2>. QED
      BY <2>1, <1>1 DEF IInv, TypeInv, ControlInv
  <1>5. TypeInv'
    <2>1. Garbage \subseteq Cells
      BY DEF Garbage
    <2>. QED
      BY <2>1, <1>2, <1>3 DEF IInv, TypeInv
  <1>6. HeaderInv' /\ MarkInv' /\ HaltInv'
    BY <1>2, <1>3, <1>4 DEF IInv, HeaderInv, MarkInv, HaltInv
  <1>7. ControlInv'
    <2>1. \A p \in Progs : vm' # p
      BY <1>3, Constants
    <2>. QED
      BY <1>2, <1>3, <1>4, <2>1 DEF IInv, ControlInv, IdleEpochs
  <1>8. EdgeInv' /\ RootInv'
    BY <1>2, <1>3, <1>4, EdgeFrame
  <1>9. PassInv'
    BY <1>2, <1>3, <1>4 DEF IInv, PassInv, Passed1, sweeper, propagator
  <1>10. DoomInv'
    <2>1. /\ TypeInv /\ Garbage \subseteq {o \in Cells : magic[o] = "A"}
          /\ \A o \in Garbage : o \notin Live
          /\ \A o \in Cells : o \notin Garbage /\ magic[o] = "A" => o \in Live
      <3>1. \A o \in Cells : o \notin BeingFreed
        BY <1>1, <1>4, FreedFacts, Constants DEF IInv
      <3>. QED
        BY <3>1 DEF Garbage, IInv
    <2>2. Running = alive
      BY <1>1, FreedFacts DEF Running, Exiting, IInv
    <2>3. ASSUME NEW n \in Nodes \ Garbage, NEW f \in Fields PROVE ptrs[n][f] \notin Garbage
      <3>0. Nil \notin Garbage
        BY <2>1, Constants
      <3>1. CASE n \in alive
        <4>1. ptrs[n][f] \in Roots \cup {Nil}
          BY <3>1, <2>2 DEF Roots
        <4>2. Roots \subseteq Live
          BY <2>1, LiveFacts
        <4>3. CASE ptrs[n][f] \in Live
          BY <4>3, <2>1
        <4>4. CASE ptrs[n][f] \notin Live
          <5>1. ptrs[n][f] = Nil
            BY ONLY <4>1, <4>2, <4>4
          <5>. QED
            BY <5>1, <2>1, Constants
        <4>. QED
          BY <4>3, <4>4
      <3>2. CASE n \in Progs \ alive
        <4>1. ptrs[n][f] = Nil
          BY <3>2 DEF IInv, ProgInv
        <4>. QED
          BY ONLY <3>0, <4>1
      <3>3. CASE n \in Cells /\ magic[n] # "A"
        <4>1. ptrs[n][f] = Nil
          BY <3>3 DEF IInv, BlankInv
        <4>. QED
          BY ONLY <3>0, <4>1
      <3>4. CASE n \in Cells /\ magic[n] = "A"
        <4>1. n \in Live
          BY <3>4, <2>1
        <4>2. ptrs[n][f] \in Live \cup {Nil}
          BY <4>1, <2>1, LiveFacts
        <4>. QED
          BY <4>2, <2>1, Constants
      <3>. QED
        BY <3>1, <3>2, <3>3, <3>4, Constants
    <2>4. ASSUME NEW p \in Progs PROVE cptr[p] \notin Garbage
      <3>1. cptr[p] \in Roots \cup {Nil}
        BY DEF Roots
      <3>. QED
        BY <3>1, <2>1, LiveFacts, Constants
    <2>5. MP \notin Garbage
      <3>1. MP \in Roots
        BY <1>1, <2>2, Constants DEF Roots
      <3>. QED
        BY <3>1, <2>1, LiveFacts
    <2>6. ~(left' <= 2) /\ ~(left' <= 1) /\ ~(left' <= 0)
      BY <1>3
    <2>. QED
      BY <2>1, <2>3, <2>4, <2>5, <2>6, <1>1, <1>2, <1>3 DEF DoomInv
  <1>11. Kept' = Kept
    BY <1>2 DEF Kept, Condemned, sweeper
  <1>12. StackOK(stack)' /\ ProgInv' /\ BlankInv' /\ KeptInv' /\ RefInv'
    BY <1>2, <1>11, KeptFrame
  <1>. QED
    BY <1>5, <1>6, <1>7, <1>8, <1>9, <1>10, <1>12 DEF IInv

\* It ends.
LEMMA IdleEndStep ==
  ASSUME IInv, IdleEnd
  PROVE  IInv'
  <1>. USE DEF heapvars, progvars, passvars
  <1>1. UNCHANGED <<magic, kind, ref, color, ptrs, alive, cptr, ptrtab, stack, gchalt, mutator, nprop,
                    base, ptr, visit, dying, marking, rooting>>
    BY DEF IdleEnd
  <1>2. /\ vm = Collector /\ gcpc = "loop"
        /\ vm' = Nobody /\ gcpc' = "out" /\ idle' = FALSE /\ left' = 0 /\ doomed' = {}
    BY DEF IdleEnd, InLoop
  <1>3. marking = <<>> /\ rooting = {} /\ dying = Nil
    BY <1>2 DEF IInv, ControlInv
  <1>4. TypeInv'
    <2>1. idle' \in BOOLEAN
      BY <1>2
    <2>2. left' \in Int /\ doomed' \subseteq Cells
      BY <1>2
    <2>. QED
      BY <2>1, <2>2, <1>1, <1>2 DEF IInv, TypeInv
  <1>5. HeaderInv' /\ MarkInv' /\ HaltInv'
    BY <1>1, <1>2, <1>3 DEF IInv, HeaderInv, MarkInv, HaltInv
  <1>6. ControlInv'
    <2>1. (\A p \in Progs : vm' # p) /\ vm' # Collector
      BY <1>2, Constants
    <2>. QED
      BY <1>1, <1>2, <1>3, <2>1 DEF IInv, ControlInv
  <1>7. EdgeInv' /\ RootInv'
    BY <1>1, <1>2, EdgeFrame
  <1>8. PassInv'
    BY <1>1, <1>2 DEF IInv, PassInv, Passed1, sweeper, propagator
  <1>9. DoomInv'
    <2>1. doomed' = {} /\ marking' = <<>> /\ Len(marking') = 0
      BY <1>1, <1>2, <1>3
    <2>. QED
      BY <2>1 DEF DoomInv
  <1>10. Kept' = Kept
    BY <1>1 DEF Kept, Condemned, sweeper
  <1>11. StackOK(stack)' /\ ProgInv' /\ BlankInv' /\ KeptInv' /\ RefInv'
    BY <1>1, <1>10, KeptFrame
  <1>. QED
    BY <1>4, <1>5, <1>6, <1>7, <1>8, <1>9, <1>11 DEF IInv

\* The sweep calls a destructor.
LEMMA SweepFDStep ==
  ASSUME IInv, SweepFD
  PROVE  IInv'
  <1>. USE DEF heapvars, progvars
  <1>1. UNCHANGED <<magic, kind, ref, color, ptrs, alive, cptr, ptrtab, stack, mutator, nprop,
                    base, ptr, marking, rooting, idle, left, doomed>>
    BY DEF SweepFD
  <1>2. /\ vm = Collector /\ gcpc = "scan" /\ marking = <<>> /\ base
        /\ magic[ptr] = "A" /\ color[ptr] = sweeper
    BY DEF SweepFD, Scanning
  <1>3. /\ vm' = Nobody /\ gcpc' = "close" /\ visit' = visit - 1 /\ gchalt' = gchalt + 1 /\ dying' = ptr
    BY DEF SweepFD
  <1>4. sweeper' = sweeper /\ propagator' = propagator /\ White' = White
    BY <1>1 DEF sweeper, propagator, White
  <1>5. ptr \in Cells
    BY <1>2, PassFact
  <1>6. TypeInv'
    BY <1>1, <1>3, <1>5 DEF IInv, TypeInv
  <1>7. HeaderInv' /\ MarkInv' /\ HaltInv'
    <2>1. Cardinality(Depths(stack)) \in Nat
      BY FS_CardinalityType DEF IInv, HaltInv
    <2>. QED
      BY <2>1, <1>1, <1>2, <1>3, <1>4 DEF IInv, HeaderInv, MarkInv, HaltInv
  <1>8. ControlInv'
    <2>1. (\A p \in Progs : vm' # p) /\ vm' # Collector
      BY <1>3, Constants
    <2>. QED
      BY <1>1, <1>2, <1>3, <2>1 DEF IInv, ControlInv
  <1>9. EdgeInv' /\ RootInv'
    BY <1>1, <1>2, <1>3, EdgeFrame
  <1>10. PassInv'
    BY <1>1, <1>2, <1>3, <1>4 DEF IInv, PassInv, Passed1
  <1>11. DoomInv'
    BY <1>1, <1>4 DEF IInv, DoomInv
  <1>12. Kept' = Kept
    BY <1>1 DEF Kept, Condemned, sweeper
  <1>13. StackOK(stack)' /\ ProgInv' /\ BlankInv' /\ KeptInv' /\ RefInv'
    BY <1>1, <1>12, KeptFrame
  <1>. QED
    BY <1>6, <1>7, <1>8, <1>9, <1>10, <1>11, <1>13 DEF IInv

\* The sweep has freed the block it stands on.
LEMMA SweptStep ==
  ASSUME IInv, base, gcpc \in {"scan", "close"}, marking = <<>>, magic[ptr] = "A", color[ptr] = sweeper,
         Poolfree(ptr), Advance(PtrAfterFree(ptr), magic'), visit' \in Int, dying' = Nil,
         gchalt' = gchalt - (IF gcpc = "close" THEN 1 ELSE 0),
         UNCHANGED <<ref, progvars, mutator, nprop, marking, rooting, idle, left>>
  PROVE  IInv'
  <1>. USE DEF progvars
  <1>1. /\ ptr \in Cells /\ Kept = {o \in Cells : magic[o] = "A" /\ color[o] # sweeper}
        /\ \A o \in Cells : magic[o] = "A" /\ o < ptr
                              => color[o] # sweeper /\ (color[o] = propagator => nprop)
    BY PassFact
  <1>2. sweeper' = sweeper /\ propagator' = propagator /\ White' = White
    BY DEF sweeper, propagator, White
  <1>3. rooting = {}
    BY DEF IInv, ControlInv
  <1>4. /\ magic' \in [Cells -> {"A", "F", "0"}]
        /\ magic'[MP] # "0" /\ magic'[ptr] # "A"
        /\ \A c \in Cells \ {ptr} : magic'[c] = "A" <=> magic[c] = "A"
        /\ PtrAfterFree(ptr) \in Cells /\ PtrAfterFree(ptr) <= ptr
    <2>1. magic' = FreedMagic(ptr)
      BY DEF Poolfree
    <2>2. magic \in [Cells -> {"A", "F", "0"}] /\ magic[MP] # "0" /\ ptr \in 1..Limit
      BY DEF IInv, TypeInv, HeaderInv
    <2>. QED
      BY <2>1, <2>2, <1>1, PoolfreeFact
  <1>5. /\ kind' \in [Cells -> {"rec", "fd"}] /\ kind'[ptr] = "rec"
        /\ \A o \in Cells \ {ptr} : kind'[o] = kind[o]
    BY <1>1 DEF Poolfree, IInv, TypeInv
  <1>6. color' \in [Cells -> 0..3] /\ \A o \in Cells \ {ptr} : color'[o] = color[o]
    BY <1>1 DEF Poolfree, IInv, TypeInv
  <1>7. /\ ptrs' \in [Nodes -> [Fields -> Cells \cup {Nil}]]
        /\ \A f \in Fields : ptrs'[ptr][f] = Nil
        /\ \A n \in Nodes \ {ptr} : ptrs'[n] = ptrs[n]
    <2>1. ptrs' = [ptrs EXCEPT ![ptr] = [f \in Fields |-> Nil]] /\ ptr \in Nodes
      BY <1>1, Constants DEF Poolfree
    <2>. QED
      BY <2>1 DEF IInv, TypeInv
  <1>8. doomed' = doomed \ {ptr}
    BY DEF Poolfree
  <1>9. ASSUME NEW o \in Cells, magic'[o] = "A", o <= PtrAfterFree(ptr)
        PROVE  color'[o] # sweeper' /\ (color'[o] = propagator' => nprop')
    <2>1. o # ptr /\ o < ptr
      BY <1>1, <1>4, <1>9, Constants DEF Cells
    <2>. QED
      BY <2>1, <1>1, <1>2, <1>4, <1>6, <1>9
  <1>10. /\ base' \in BOOLEAN /\ ptr' \in 1..Limit
         /\ base' => ptr' \in Cells /\ magic'[ptr'] # "0"
         /\ gcpc' = "scan" \/ (base' /\ gcpc' = IF idle THEN "loop" ELSE "out")
         /\ vm' \in {Collector, Nobody} /\ (vm' = Collector <=> gcpc' \in {"loop", "scan"})
         /\ PassInv'
         /\ Kept' = {o \in Cells : magic'[o] = "A" /\ color'[o] # sweeper'}
    BY <1>4, <1>9, AdvanceFact DEF IInv, TypeInv
  <1>11. gcpc' # "close" /\ gcpc' # "roots" /\ gcpc' \in {"out", "loop", "scan"}
    BY <1>10 DEF IInv, TypeInv
  <1>12. Kept' = Kept /\ ptr \notin Kept /\ Holders' = Holders /\ Holders \subseteq Nodes \ {ptr}
    <2>1. Kept' = Kept /\ ptr \notin Kept
      BY <1>1, <1>2, <1>4, <1>6, <1>10
    <2>. QED
      BY <2>1, <1>1, Constants DEF Holders, Kept
  <1>13. TypeInv'
    <2>1. gchalt' \in Int
      BY DEF IInv, TypeInv
    <2>. QED
      BY <2>1, <1>4, <1>5, <1>6, <1>7, <1>8, <1>10, <1>11 DEF IInv, TypeInv
  <1>14. HeaderInv' /\ MarkInv'
    <2>1. Len(marking') = 0
      OBVIOUS
    <2>. QED
      BY <2>1, <1>4, <1>10, <1>11 DEF HeaderInv, MarkInv
  <1>15. HaltInv'
    <2>1. Cardinality(Depths(stack)) \in Nat
      BY FS_CardinalityType DEF IInv, HaltInv
    <2>. QED
      BY <2>1, <1>11 DEF IInv, HaltInv
  <1>16. ControlInv'
    <2>1. \A p \in Progs : vm' # p
      BY <1>10, Constants
    <2>2. CASE idle
      BY <1>3, <1>10, <1>11, <2>1, <2>2 DEF IInv, ControlInv
    <2>3. CASE ~idle
      <3>1. (gcpc' = "scan" \/ gcpc' = "out") /\ idle' = idle /\ left' = left /\ doomed = {} /\ left = 0
        BY <2>3, <1>10 DEF IInv, ControlInv
      <3>2. doomed' = {}
        BY <3>1, <1>8
      <3>. QED
        BY <1>3, <1>10, <2>1, <2>3, <3>1, <3>2 DEF IInv, ControlInv
    <2>. QED
      BY <2>2, <2>3
  <1>17. StackOK(stack)' /\ ProgInv'
    <2>1. \A p \in Progs : ptrs'[p] = ptrs[p]
      BY <1>1, <1>7, Constants
    <2>2. StackOK(stack)'
      BY DEF IInv, StackOK
    <2>. QED
      BY <2>1, <2>2 DEF IInv, ProgInv
  <1>18. BlankInv'
    BY <1>4, <1>5, <1>7, Constants DEF IInv, BlankInv
  <1>19. KeptInv'
    <2>1. ASSUME NEW n \in Holders, NEW f \in Fields, ~Did(stack, n, f)
          PROVE  ptrs'[n][f] = Nil \/ (ptrs'[n][f] \in Kept /\ ~On(stack, ptrs'[n][f]))
      BY <2>1, <1>7, <1>12 DEF IInv, KeptInv
    <2>2. \A o \in Kept : kind'[o] = kind[o]
      BY <1>5, <1>12 DEF Kept
    <2>. QED
      BY <2>1, <2>2, <1>12, Constants DEF IInv, KeptInv
  <1>20. RefInv'
    <2>1. ASSUME NEW o PROVE SlotRefs(o)' = SlotRefs(o)
      <3>1. \A n \in Holders : ptrs'[n] = ptrs[n]
        BY <1>7, <1>12
      <3>. QED
        BY <3>1, <1>12 DEF SlotRefs
    <2>2. ASSUME NEW o PROVE HostRefs(o)' = HostRefs(o) /\ LinkRefs(o)' = LinkRefs(o)
      BY DEF HostRefs, LinkRefs
    <2>. QED
      BY <2>1, <2>2, <1>12 DEF IInv, RefInv
  <1>21. /\ \A v : Unswept(v) => Unswept(v)'
         /\ \A v : Reached(v) => Reached(v)'
    BY <1>2, <1>4, <1>6 DEF Unswept, Reached
  <1>22. EdgeInv'
    <2>1. ASSUME NEW n \in Nodes, NEW f \in Fields
          PROVE  /\ Stays(n)' => Unswept(ptrs[n][f])'
                 /\ Scanned(n)' /\ ~Pending(n, f)' => Reached(ptrs[n][f])'
      <3>1. CASE n = ptr
        BY <3>1, <1>7, Constants DEF Unswept, Reached
      <3>2. CASE n # ptr
        <4>1. ptrs'[n][f] = ptrs[n][f]
          BY <3>2, <1>7
        <4>2. (Stays(n)' => Stays(n)) /\ (Scanned(n)' => Scanned(n)) /\ (Pending(n, f) => Pending(n, f)')
          BY <3>2, <1>2, <1>4, <1>6 DEF Stays, Scanned, Pending
        <4>3. (Stays(n) => Unswept(ptrs[n][f])) /\ (Scanned(n) /\ ~Pending(n, f) => Reached(ptrs[n][f]))
          BY DEF IInv, EdgeInv
        <4>4. (Unswept(ptrs[n][f]) => Unswept(ptrs[n][f])') /\ (Reached(ptrs[n][f]) => Reached(ptrs[n][f])')
          BY <4>1, <1>21 DEF Unswept, Reached
        <4>. QED
          BY <4>2, <4>3, <4>4
      <3>. QED
        BY <3>1, <3>2
    <2>. QED
      BY <2>1 DEF EdgeInv
  <1>23. RootInv'
    <2>1. ASSUME NEW p \in Progs PROVE Unswept(cptr[p])' /\ Reached(cptr[p])'
      <3>1. Unswept(cptr[p]) /\ Reached(cptr[p])
        BY DEF IInv, RootInv
      <3>. QED
        BY <3>1, <1>21 DEF Unswept, Reached
    <2>2. ASSUME alive # {} PROVE Unswept(MP)' /\ Reached(MP)'
      BY <2>2, <1>21 DEF IInv, RootInv
    <2>. QED
      BY <2>1, <2>2 DEF RootInv
  <1>24. DoomInv'
    <2>1. \A o \in doomed' : o \in doomed /\ magic'[o] = "A" /\ color'[o] = color[o] /\ ~On(stack, o)
      BY <1>4, <1>6, <1>8 DEF IInv, DoomInv, TypeInv
    <2>2. ASSUME NEW n \in Nodes \ doomed', NEW f \in Fields PROVE ptrs'[n][f] \notin doomed'
      <3>1. CASE n = ptr
        <4>1. ptrs'[n][f] = Nil /\ doomed' \subseteq Cells
          BY <3>1, <1>7, <1>8 DEF IInv, TypeInv
        <4>. QED
          BY <4>1, Constants
      <3>2. CASE n # ptr
        BY <3>2, <1>7, <1>8 DEF IInv, DoomInv
      <3>. QED
        BY <3>1, <3>2
    <2>3. doomed' \subseteq doomed /\ Len(marking') = 0
      BY <2>1
    <2>. QED
      BY <2>1, <2>2, <2>3, <1>2 DEF IInv, DoomInv
  <1>. QED
    BY <1>10, <1>13, <1>14, <1>15, <1>16, <1>17, <1>18, <1>19, <1>20, <1>22, <1>23, <1>24 DEF IInv

\* A block of the last colour that has no destructor to wait for.
LEMMA SweepStep ==
  ASSUME IInv, Sweep
  PROVE  IInv'
  <1>1. base /\ gcpc = "scan" /\ marking = <<>> /\ magic[ptr] = "A" /\ color[ptr] = sweeper
    BY DEF Sweep, Scanning
  <1>2. dying = Nil
    BY <1>1 DEF IInv, ControlInv
  <1>3. gchalt' = gchalt - (IF gcpc = "close" THEN 1 ELSE 0)
    BY <1>1 DEF Sweep, IInv, TypeInv
  <1>4. visit' \in Int
    BY DEF Sweep, IInv, TypeInv
  <1>. QED
    BY <1>1, <1>2, <1>3, <1>4, SweptStep DEF Sweep

\* A block of the last colour whose destructor has come back.
LEMMA SweptFDStep ==
  ASSUME IInv, SweptFD
  PROVE  IInv'
  <1>1. base /\ gcpc = "close" /\ dying = ptr /\ magic[ptr] = "A" /\ color[ptr] = sweeper
    BY DEF SweptFD, IInv, HeaderInv
  <1>2. marking = <<>>
    BY <1>1 DEF IInv, ControlInv
  <1>3. gchalt' = gchalt - (IF gcpc = "close" THEN 1 ELSE 0)
    BY <1>1 DEF SweptFD
  <1>4. visit' \in Int
    BY DEF SweptFD, IInv, TypeInv
  <1>. QED
    BY <1>1, <1>2, <1>3, <1>4, SweptStep DEF SweptFD

-----------------------------------------------------------------------------
(* The steps of progs: what they have in common                            *)

\* The count r of three sets of references.
Refs(A, B, C, r) ==
  /\ IsFiniteSet(A) /\ IsFiniteSet(B) /\ IsFiniteSet(C)
  /\ Cardinality(A) + Cardinality(B) + Cardinality(C) <= r

\* Each gains or loses one, or none, and the count goes with them.
Balanced(A, B, C, r, a, b, c, A2, B2, C2, r2) ==
  /\ A2 \ {a} = A \ {a} /\ B2 \ {b} = B \ {b} /\ C2 \ {c} = C \ {c}
  /\ r2 + (IF a \in A THEN 1 ELSE 0) + (IF b \in B THEN 1 ELSE 0) + (IF c \in C THEN 1 ELSE 0)
       >= r + (IF a \in A2 THEN 1 ELSE 0) + (IF b \in B2 THEN 1 ELSE 0) + (IF c \in C2 THEN 1 ELSE 0)

\* It is still not less than what it counts.
LEMMA Counts ==
  ASSUME NEW A, NEW B, NEW C, NEW A2, NEW B2, NEW C2, NEW a, NEW b, NEW c,
         NEW r \in Int, NEW r2 \in Int,
         Refs(A, B, C, r), Balanced(A, B, C, r, a, b, c, A2, B2, C2, r2)
  PROVE  Refs(A2, B2, C2, r2) /\ r2 >= 0
  <1>. DEFINE x == IF a \in A THEN 1 ELSE 0
              x2 == IF a \in A2 THEN 1 ELSE 0
              y == IF b \in B THEN 1 ELSE 0
              y2 == IF b \in B2 THEN 1 ELSE 0
              z == IF c \in C THEN 1 ELSE 0
              z2 == IF c \in C2 THEN 1 ELSE 0
  <1>1. /\ IsFiniteSet(A2) /\ Cardinality(A) \in Nat /\ Cardinality(A2) \in Nat
        /\ Cardinality(A2) + x = Cardinality(A) + x2
    BY OneMoves DEF Refs, Balanced
  <1>2. /\ IsFiniteSet(B2) /\ Cardinality(B) \in Nat /\ Cardinality(B2) \in Nat
        /\ Cardinality(B2) + y = Cardinality(B) + y2
    BY OneMoves DEF Refs, Balanced
  <1>3. /\ IsFiniteSet(C2) /\ Cardinality(C) \in Nat /\ Cardinality(C2) \in Nat
        /\ Cardinality(C2) + z = Cardinality(C) + z2
    BY OneMoves DEF Refs, Balanced
  <1>4. x \in Nat /\ x2 \in Nat /\ y \in Nat /\ y2 \in Nat /\ z \in Nat /\ z2 \in Nat
    OBVIOUS
  <1>5. /\ r2 + x + y + z >= r + x2 + y2 + z2
        /\ Cardinality(A) + Cardinality(B) + Cardinality(C) <= r
    BY DEF Refs, Balanced
  <1>. HIDE DEF x, x2, y, y2, z, z2
  <1>6. Cardinality(A2) + Cardinality(B2) + Cardinality(C2) <= r2
    BY <1>1, <1>2, <1>3, <1>4, <1>5
  <1>. QED
    BY <1>1, <1>2, <1>3, <1>6 DEF Refs

\* A count of none counts nothing.
LEMMA NoneCounted ==
  ASSUME NEW A, NEW B, NEW C, IsFiniteSet(A), IsFiniteSet(B), IsFiniteSet(C),
         NEW r \in Int, Cardinality(A) + Cardinality(B) + Cardinality(C) <= r, r <= 0
  PROVE  A = {} /\ B = {} /\ C = {}
  <1>1. Cardinality(A) \in Nat /\ Cardinality(B) \in Nat /\ Cardinality(C) \in Nat
    BY FS_CardinalityType
  <1>2. Cardinality(A) = 0 /\ Cardinality(B) = 0 /\ Cardinality(C) = 0
    BY <1>1
  <1>. QED
    BY <1>2, FS_EmptySet

\* The collector is not in rungc, but for a destructor it has called.
LEMMA Quiet ==
  ASSUME IInv, vm # Collector,
         UNCHANGED <<mutator, base, gcpc, dying, marking, rooting, idle, left>>
  PROVE  /\ gcpc \in {"out", "close"} /\ marking = <<>> /\ rooting = {} /\ Len(marking) = 0
         /\ sweeper' = sweeper /\ propagator' = propagator /\ White' = White
         /\ sweeper # mutator /\ propagator # mutator /\ propagator # sweeper
         /\ MarkInv'
         /\ \A n, f : ~Pending(n, f) /\ ~Pending(n, f)'
         /\ alive # {} => Unswept(MP) /\ Reached(MP)
         /\ \A p \in Progs : Unswept(cptr[p]) /\ Reached(cptr[p])
  <1>1. gcpc \in {"out", "close"} /\ marking = <<>> /\ rooting = {}
    <2>1. gcpc \notin {"loop", "scan", "roots"}
      BY DEF IInv, ControlInv
    <2>. QED
      BY <2>1 DEF IInv, TypeInv, ControlInv
  <1>2. Len(marking) = 0 /\ marking' = <<>> /\ Len(marking') = 0
    BY <1>1
  <1>3. sweeper' = sweeper /\ propagator' = propagator /\ White' = White
    BY DEF sweeper, propagator, White
  <1>4. sweeper # mutator /\ propagator # mutator /\ propagator # sweeper
    BY ColourFacts DEF IInv, TypeInv
  <1>5. MarkInv'
    BY <1>2 DEF MarkInv
  <1>6. \A n, f : ~Pending(n, f) /\ ~Pending(n, f)'
    BY <1>2 DEF Pending
  <1>7. gcpc # "roots"
    BY <1>1
  <1>8. /\ alive # {} => Unswept(MP) /\ Reached(MP)
        /\ \A p \in Progs : Unswept(cptr[p]) /\ Reached(cptr[p])
    BY <1>7 DEF IInv, RootInv
  <1>. QED
    BY <1>1, <1>2, <1>3, <1>4, <1>5, <1>6, <1>8

\* A step outside a pass leaves the control of the collector right.
LEMMA QuietControl ==
  ASSUME IInv, vm # Collector,
         UNCHANGED <<mutator, base, gcpc, dying, marking, rooting, idle, left>>,
         vm' \in Progs \cup {Nobody}, \A p \in Progs : vm' = p => stack'[p] # <<>>,
         doomed' \subseteq doomed
  PROVE  ControlInv'
  <1>1. gcpc \in {"out", "close"} /\ marking = <<>> /\ rooting = {}
    BY Quiet
  <1>2. vm' # Collector
    BY Constants
  <1>. QED
    BY <1>1, <1>2 DEF IInv, ControlInv

\* What is pointed to is kept and not being freed, but for v, perhaps.
KeptBut(v, pushed) ==
  /\ pushed => v \in Kept' /\ ref'[v] <= 0
  /\ \A n \in Nodes : On(stack', n) => n \in Holders'
  /\ \A n \in Holders', f \in Fields :
       ~Did(stack', n, f) => \/ ptrs'[n][f] = Nil
                             \/ ptrs'[n][f] \in Kept'
                                /\ (On(stack', ptrs'[n][f]) => pushed /\ ptrs'[n][f] = v)
  /\ \A p \in Progs : cptr'[p] # Nil =>
       /\ cptr'[p] \in Kept' /\ kind'[cptr'[p]] = "rec"
       /\ On(stack', cptr'[p]) => pushed /\ cptr'[p] = v
  /\ Linked(stack', alive') # {} =>
       /\ MP \in Kept' /\ kind'[MP] = "rec"
       /\ On(stack', MP) => pushed /\ MP = v

\* If v is being freed now, that was its last reference.
LEMMA KeptAfter ==
  ASSUME TypeInv', RefInv', NEW v, NEW pushed \in BOOLEAN, KeptBut(v, pushed)
  PROVE  KeptInv'
  <1>. USE DEF KeptBut
  <1>1. ASSUME pushed PROVE SlotRefs(v)' = {} /\ HostRefs(v)' = {} /\ LinkRefs(v)' = {}
    <2>0. v \in Kept' /\ ref'[v] <= 0
      BY <1>1
    <2>1. /\ IsFiniteSet(SlotRefs(v)') /\ IsFiniteSet(HostRefs(v)') /\ IsFiniteSet(LinkRefs(v)')
          /\ Cardinality(SlotRefs(v)') + Cardinality(HostRefs(v)') + Cardinality(LinkRefs(v)') <= ref'[v]
      BY <2>0 DEF RefInv
    <2>2. ref'[v] \in Int
      BY <2>0 DEF TypeInv, Kept
    <2>. QED
      BY <2>0, <2>1, <2>2, NoneCounted
  <1>2. ASSUME NEW n \in Holders', NEW f \in Fields, ~Did(stack', n, f), ptrs'[n][f] # Nil
        PROVE  ptrs'[n][f] \in Kept' /\ ~On(stack', ptrs'[n][f])
    <2>1. CASE pushed /\ ptrs'[n][f] = v
      <3>1. n \in Nodes
        BY Constants DEF Holders, Kept
      <3>2. <<n, f>> \in SlotRefs(v)'
        BY <2>1, <3>1, <1>2 DEF SlotRefs
      <3>. QED
        BY <2>1, <3>2, <1>1
    <2>2. CASE ~(pushed /\ ptrs'[n][f] = v)
      BY <2>2, <1>2
    <2>. QED
      BY <2>1, <2>2
  <1>3. ASSUME NEW p \in Progs, cptr'[p] # Nil PROVE ~On(stack', cptr'[p])
    <2>1. CASE pushed /\ cptr'[p] = v
      <3>1. p \in HostRefs(v)'
        BY <2>1 DEF HostRefs
      <3>. QED
        BY <2>1, <3>1, <1>1
    <2>2. CASE ~(pushed /\ cptr'[p] = v)
      BY <2>2, <1>3
    <2>. QED
      BY <2>1, <2>2
  <1>4. ASSUME Linked(stack', alive') # {} PROVE ~On(stack', MP)
    <2>1. CASE pushed /\ MP = v
      <3>1. LinkRefs(v)' = Linked(stack', alive')
        BY <2>1 DEF LinkRefs
      <3>. QED
        BY <2>1, <3>1, <1>1, <1>4
    <2>2. CASE ~(pushed /\ MP = v)
      BY <2>2, <1>4
    <2>. QED
      BY <2>1, <2>2
  <1>. QED
    BY <1>2, <1>3, <1>4 DEF KeptInv

\* Only the calls of destroy change: no pointer has been dropped, and no other
\* block is being freed.
LEMMA StackFrame ==
  ASSUME IInv, vm # Collector,
         UNCHANGED <<magic, kind, ref, color, ptrs, alive, cptr, ptrtab, mutator, nprop, base, ptr, visit,
                     gcpc, dying, marking, rooting, idle, left, doomed>>,
         stack' \in [Progs -> Seq(Call)], StackOK(stack'), HaltInv', gchalt' \in Int,
         vm' \in Progs \cup {Nobody}, \A p \in Progs : vm' = p => stack'[p] # <<>>,
         \A n \in Nodes, f \in Fields \cup {"M"} : Did(stack', n, f) <=> Did(stack, n, f),
         \A n : On(stack', n) => On(stack, n) \/ n \in Progs,
         \A p \in Progs : stack'[p] # <<>> => p \in alive /\ cptr[p] = Nil
  PROVE  IInv'
  <1>1. /\ sweeper' = sweeper /\ propagator' = propagator /\ White' = White
        /\ MarkInv' /\ gcpc # "roots" /\ gcpc # "scan"
    BY Quiet
  <1>2. TypeInv'
    BY DEF IInv, TypeInv
  <1>3. HeaderInv'
    BY <1>1 DEF IInv, HeaderInv
  <1>4. ControlInv'
    BY QuietControl
  <1>5. StackOK(stack)'
    OBVIOUS
  <1>6. ProgInv'
    BY DEF IInv, ProgInv
  <1>7. BlankInv'
    BY DEF IInv, BlankInv
  <1>8. Kept' = Kept /\ Holders' = Holders /\ Holders \subseteq Nodes
    BY <1>1, Constants DEF Kept, Condemned, Holders
  <1>9. Linked(stack', alive') = Linked(stack, alive)
    BY Constants DEF Linked, IInv, TypeInv
  <1>10. \A o \in Cells : On(stack', o) => On(stack, o)
    BY Constants
  <1>11. KeptInv'
    <2>1. ASSUME NEW n \in Nodes, On(stack', n) PROVE n \in Holders
      <3>1. On(stack, n) \/ n \in Progs
        BY <2>1
      <3>. QED
        BY <3>1 DEF IInv, KeptInv, Holders
    <2>2. ASSUME NEW n \in Holders, NEW f \in Fields, ~Did(stack', n, f)
          PROVE  ptrs[n][f] = Nil \/ (ptrs[n][f] \in Kept /\ ~On(stack', ptrs[n][f]))
      <3>1. ~Did(stack, n, f)
        BY <2>2, <1>8
      <3>2. ptrs[n][f] = Nil \/ (ptrs[n][f] \in Kept /\ ~On(stack, ptrs[n][f]))
        BY <3>1 DEF IInv, KeptInv
      <3>. QED
        BY <3>2, <1>10 DEF Kept
    <2>3. ASSUME NEW p \in Progs, cptr[p] # Nil
          PROVE  cptr[p] \in Kept /\ ~On(stack', cptr[p]) /\ kind[cptr[p]] = "rec"
      BY <2>3, <1>10 DEF IInv, KeptInv, Kept
    <2>4. ASSUME Linked(stack, alive) # {} PROVE MP \in Kept /\ ~On(stack', MP) /\ kind[MP] = "rec"
      BY <2>4, <1>10 DEF IInv, KeptInv, Kept
    <2>. QED
      BY <2>1, <2>2, <2>3, <2>4, <1>8, <1>9 DEF KeptInv
  <1>12. RefInv'
    <2>1. ASSUME NEW o PROVE SlotRefs(o)' = SlotRefs(o)
      <3>1. \A s \in Nodes \X Fields : Did(stack', s[1], s[2]) <=> Did(stack, s[1], s[2])
        OBVIOUS
      <3>. QED
        BY <3>1, <1>8 DEF SlotRefs
    <2>2. ASSUME NEW o PROVE HostRefs(o)' = HostRefs(o) /\ LinkRefs(o)' = LinkRefs(o)
      BY <1>9 DEF HostRefs, LinkRefs
    <2>. QED
      BY <2>1, <2>2, <1>8 DEF IInv, RefInv
  <1>13. EdgeInv'
    BY <1>1 DEF IInv, EdgeInv, Stays, Scanned, Pending, Unswept, Reached
  <1>14. RootInv'
    BY <1>1 DEF IInv, RootInv, Unswept, Reached
  <1>15. PassInv'
    BY <1>1 DEF IInv, PassInv, Passed1
  <1>16. DoomInv'
    <2>1. \A o \in doomed : magic[o] = "A" /\ ~On(stack', o)
      BY <1>10 DEF IInv, DoomInv, TypeInv
    <2>. QED
      BY <2>1, <1>1 DEF IInv, DoomInv
  <1>. QED
    BY <1>1, <1>2, <1>3, <1>4, <1>5, <1>6, <1>7, <1>11, <1>12, <1>13, <1>14, <1>15, <1>16 DEF IInv

\* The destructor of an FD goes on; it drops nothing.
LEMMA FDStep ==
  ASSUME IInv, NEW p \in Progs, stack[p] # <<>>, vm # Collector,
         Top(p).todo \in {{"close"}, {"closing"}},
         NEW t \in {{"closing"}, {}},
         stack' = [stack EXCEPT ![p] = Rest(p, t)], vm' \in {Nobody, p},
         UNCHANGED <<heapvars, alive, cptr, ptrtab, gchalt, mutator, nprop, passvars, gcvars, doomed>>
  PROVE  IInv'
  <1>. USE DEF heapvars, passvars, gcvars
  <1>1. stack \in [Progs -> Seq(Call)] /\ StackOK(stack) /\ IsFiniteSet(Depths(stack))
    BY DEF IInv, TypeInv, HaltInv
  <1>2. t \in SUBSET (Fields \cup {"close", "closing", "M"}) /\ ("M" \in t => "M" \in Head(stack[p]).todo)
    OBVIOUS
  <1>3. stack' = [stack EXCEPT ![p] = <<[Head(stack[p]) EXCEPT !.todo = t]>> \o Tail(stack[p])]
    BY DEF Rest, Top
  <1>4. /\ stack' \in [Progs -> Seq(Call)] /\ StackOK(stack') /\ stack'[p] # <<>>
        /\ \A q \in Progs \ {p} : stack'[q] = stack[q]
        /\ Depths(stack') = Depths(stack)
        /\ \A n : On(stack', n) <=> On(stack, n)
        /\ \A n, f : n # Head(stack[p]).node => (Did(stack', n, f) <=> Did(stack, n, f))
        /\ \A f : Did(stack', Head(stack[p]).node, f) <=> f \notin t
        /\ \A f : Did(stack, Head(stack[p]).node, f) <=> f \notin Head(stack[p]).todo
    <2>1. Tops(stack, stack', p, t)
      BY <1>1, <1>2, <1>3, TopStack
    <2>. QED
      BY <2>1 DEF Tops
  <1>5. ASSUME NEW n \in Nodes, NEW f \in Fields \cup {"M"}
        PROVE  Did(stack', n, f) <=> Did(stack, n, f)
    <2>1. f # "close" /\ f # "closing"
      BY ONLY Constants, f \in Fields \cup {"M"}
    <2>2. f \notin t /\ f \notin Top(p).todo
      BY <2>1
    <2>. QED
      BY <2>2, <1>4 DEF Top
  <1>6. HaltInv'
    BY <1>4 DEF IInv, HaltInv
  <1>7. \A q \in Progs : stack'[q] # <<>> => q \in alive /\ cptr[q] = Nil
    BY <1>4 DEF IInv, ProgInv
  <1>8. gchalt' \in Int
    BY DEF IInv, TypeInv
  <1>9. vm' \in Progs \cup {Nobody} /\ \A q \in Progs : vm' = q => stack'[q] # <<>>
    BY <1>4, Constants
  <1>. QED
    BY <1>4, <1>5, <1>6, <1>7, <1>8, <1>9, StackFrame

\* freefd of a dying FD releases the VM.
LEMMA FreeFDStep ==
  ASSUME IInv, NEW p \in Progs, FreeFD(p)
  PROVE  IInv'
  <1>1. stack[p] # <<>> /\ vm = p /\ vm # Collector /\ Top(p).todo = {"close"} /\ vm' = Nobody
    BY Constants DEF FreeFD, InDestroy
  <1>. DEFINE t == {"closing"}
  <1>2. stack' = [stack EXCEPT ![p] = Rest(p, t)]
    BY DEF FreeFD
  <1>3. UNCHANGED <<heapvars, alive, cptr, ptrtab, gchalt, mutator, nprop, passvars, gcvars, doomed>>
    BY DEF FreeFD
  <1>. QED
    BY <1>1, <1>2, <1>3, FDStep

\* And takes it again.
LEMMA FDClosedStep ==
  ASSUME IInv, NEW p \in Progs, FDClosed(p)
  PROVE  IInv'
  <1>1. stack[p] # <<>> /\ vm # Collector /\ Top(p).todo = {"closing"} /\ vm' = p
    BY Constants DEF FDClosed
  <1>. DEFINE t == {}
  <1>2. stack' = [stack EXCEPT ![p] = Rest(p, t)]
    BY DEF FDClosed
  <1>3. UNCHANGED <<heapvars, alive, cptr, ptrtab, gchalt, mutator, nprop, passvars, gcvars, doomed>>
    BY DEF FDClosed
  <1>. QED
    BY <1>1, <1>2, <1>3, FDStep

\* Whose frames nobody frees.
LEMMA Whole ==
  ASSUME IInv, NEW p \in Progs, stack[p] = <<>>
  PROVE  ~On(stack, p) /\ \A f : ~Did(stack, p, f)
  <1>1. ASSUME On(stack, p) PROVE FALSE
    <2>1. PICK q \in Progs : \E i \in 1..Len(stack[q]) : stack[q][i].node = p
      BY <1>1 DEF On
    <2>2. PICK i \in 1..Len(stack[q]) : stack[q][i].node = p
      BY <2>1
    <2>3. stack[q][i].node \in Progs
      BY <2>2
    <2>4. q = p
      BY <2>2, <2>3 DEF IInv, StackOK
    <2>5. Len(stack[q]) = 0
      BY <2>4
    <2>. QED
      BY <2>2, <2>5
  <1>2. ASSUME NEW f, Did(stack, p, f) PROVE FALSE
    <2>1. PICK q \in Progs : \E i \in 1..Len(stack[q]) : stack[q][i].node = p /\ f \notin stack[q][i].todo
      BY <1>2 DEF Did
    <2>. QED
      BY <2>1, <1>1 DEF On
  <1>. QED
    BY <1>1, <1>2

\* Who runs an instruction frees nothing, nor does anybody free its frames.
LEMMA Runner ==
  ASSUME IInv, NEW p \in Progs, Runs(p)
  PROVE  /\ p \in alive /\ stack[p] = <<>> /\ cptr[p] = Nil /\ vm = Nobody /\ vm # Collector
         /\ ~On(stack, p) /\ \A f : ~Did(stack, p, f)
         /\ p \in Linked(stack, alive) /\ MP \in Kept /\ ~On(stack, MP) /\ kind[MP] = "rec"
  <1>1. p \in alive /\ stack[p] = <<>> /\ cptr[p] = Nil /\ vm = Nobody /\ vm # Collector
    BY Constants DEF Runs
  <1>2. ~On(stack, p) /\ \A f : ~Did(stack, p, f)
    BY <1>1, Whole
  <1>3. p \in Linked(stack, alive)
    BY <1>1, <1>2 DEF Linked
  <1>. QED
    BY <1>1, <1>2, <1>3 DEF IInv, KeptInv

\* progexit.
LEMMA ProgexitStep ==
  ASSUME IInv, NEW p \in Progs, Progexit(p)
  PROVE  IInv'
  <1>. USE DEF heapvars, passvars, gcvars
  <1>. DEFINE e == [node |-> p, todo |-> Fields \cup {"M"}]
  <1>1. Runs(p) /\ gchalt' = gchalt + 1 /\ stack' = [stack EXCEPT ![p] = <<e>>] /\ vm' = p
    BY DEF Progexit
  <1>2. UNCHANGED <<magic, kind, ref, color, ptrs, alive, cptr, ptrtab, mutator, nprop, base, ptr, visit,
                    gcpc, dying, marking, rooting, idle, left, doomed>>
    BY DEF Progexit
  <1>3. /\ p \in alive /\ stack[p] = <<>> /\ cptr[p] = Nil /\ vm # Collector
        /\ ~On(stack, p) /\ \A f : ~Did(stack, p, f)
    BY <1>1, Runner
  <1>4. e \in Call /\ e.node = p /\ e.todo = Fields \cup {"M"}
    BY Constants DEF Call
  <1>. HIDE DEF e
  <1>5. stack' = [stack EXCEPT ![p] = <<e>> \o stack[p]]
    <2>1. <<e>> \o <<>> = <<e>>
      BY <1>4
    <2>. QED
      BY <2>1, <1>1, <1>3
  <1>6. stack \in [Progs -> Seq(Call)] /\ StackOK(stack) /\ IsFiniteSet(Depths(stack))
    BY DEF IInv, TypeInv, HaltInv
  <1>7. /\ stack' \in [Progs -> Seq(Call)] /\ StackOK(stack') /\ stack'[p] # <<>>
        /\ \A q \in Progs \ {p} : stack'[q] = stack[q]
        /\ IsFiniteSet(Depths(stack')) /\ Cardinality(Depths(stack')) = Cardinality(Depths(stack)) + 1
        /\ \A n : On(stack', n) <=> On(stack, n) \/ n = p
        /\ \A n, f : Did(stack', n, f) <=> Did(stack, n, f) \/ (n = p /\ f \notin Fields \cup {"M"})
    <2>1. ~On(stack, e.node) /\ (e.node \in Progs => e.node = p /\ stack[p] = <<>>) /\ ("M" \in e.todo => e.node = p)
      BY <1>3, <1>4
    <2>2. /\ stack' \in [Progs -> Seq(Call)] /\ StackOK(stack') /\ stack'[p] # <<>>
          /\ \A q \in Progs \ {p} : stack'[q] = stack[q]
          /\ IsFiniteSet(Depths(stack')) /\ Cardinality(Depths(stack')) = Cardinality(Depths(stack)) + 1
          /\ \A n : On(stack', n) <=> On(stack, n) \/ n = e.node
          /\ \A n, f : Did(stack', n, f) <=> Did(stack, n, f) \/ (n = e.node /\ f \notin e.todo)
      <3>1. Pushes(stack, stack', p, e)
        BY <2>1, <1>4, <1>5, <1>6, PushStack
      <3>. QED
        BY <3>1 DEF Pushes
    <2>. QED
      BY ONLY <2>2, <1>4
  <1>8. HaltInv' /\ gchalt' \in Int
    <2>1. Cardinality(Depths(stack)) \in Nat
      BY <1>6, FS_CardinalityType
    <2>. QED
      BY <2>1, <1>1, <1>2, <1>7 DEF IInv, HaltInv, TypeInv
  <1>9. \A q \in Progs : stack'[q] # <<>> => q \in alive /\ cptr[q] = Nil
    BY <1>3, <1>7 DEF IInv, ProgInv
  <1>10. vm' \in Progs \cup {Nobody} /\ \A q \in Progs : vm' = q => stack'[q] # <<>>
    BY <1>1, <1>7
  <1>11. /\ \A n \in Nodes, f \in Fields \cup {"M"} : Did(stack', n, f) <=> Did(stack, n, f)
         /\ \A n : On(stack', n) => On(stack, n) \/ n \in Progs
    BY <1>7
  <1>. QED
    BY <1>2, <1>3, <1>7, <1>8, <1>9, <1>10, <1>11, StackFrame

-----------------------------------------------------------------------------
(* destroy                                                                 *)

\* What dropping a reference says of the control.
LEMMA DroppedControl ==
  ASSUME IInv, vm # Collector,
         UNCHANGED <<mutator, base, gcpc, dying, marking, rooting, idle, left>>,
         doomed' \subseteq doomed,
         NEW p \in Progs, NEW v, NEW r, NEW below, NEW st, NEW pushed \in BOOLEAN,
         Dropped(p, v, r, below, st, pushed)
  PROVE  HaltInv' /\ StackOK(stack)' /\ ControlInv'
  <1>1. HaltInv' /\ StackOK(stack')
    BY DEF Dropped, HaltInv
  <1>2. vm' \in Progs \cup {Nobody} /\ \A q \in Progs : vm' = q => stack'[q] # <<>>
    BY DEF Dropped
  <1>3. ControlInv'
    BY <1>2, QuietControl
  <1>. QED
    BY <1>1, <1>3

\* A call of destroy drops a pointer, or the module link of the prog.
LEMMA DestroyDrop ==
  ASSUME IInv, NEW p \in Progs, vm = p, stack[p] # <<>>, NEW h \in Top(p).todo, NEW v,
         (h \in Fields /\ v = ptrs[Top(p).node][h]) \/ (h = "M" /\ v = MP),
         Drop(p, v, ref, Rest(p, Top(p).todo \ {h})),
         UNCHANGED <<magic, kind, color, ptrs, alive, cptr, ptrtab, mutator, nprop,
                     passvars, gcvars, doomed>>
  PROVE  IInv'
  <1>. USE DEF passvars, gcvars
  <1>. DEFINE n == Top(p).node
              below == Rest(p, Top(p).todo \ {h})
              st == [stack EXCEPT ![p] = below]
              t == Top(p).todo \ {h}
  <1>1. stack \in [Progs -> Seq(Call)] /\ StackOK(stack) /\ IsFiniteSet(Depths(stack)) /\ vm # Collector
    BY Constants DEF IInv, TypeInv, HaltInv
  <1>2. Tops(stack, st, p, t)
    <2>1. Head(stack[p]) \in Call
      BY <1>1
    <2>2. t \in SUBSET (Fields \cup {"close", "closing", "M"}) /\ ("M" \in t => "M" \in Head(stack[p]).todo)
      BY <2>1 DEF Call, Top
    <2>3. st = [stack EXCEPT ![p] = <<[Head(stack[p]) EXCEPT !.todo = t]>> \o Tail(stack[p])]
      BY DEF Rest, Top
    <2>. HIDE DEF st, t
    <2>. QED
      BY <1>1, <2>2, <2>3, TopStack
  <1>3. /\ st \in [Progs -> Seq(Call)] /\ StackOK(st) /\ IsFiniteSet(Depths(st)) /\ Depths(st) = Depths(stack)
        /\ below # <<>> /\ n \in Nodes /\ On(stack, n) /\ ~Did(stack, n, h)
        /\ \A m : On(st, m) <=> On(stack, m)
        /\ \A m, f : Did(st, m, f) <=> Did(stack, m, f) \/ (m = n /\ f = h)
    <2>1. st[p] = below
      BY <1>1
    <2>. HIDE DEF st, below
    <2>2. Head(stack[p]) \in Call /\ n = Head(stack[p]).node /\ Top(p) = Head(stack[p])
      BY <1>2 DEF Tops, Top
    <2>3. n \in Nodes
      BY <2>2 DEF Call
    <2>. QED
      BY <1>1, <1>2, <2>1, <2>2, <2>3 DEF Tops
  <1>4. n \in Holders
    BY <1>3 DEF IInv, KeptInv
  <1>5. h = "M" => n = p /\ p \in Linked(stack, alive) /\ "M" \notin Fields
    <2>1. ASSUME h = "M" PROVE n = p
      <3>1. 1 \in 1..Len(stack[p]) /\ stack[p][1] = Top(p)
        BY <1>1 DEF Top
      <3>. QED
        BY <2>1, <3>1, <1>1 DEF StackOK
    <2>2. p \in alive /\ "M" \notin Fields
      BY Constants DEF IInv, ProgInv
    <2>. QED
      BY <2>1, <2>2, <1>3 DEF Linked
  <1>6. v \in Cells \cup {Nil} /\ (v # Nil => v \in Kept /\ ~On(stack, v) /\ v \notin doomed)
    <2>1. CASE h \in Fields /\ v = ptrs[n][h]
      <3>1. n \notin doomed
        BY <1>3 DEF IInv, DoomInv
      <3>. HIDE DEF n
      <3>2. v \in Cells \cup {Nil} /\ v \notin doomed
        BY <2>1, <3>1, <1>3 DEF IInv, TypeInv, DoomInv
      <3>. QED
        BY <2>1, <3>2, <1>3, <1>4 DEF IInv, KeptInv
    <2>2. CASE h = "M" /\ v = MP
      BY <2>2, <1>5, Constants DEF IInv, KeptInv, DoomInv
    <2>. QED
      BY <2>1, <2>2
  <1>7. PICK pushed \in BOOLEAN : Dropped(p, v, ref, below, st, pushed)
    <2>1. gchalt = Cardinality(Depths(st)) + (IF gcpc = "close" THEN 1 ELSE 0)
      BY <1>3 DEF IInv, HaltInv
    <2>2. ref \in [Cells -> Int] /\ (v # Nil => ~On(st, v))
      BY <1>3, <1>6 DEF IInv, TypeInv
    <2>3. st = [stack EXCEPT ![p] = below] /\ Drop(p, v, ref, below)
      OBVIOUS
    <2>. HIDE DEF st, below
    <2>4. Drops(p, v, ref, below, st)
      BY <1>1, <1>3, <1>6, <2>1, <2>2, <2>3, DropFacts
    <2>. QED
      BY <2>4 DEF Drops
  <1>. HIDE DEF st, below, n, t
  <1>8. /\ \A m : On(stack', m) <=> On(stack, m) \/ (pushed /\ m = v)
        /\ \A m, f : Did(stack', m, f) <=> Did(stack, m, f) \/ (m = n /\ f = h) \/ (pushed /\ m = v /\ f \notin Todo(v))
        /\ \A q \in Progs : stack'[q] # <<>> => stack[q] # <<>>
        /\ \A q \in Progs : stack[q] # <<>> => stack'[q] # <<>>
        /\ stack' \in [Progs -> Seq(Call)] /\ gchalt' \in Int /\ vm' \in Progs \cup {Nobody}
        /\ ref' \in [Cells -> Int]
        /\ \A o \in Cells : ref'[o] = ref[o] - (IF o = v THEN 1 ELSE 0)
        /\ pushed => v \in Kept /\ ref'[v] <= 0
    <2>1. pushed => v \in Cells
      BY <1>7 DEF Dropped
    <2>. QED
      BY <2>1, <1>3, <1>6, <1>7, Constants DEF Dropped
  <1>9. /\ sweeper' = sweeper /\ propagator' = propagator /\ White' = White
        /\ MarkInv' /\ gcpc # "roots" /\ gcpc # "scan"
    BY <1>1, Quiet
  <1>10. Kept' = Kept /\ Holders' = Holders /\ Holders \subseteq Nodes /\ Kept \subseteq Cells
    BY <1>9, Constants DEF Kept, Condemned, Holders
  <1>11. TypeInv'
    BY <1>8, Constants DEF IInv, TypeInv
  <1>12. HaltInv' /\ StackOK(stack)' /\ ControlInv'
    BY <1>1, <1>7, DroppedControl
  <1>13. HeaderInv' /\ BlankInv' /\ PassInv' /\ EdgeInv' /\ RootInv'
    <2>1. HeaderInv' /\ BlankInv'
      BY <1>9 DEF IInv, HeaderInv, BlankInv
    <2>2. PassInv'
      BY <1>9 DEF IInv, PassInv, Passed1
    <2>3. EdgeInv' /\ RootInv'
      BY <1>9 DEF IInv, EdgeInv, RootInv, Stays, Scanned, Pending, Unswept, Reached
    <2>. QED
      BY <2>1, <2>2, <2>3
  <1>14. ProgInv'
    BY <1>8 DEF IInv, ProgInv
  <1>15. ASSUME NEW m \in Holders, NEW f \in Fields, ptrs[m][f] # Nil
         PROVE  Did(stack', m, f) <=> Did(stack, m, f) \/ (m = n /\ f = h)
    <2>1. ASSUME pushed, m = v PROVE f \in Todo(v)
      <3>1. v \in Cells /\ kind[v] # "fd"
        BY <2>1, <1>8, <1>15 DEF IInv, BlankInv, Kept
      <3>. QED
        BY <3>1 DEF Todo
    <2>. QED
      BY <2>1, <1>8
  <1>16. Linked(stack', alive') = IF h = "M" THEN Linked(stack, alive) \ {p} ELSE Linked(stack, alive)
    <2>1. alive \subseteq Progs /\ (pushed => v \notin Progs) /\ "M" \notin Fields
      BY <1>8, <1>10, Constants DEF IInv, TypeInv
    <2>2. CASE h = "M"
      <3>1. \A q \in alive : Did(stack', q, "M") <=> Did(stack, q, "M") \/ q = p
        BY <2>1, <2>2, <1>5, <1>8
      <3>. QED
        BY <2>2, <3>1 DEF Linked
    <2>3. CASE h # "M"
      <3>1. \A q \in alive : Did(stack', q, "M") <=> Did(stack, q, "M")
        BY <2>1, <2>3, <1>8
      <3>. QED
        BY <2>3, <3>1 DEF Linked
    <2>. QED
      BY <2>2, <2>3
  <1>17. RefInv'
    <2>1. ASSUME NEW o \in Kept
          PROVE  /\ IsFiniteSet(SlotRefs(o)') /\ IsFiniteSet(HostRefs(o)') /\ IsFiniteSet(LinkRefs(o)')
                 /\ Cardinality(SlotRefs(o)') + Cardinality(HostRefs(o)') + Cardinality(LinkRefs(o)') <= ref'[o]
                 /\ ref'[o] >= 0
      <3>. DEFINE s == <<n, h>>
                  A == SlotRefs(o)
                  A2 == SlotRefs(o)'
                  B == HostRefs(o)
                  B2 == HostRefs(o)'
                  C == LinkRefs(o)
                  C2 == LinkRefs(o)'
      <3>1. /\ Refs(A, B, C, ref[o])
            /\ ref[o] \in Int /\ ref'[o] \in Int /\ ref'[o] = ref[o] - (IF o = v THEN 1 ELSE 0)
        BY <1>8, <1>10 DEF IInv, RefInv, TypeInv, Refs
      <3>2. o # Nil
        BY <1>10, Constants
      <3>3. A2 = A \ {s}
        <4>1. ASSUME NEW m \in Nodes, NEW f \in Fields, m \in Holders, ptrs[m][f] = o
              PROVE  ~Did(stack', m, f) <=> ~Did(stack, m, f) /\ <<m, f>> # s
          BY <4>1, <3>2, <1>15
        <4>2. \A w \in Nodes \X Fields : w = <<w[1], w[2]>> /\ w[1] \in Nodes /\ w[2] \in Fields
          OBVIOUS
        <4>. HIDE DEF s
        <4>. QED
          BY <4>1, <4>2, <1>10 DEF SlotRefs
      <3>4. B2 = B
        BY DEF HostRefs
      <3>5. C2 = IF h = "M" THEN C \ {p} ELSE C
        BY <1>16 DEF LinkRefs
      <3>6. ASSUME h = "M" PROVE Balanced(A, B, C, ref[o], s, p, p, A2, B2, C2, ref'[o])
        <4>1. s \notin A /\ A2 = A /\ (p \in C <=> o = v) /\ p \notin C2 /\ C2 = C \ {p}
          BY <3>3, <3>5, <3>6, <1>5, Constants DEF SlotRefs, LinkRefs
        <4>. HIDE DEF A, A2, B, B2, C, C2, s
        <4>2. Balanced(A, B, C, ref[o], s, p, p, A2, B2, C2, ref'[o])
          BY <4>1, <3>1, <3>4 DEF Balanced
        <4>. QED
          BY <4>2
      <3>7. ASSUME h # "M" PROVE Balanced(A, B, C, ref[o], s, p, p, A2, B2, C2, ref'[o])
        <4>1. (s \in A <=> o = v) /\ s \notin A2 /\ C2 = C /\ A2 = A \ {s}
          <5>1. h \in Fields /\ v = ptrs[n][h]
            BY <3>7 DEF n
          <5>. QED
            BY <5>1, <3>3, <3>5, <3>7, <1>3, <1>4, <1>10 DEF SlotRefs
        <4>. HIDE DEF A, A2, B, B2, C, C2, s
        <4>2. Balanced(A, B, C, ref[o], s, p, p, A2, B2, C2, ref'[o])
          BY <4>1, <3>1, <3>4 DEF Balanced
        <4>. QED
          BY <4>2
      <3>. HIDE DEF A, A2, B, B2, C, C2, s
      <3>8. Refs(A2, B2, C2, ref'[o]) /\ ref'[o] >= 0
        BY <3>1, <3>6, <3>7, Counts
      <3>. QED
        BY <3>8 DEF Refs, A2, B2, C2
    <2>2. ASSUME NEW o \in Cells PROVE ref'[o] >= 0
      <3>1. CASE o \in Kept
        BY <3>1, <2>1
      <3>2. CASE o \notin Kept
        <4>1. o # v
          BY <3>2, <1>6, Constants
        <4>2. ref[o] >= 0 /\ ref[o] \in Int
          BY DEF IInv, RefInv, TypeInv
        <4>. QED
          BY <4>1, <4>2, <1>8
      <3>. QED
        BY <3>1, <3>2
    <2>. QED
      BY <2>1, <2>2, <1>10 DEF RefInv
  <1>18. KeptInv'
    <2>1. ASSUME NEW m \in Nodes, On(stack', m) PROVE m \in Holders
      <3>1. CASE On(stack, m)
        BY <3>1 DEF IInv, KeptInv
      <3>2. CASE ~On(stack, m)
        BY <2>1, <3>2, <1>8 DEF Holders
      <3>. QED
        BY <3>1, <3>2
    <2>2. ASSUME NEW m \in Holders, NEW f \in Fields, ~Did(stack', m, f), ptrs[m][f] # Nil
          PROVE  ptrs[m][f] \in Kept /\ (On(stack', ptrs[m][f]) => pushed /\ ptrs[m][f] = v)
      <3>1. ~Did(stack, m, f)
        BY <2>2, <1>8
      <3>2. ptrs[m][f] \in Kept /\ ~On(stack, ptrs[m][f])
        BY <2>2, <3>1 DEF IInv, KeptInv
      <3>. QED
        BY <3>2, <1>8
    <2>3. ASSUME NEW q \in Progs, cptr[q] # Nil
          PROVE  cptr[q] \in Kept /\ kind[cptr[q]] = "rec" /\ (On(stack', cptr[q]) => pushed /\ cptr[q] = v)
      BY <2>3, <1>8 DEF IInv, KeptInv
    <2>4. ASSUME Linked(stack', alive') # {}
          PROVE  MP \in Kept /\ kind[MP] = "rec" /\ (On(stack', MP) => pushed /\ MP = v)
      BY <2>4, <1>8, <1>16 DEF IInv, KeptInv
    <2>5. KeptBut(v, pushed)
      BY <2>1, <2>2, <2>3, <2>4, <1>8, <1>10 DEF KeptBut
    <2>. QED
      BY <2>5, <1>11, <1>17, KeptAfter
  <1>19. DoomInv'
    <2>1. \A o \in doomed : magic[o] = "A" /\ ~On(stack', o)
      BY <1>6, <1>8, Constants DEF IInv, DoomInv, TypeInv
    <2>. QED
      BY <2>1, <1>9 DEF IInv, DoomInv
  <1>. QED
    BY <1>9, <1>11, <1>12, <1>13, <1>14, <1>17, <1>18, <1>19 DEF IInv

\* freeptrs: one pointer of the dying block.
LEMMA FreeptrStep ==
  ASSUME IInv, NEW p \in Progs, Freeptr(p)
  PROVE  IInv'
  <1>1. PICK f \in Top(p).todo \cap Fields : Drop(p, ptrs[Top(p).node][f], ref, Rest(p, Top(p).todo \ {f}))
    BY DEF Freeptr
  <1>2. vm = p /\ stack[p] # <<>>
    BY DEF Freeptr, InDestroy
  <1>. DEFINE v == ptrs[Top(p).node][f]
  <1>3. Drop(p, v, ref, Rest(p, Top(p).todo \ {f})) /\ v = ptrs[Top(p).node][f] /\ f \in Fields /\ f \in Top(p).todo
    BY <1>1
  <1>. HIDE DEF v
  <1>. QED
    BY <1>2, <1>3, DestroyDrop DEF Freeptr

\* delprog's destroy(R.M).
LEMMA FreeModuleStep ==
  ASSUME IInv, NEW p \in Progs, FreeModule(p)
  PROVE  IInv'
  <1>1. vm = p /\ stack[p] # <<>> /\ Top(p).todo = {"M"} /\ Drop(p, MP, ref, Rest(p, {}))
    BY DEF FreeModule, InDestroy
  <1>. DEFINE h == "M"
  <1>2. h \in Top(p).todo /\ Drop(p, MP, ref, Rest(p, Top(p).todo \ {h}))
    <2>1. {"M"} \ {"M"} = {}
      OBVIOUS
    <2>. QED
      BY <1>1, <2>1
  <1>. QED
    BY <1>1, <1>2, DestroyDrop DEF FreeModule

\* A prog frees nothing that the sweep is freeing, and nothing that was garbage
\* when execatidle began.
LEMMA DestroyedControl ==
  ASSUME IInv, NEW p \in Progs, Destroyed(p)
  PROVE  /\ Pops(stack, stack', p) /\ HaltInv' /\ ControlInv' /\ StackOK(stack)'
         /\ vm' \in Progs \cup {Nobody} /\ gchalt' \in Int /\ vm # Collector
         /\ Top(p).todo = {} /\ p \in alive /\ cptr[p] = Nil
         /\ Top(p).node \notin doomed /\ Top(p).node \in Holders
         /\ \A f : Did(stack, Top(p).node, f)
         /\ UNCHANGED <<ref, cptr, ptrtab, mutator, nprop, base, visit, gcpc, dying, marking, rooting, idle, left>>
         /\ \A q \in Progs : stack'[q] # <<>> => stack[q] # <<>>
  <1>. USE DEF gcvars
  <1>1. vm = p /\ vm # Collector /\ stack[p] # <<>> /\ Top(p).todo = {}
    BY Constants DEF Destroyed, InDestroy
  <1>2. stack \in [Progs -> Seq(Call)] /\ StackOK(stack) /\ IsFiniteSet(Depths(stack))
    BY DEF IInv, TypeInv, HaltInv
  <1>3. Pops(stack, stack', p)
    <2>1. stack' = [stack EXCEPT ![p] = Tail(@)]
      BY DEF Destroyed
    <2>. QED
      BY <2>1, <1>1, <1>2, PopStack
  <1>4. UNCHANGED <<ref, cptr, ptrtab, mutator, nprop, base, visit, gcpc, dying, marking, rooting, idle, left>>
    BY DEF Destroyed
  <1>5. /\ stack' \in [Progs -> Seq(Call)] /\ StackOK(stack')
        /\ \A q \in Progs \ {p} : stack'[q] = stack[q]
        /\ IsFiniteSet(Depths(stack')) /\ Cardinality(Depths(stack')) = Cardinality(Depths(stack)) - 1
        /\ On(stack, Top(p).node) /\ Top(p).node \in Nodes
        /\ \A f : Did(stack, Top(p).node, f)
    BY <1>1, <1>3 DEF Pops, Top, Call
  <1>6. HaltInv' /\ gchalt' \in Int
    <2>1. Cardinality(Depths(stack)) \in Nat
      BY <1>2, FS_CardinalityType
    <2>2. gchalt' = gchalt - 1
      BY DEF Destroyed
    <2>. QED
      BY <2>1, <2>2, <1>4, <1>5 DEF IInv, HaltInv, TypeInv
  <1>7. vm' \in Progs \cup {Nobody} /\ \A q \in Progs : vm' = q => stack'[q] # <<>>
    <2>1. vm' = IF stack'[p] = <<>> THEN Nobody ELSE p
      BY DEF Destroyed
    <2>. QED
      BY <2>1, Constants
  <1>8. doomed' \subseteq doomed
    <2>1. CASE Top(p).node = p
      BY <2>1 DEF Destroyed
    <2>2. CASE Top(p).node # p
      BY <2>2 DEF Destroyed, Poolfree
    <2>. QED
      BY <2>1, <2>2
  <1>9. ControlInv'
    BY <1>1, <1>4, <1>7, <1>8, QuietControl
  <1>10. p \in alive /\ cptr[p] = Nil
    BY <1>1 DEF IInv, ProgInv
  <1>11. Top(p).node \notin doomed /\ Top(p).node \in Holders
    BY <1>5 DEF IInv, DoomInv, KeptInv
  <1>12. \A q \in Progs : stack'[q] # <<>> => stack[q] # <<>>
    BY <1>1, <1>5
  <1>13. StackOK(stack)'
    BY <1>5
  <1>. QED
    BY <1>1, <1>3, <1>4, <1>5, <1>6, <1>7, <1>9, <1>10, <1>11, <1>12, <1>13

\* A prog is gone.
LEMMA ProgGoneStep ==
  ASSUME IInv, NEW p \in Progs, Destroyed(p), Top(p).node = p
  PROVE  IInv'
  <1>1. /\ Pops(stack, stack', p) /\ HaltInv' /\ ControlInv' /\ StackOK(stack)'
        /\ vm' \in Progs \cup {Nobody} /\ gchalt' \in Int /\ vm # Collector
        /\ p \in alive /\ cptr[p] = Nil /\ \A f : Did(stack, p, f)
        /\ UNCHANGED <<ref, cptr, ptrtab, mutator, nprop, base, visit, gcpc, dying, marking, rooting, idle, left>>
        /\ \A q \in Progs : stack'[q] # <<>> => stack[q] # <<>>
    BY DestroyedControl
  <1>2. /\ alive' = alive \ {p} /\ ptrs' = [ptrs EXCEPT ![p] = [f \in Fields |-> Nil]]
        /\ UNCHANGED <<magic, kind, color, ptr, doomed>>
    BY DEF Destroyed
  <1>3. /\ stack' \in [Progs -> Seq(Call)] /\ stack'[p] = <<>>
        /\ \A n : On(stack', n) <=> On(stack, n) /\ n # p
        /\ \A n, f : Did(stack', n, f) <=> Did(stack, n, f) /\ n # p
    BY <1>1 DEF Pops, Top
  <1>4. /\ sweeper' = sweeper /\ propagator' = propagator /\ White' = White
        /\ MarkInv' /\ gcpc # "roots" /\ gcpc # "scan" /\ rooting = {} /\ marking = <<>>
        /\ \A q \in Progs : Unswept(cptr[q]) /\ Reached(cptr[q])
        /\ Unswept(MP) /\ Reached(MP)
        /\ \A n, f : ~Pending(n, f) /\ ~Pending(n, f)'
    BY <1>1, <1>2, Quiet
  <1>5. /\ ptrs' \in [Nodes -> [Fields -> Cells \cup {Nil}]]
        /\ \A f \in Fields : ptrs'[p][f] = Nil
        /\ \A n \in Nodes \ {p} : ptrs'[n] = ptrs[n]
    BY <1>2, Constants DEF IInv, TypeInv
  <1>6. TypeInv'
    BY <1>1, <1>2, <1>3, <1>5 DEF IInv, TypeInv
  <1>7. HeaderInv' /\ BlankInv' /\ PassInv'
    <2>1. HeaderInv'
      BY <1>1, <1>2, <1>4 DEF IInv, HeaderInv
    <2>2. BlankInv'
      BY <1>2, <1>5, Constants DEF IInv, BlankInv
    <2>3. PassInv'
      BY <1>1, <1>2, <1>4 DEF IInv, PassInv, Passed1
    <2>. QED
      BY <2>1, <2>2, <2>3
  <1>8. ProgInv'
    <2>1. ASSUME NEW q \in Progs \ alive', NEW f \in Fields PROVE ptrs'[q][f] = Nil
      <3>1. CASE q = p
        BY <3>1, <1>5
      <3>2. CASE q # p
        BY <3>2, <1>2, <1>5, Constants DEF IInv, ProgInv
      <3>. QED
        BY <3>1, <3>2
    <2>2. ASSUME NEW q \in Progs, stack'[q] # <<>> PROVE q \in alive' /\ cptr'[q] = Nil
      BY <2>2, <1>1, <1>2, <1>3 DEF IInv, ProgInv
    <2>3. ASSUME NEW q \in Progs, cptr'[q] # Nil PROVE q \in alive'
      BY <2>3, <1>1, <1>2 DEF IInv, ProgInv
    <2>. QED
      BY <2>1, <2>2, <2>3, <1>1 DEF IInv, ProgInv
  <1>9. Kept' = Kept /\ Holders' = Holders /\ Holders \subseteq Nodes /\ p \notin Kept
    BY <1>1, <1>2, <1>4, Constants DEF Kept, Condemned, Holders
  <1>10. Linked(stack', alive') = Linked(stack, alive)
    BY <1>1, <1>2, <1>3 DEF Linked
  <1>11. KeptInv'
    <2>1. ASSUME NEW n \in Holders, NEW f \in Fields, ~Did(stack', n, f)
          PROVE  ptrs'[n][f] = Nil \/ (ptrs'[n][f] \in Kept /\ ~On(stack', ptrs'[n][f]))
      BY <2>1, <1>3, <1>5, <1>9 DEF IInv, KeptInv
    <2>. QED
      BY <2>1, <1>1, <1>2, <1>3, <1>9, <1>10 DEF IInv, KeptInv
  <1>12. RefInv'
    <2>1. ASSUME NEW o \in Kept PROVE SlotRefs(o)' = SlotRefs(o)
      <3>1. o # Nil
        BY Constants DEF Kept
      <3>2. \A s \in Nodes \X Fields : (~Did(stack', s[1], s[2]) /\ ptrs'[s[1]][s[2]] = o)
                                         <=> (~Did(stack, s[1], s[2]) /\ ptrs[s[1]][s[2]] = o)
        BY <3>1, <1>1, <1>3, <1>5
      <3>. QED
        BY <3>2, <1>9 DEF SlotRefs
    <2>2. ASSUME NEW o PROVE HostRefs(o)' = HostRefs(o) /\ LinkRefs(o)' = LinkRefs(o)
      BY <1>1, <1>10 DEF HostRefs, LinkRefs
    <2>. QED
      BY <2>1, <2>2, <1>1, <1>9 DEF IInv, RefInv
  <1>13. EdgeInv'
    <2>1. ASSUME NEW n \in Nodes, NEW f \in Fields
          PROVE  /\ Stays(n)' => Unswept(ptrs[n][f])'
                 /\ Scanned(n)' /\ ~Pending(n, f)' => Reached(ptrs[n][f])'
      <3>1. CASE n = p
        BY <3>1, <1>5, Constants DEF Unswept, Reached
      <3>2. CASE n # p
        <4>1. ptrs'[n][f] = ptrs[n][f]
          BY <3>2, <1>5
        <4>. QED
          BY <4>1, <1>1, <1>2, <1>4 DEF IInv, EdgeInv, Stays, Scanned, Unswept, Reached
      <3>. QED
        BY <3>1, <3>2
    <2>. QED
      BY <2>1 DEF EdgeInv
  <1>14. RootInv'
    BY <1>1, <1>2, <1>4 DEF RootInv, Unswept, Reached
  <1>15. DoomInv'
    <2>1. ASSUME NEW n \in Nodes \ doomed, NEW f \in Fields PROVE ptrs'[n][f] \notin doomed
      <3>1. Nil \notin doomed
        BY Constants DEF IInv, TypeInv
      <3>. QED
        BY <3>1, <1>5 DEF IInv, DoomInv
    <2>2. Len(marking') = 0
      BY <1>1, <1>4
    <2>. QED
      BY <2>1, <2>2, <1>1, <1>2, <1>3, <1>4 DEF IInv, DoomInv
  <1>. QED
    BY <1>1, <1>4, <1>6, <1>7, <1>8, <1>11, <1>12, <1>13, <1>14, <1>15 DEF IInv

\* A block is free.
LEMMA BlockGoneStep ==
  ASSUME IInv, NEW p \in Progs, Destroyed(p), NEW c, c = Top(p).node, c # p
  PROVE  IInv'
  <1>1. /\ Pops(stack, stack', p) /\ HaltInv' /\ ControlInv' /\ StackOK(stack)'
        /\ vm' \in Progs \cup {Nobody} /\ gchalt' \in Int /\ vm # Collector
        /\ c \notin doomed /\ c \in Holders
        /\ \A f : Did(stack, c, f)
        /\ UNCHANGED <<ref, cptr, ptrtab, mutator, nprop, base, visit, gcpc, dying, marking, rooting, idle, left>>
        /\ \A q \in Progs : stack'[q] # <<>> => stack[q] # <<>>
    BY DestroyedControl
  <1>2. Poolfree(c) /\ ptr' = PtrAfterFree(c) /\ alive' = alive
    BY DEF Destroyed
  <1>3. /\ stack' \in [Progs -> Seq(Call)]
        /\ \A n : On(stack', n) <=> On(stack, n) /\ n # c
        /\ \A n, f : Did(stack', n, f) <=> Did(stack, n, f) /\ n # c
        /\ On(stack, c)
        /\ c \notin Progs
    BY <1>1 DEF Pops, Top
  <1>4. c \in Kept /\ c \in Cells
    BY <1>1, <1>3 DEF Holders, Kept
  <1>5. /\ sweeper' = sweeper /\ propagator' = propagator /\ White' = White
        /\ MarkInv' /\ gcpc # "roots" /\ gcpc # "scan" /\ rooting = {} /\ marking = <<>>
        /\ \A q \in Progs : Unswept(cptr[q]) /\ Reached(cptr[q])
        /\ alive # {} => Unswept(MP) /\ Reached(MP)
        /\ \A n, f : ~Pending(n, f) /\ ~Pending(n, f)'
    BY <1>1, Quiet
  <1>6. /\ magic' \in [Cells -> {"A", "F", "0"}]
        /\ magic'[MP] # "0" /\ magic'[c] # "A"
        /\ \A o \in Cells \ {c} : magic'[o] = "A" <=> magic[o] = "A"
        /\ ptr' \in 1..Limit /\ ptr' <= ptr
        /\ ptr \in Cells => ptr' \in Cells
        /\ ptr \in Cells /\ magic[ptr] # "0" => magic'[ptr'] # "0"
        /\ ptr # c /\ (ptr \in Cells => magic[ptr] = "A") => ptr' = ptr
    <2>1. magic' = FreedMagic(c)
      BY <1>2 DEF Poolfree
    <2>2. magic \in [Cells -> {"A", "F", "0"}] /\ magic[MP] # "0" /\ ptr \in 1..Limit
      BY DEF IInv, TypeInv, HeaderInv
    <2>. QED
      BY <2>1, <2>2, <1>2, <1>4, PoolfreeFact
  <1>7. /\ kind' \in [Cells -> {"rec", "fd"}] /\ kind'[c] = "rec"
        /\ \A o \in Cells \ {c} : kind'[o] = kind[o]
    BY <1>2, <1>4 DEF Poolfree, IInv, TypeInv
  <1>8. color' \in [Cells -> 0..3] /\ \A o \in Cells \ {c} : color'[o] = color[o]
    BY <1>2, <1>4 DEF Poolfree, IInv, TypeInv
  <1>9. /\ ptrs' \in [Nodes -> [Fields -> Cells \cup {Nil}]]
        /\ \A f \in Fields : ptrs'[c][f] = Nil
        /\ \A n \in Nodes \ {c} : ptrs'[n] = ptrs[n]
    <2>1. ptrs' = [ptrs EXCEPT ![c] = [f \in Fields |-> Nil]] /\ c \in Nodes
      BY <1>2, <1>4, Constants DEF Poolfree
    <2>. QED
      BY <2>1 DEF IInv, TypeInv
  <1>10. doomed' = doomed
    BY <1>1, <1>2 DEF Poolfree
  <1>11. Kept' = Kept \ {c} /\ Holders' = Holders \ {c} /\ Holders \subseteq Nodes
    <2>1. Kept' = Kept \ {c}
      BY <1>1, <1>4, <1>5, <1>6, <1>8 DEF Kept, Condemned
    <2>. QED
      BY <2>1, <1>3, Constants DEF Holders, Kept
  <1>12. TypeInv'
    BY <1>1, <1>2, <1>3, <1>6, <1>7, <1>8, <1>9, <1>10 DEF IInv, TypeInv
  <1>13. HeaderInv'
    <2>1. base' => ptr' \in Cells /\ magic'[ptr'] # "0"
      BY <1>1, <1>6 DEF IInv, HeaderInv
    <2>2. ASSUME gcpc = "close" PROVE base /\ dying = ptr /\ ptr' = ptr /\ ptr # c /\ ptr \in Cells
                                      /\ magic[ptr] = "A" /\ color[ptr] = sweeper
      <3>1. base /\ dying = ptr /\ ptr \in Cells /\ magic[ptr] = "A" /\ color[ptr] = sweeper
        BY <2>2 DEF IInv, HeaderInv
      <3>2. ptr # c
        BY <3>1, <1>4 DEF Kept, Condemned
      <3>. QED
        BY <3>1, <3>2, <1>6
    <2>3. gcpc' = "close" => base' /\ dying' = ptr' /\ magic'[ptr'] = "A" /\ color'[ptr'] = sweeper'
      BY <2>2, <1>1, <1>5, <1>6, <1>8
    <2>. QED
      BY <2>1, <2>3, <1>6 DEF HeaderInv
  <1>14. BlankInv'
    BY <1>6, <1>7, <1>9, Constants DEF IInv, BlankInv
  <1>15. PassInv'
    <2>1. ASSUME NEW o \in Cells, magic'[o] = "A", Passed1(o)'
          PROVE  color'[o] # sweeper' /\ (color'[o] = propagator' => nprop')
      <3>1. base /\ o < ptr' /\ o # c
        BY <2>1, <1>1, <1>5, <1>6 DEF Passed1
      <3>2. Passed1(o) /\ magic[o] = "A"
        BY <2>1, <3>1, <1>6, Constants DEF Passed1, Cells, IInv, HeaderInv
      <3>. QED
        BY <3>1, <3>2, <1>1, <1>5, <1>8 DEF IInv, PassInv
    <2>. QED
      BY <2>1 DEF PassInv
  <1>16. ProgInv'
    <2>1. \A q \in Progs : ptrs'[q] = ptrs[q]
      BY <1>3, <1>9, Constants
    <2>2. \A q \in Progs : stack'[q] # <<>> => stack[q] # <<>>
      BY <1>1
    <2>. QED
      BY <2>1, <2>2, <1>1, <1>2 DEF IInv, ProgInv
  <1>17. Linked(stack', alive') = Linked(stack, alive)
    BY <1>2, <1>3 DEF Linked, IInv, TypeInv
  <1>18. KeptInv'
    <2>1. ASSUME NEW n \in Holders', NEW f \in Fields, ~Did(stack', n, f)
          PROVE  ptrs'[n][f] = Nil \/ (ptrs'[n][f] \in Kept' /\ ~On(stack', ptrs'[n][f]))
      <3>1. n \in Holders /\ n # c /\ ptrs'[n] = ptrs[n] /\ ~Did(stack, n, f)
        BY <2>1, <1>3, <1>9, <1>11
      <3>2. ptrs[n][f] = Nil \/ (ptrs[n][f] \in Kept /\ ~On(stack, ptrs[n][f]))
        BY <3>1 DEF IInv, KeptInv
      <3>. QED
        BY <3>1, <3>2, <1>3, <1>11
    <2>2. ASSUME NEW n \in Nodes, On(stack', n) PROVE n \in Holders'
      BY <2>2, <1>3, <1>11 DEF IInv, KeptInv
    <2>3. ASSUME NEW q \in Progs, cptr[q] # Nil
          PROVE  cptr[q] \in Kept' /\ ~On(stack', cptr[q]) /\ kind'[cptr[q]] = "rec"
      <3>1. cptr[q] \in Kept /\ ~On(stack, cptr[q]) /\ kind[cptr[q]] = "rec"
        BY <2>3 DEF IInv, KeptInv
      <3>. QED
        BY <3>1, <1>3, <1>7, <1>11 DEF Kept
    <2>4. ASSUME Linked(stack, alive) # {}
          PROVE  MP \in Kept' /\ ~On(stack', MP) /\ kind'[MP] = "rec"
      <3>1. MP \in Kept /\ ~On(stack, MP) /\ kind[MP] = "rec"
        BY <2>4 DEF IInv, KeptInv
      <3>. QED
        BY <3>1, <1>3, <1>7, <1>11 DEF Kept
    <2>. QED
      BY <2>1, <2>2, <2>3, <2>4, <1>1, <1>17 DEF KeptInv
  <1>19. RefInv'
    <2>1. ASSUME NEW o \in Kept' PROVE SlotRefs(o)' = SlotRefs(o)
      <3>1. o # Nil
        BY <1>11, Constants DEF Kept
      <3>2. \A s \in Nodes \X Fields :
              (s[1] \in Holders' /\ ~Did(stack', s[1], s[2]) /\ ptrs'[s[1]][s[2]] = o)
                <=> (s[1] \in Holders /\ ~Did(stack, s[1], s[2]) /\ ptrs[s[1]][s[2]] = o)
        BY <3>1, <1>1, <1>3, <1>9, <1>11
      <3>. QED
        BY <3>2 DEF SlotRefs
    <2>2. ASSUME NEW o PROVE HostRefs(o)' = HostRefs(o) /\ LinkRefs(o)' = LinkRefs(o)
      BY <1>1, <1>17 DEF HostRefs, LinkRefs
    <2>. QED
      BY <2>1, <2>2, <1>1, <1>11 DEF IInv, RefInv
  <1>20. /\ \A v : Unswept(v) => Unswept(v)'
         /\ \A v : Reached(v) => Reached(v)'
    BY <1>1, <1>5, <1>6, <1>8 DEF Unswept, Reached
  <1>21. EdgeInv'
    <2>1. ASSUME NEW n \in Nodes, NEW f \in Fields
          PROVE  /\ Stays(n)' => Unswept(ptrs[n][f])'
                 /\ Scanned(n)' /\ ~Pending(n, f)' => Reached(ptrs[n][f])'
      <3>1. CASE n = c
        BY <3>1, <1>9, Constants DEF Unswept, Reached
      <3>2. CASE n # c
        <4>1. ptrs'[n][f] = ptrs[n][f]
          BY <3>2, <1>9
        <4>2. (Stays(n)' => Stays(n)) /\ (Scanned(n)' => Scanned(n)) /\ ~Pending(n, f)
          BY <3>2, <1>1, <1>5, <1>6, <1>8 DEF Stays, Scanned
        <4>3. (Stays(n) => Unswept(ptrs[n][f])) /\ (Scanned(n) /\ ~Pending(n, f) => Reached(ptrs[n][f]))
          BY DEF IInv, EdgeInv
        <4>4. (Unswept(ptrs[n][f]) => Unswept(ptrs[n][f])') /\ (Reached(ptrs[n][f]) => Reached(ptrs[n][f])')
          BY <4>1, <1>20 DEF Unswept, Reached
        <4>. QED
          BY <4>2, <4>3, <4>4
      <3>. QED
        BY <3>1, <3>2
    <2>. QED
      BY <2>1 DEF EdgeInv
  <1>22. RootInv'
    <2>1. ASSUME NEW q \in Progs PROVE Unswept(cptr[q])' /\ Reached(cptr[q])'
      <3>1. Unswept(cptr[q]) /\ Reached(cptr[q])
        BY <1>5
      <3>. QED
        BY <3>1, <1>1, <1>20 DEF Unswept, Reached
    <2>2. ASSUME alive # {} PROVE Unswept(MP)' /\ Reached(MP)'
      BY <2>2, <1>5, <1>20
    <2>. QED
      BY <2>1, <2>2, <1>1, <1>2 DEF RootInv
  <1>23. DoomInv'
    <2>1. \A o \in doomed : o # c /\ magic'[o] = "A" /\ color'[o] = color[o] /\ ~On(stack', o)
      BY <1>1, <1>3, <1>6, <1>8 DEF IInv, DoomInv, TypeInv
    <2>2. ASSUME NEW n \in Nodes \ doomed, NEW f \in Fields PROVE ptrs'[n][f] \notin doomed
      <3>1. Nil \notin doomed
        BY Constants DEF IInv, TypeInv
      <3>. QED
        BY <3>1, <1>9 DEF IInv, DoomInv
    <2>3. Len(marking') = 0
      BY <1>1, <1>5
    <2>. QED
      BY <2>1, <2>2, <2>3, <1>1, <1>5, <1>10 DEF IInv, DoomInv
  <1>. QED
    BY <1>1, <1>5, <1>12, <1>13, <1>14, <1>15, <1>16, <1>18, <1>19, <1>21, <1>22, <1>23 DEF IInv

\* The end of a destroy: of a prog's frames, or of a block.
LEMMA DestroyedStep ==
  ASSUME IInv, NEW p \in Progs, Destroyed(p)
  PROVE  IInv'
  <1>. DEFINE c == Top(p).node
  <1>1. CASE c = p
    BY <1>1, ProgGoneStep
  <1>2. CASE c # p
    <2>1. c = Top(p).node
      OBVIOUS
    <2>. HIDE DEF c
    <2>. QED
      BY <1>2, <2>1, BlockGoneStep
  <1>. QED
    BY <1>1, <1>2

-----------------------------------------------------------------------------
(* The steps of progs: what the instructions have in common                *)

\* A block that a pointer may be stored to: it is kept, and has been marked.
Good(x) ==
  /\ x \in Kept' /\ ~On(stack, x)
  /\ color'[x] \in {mutator, propagator} /\ x \notin doomed

\* A block is marked.
Shaded(o) ==
  /\ color[o] \notin {mutator, sweeper} /\ color'[o] = propagator
  /\ nprop' /\ o \notin doomed

\* Blocks are marked or come from the pool; the collector does nothing.
HeapMoves ==
  /\ UNCHANGED <<mutator, base, ptr, visit, gcpc, dying, marking, rooting, idle, left, doomed>>
  /\ magic' \in [Cells -> {"A", "F", "0"}] /\ kind' \in [Cells -> {"rec", "fd"}]
  /\ color' \in [Cells -> 0..3] /\ nprop' \in BOOLEAN /\ (nprop => nprop')
  /\ \A o \in Cells : magic[o] # "0" => magic'[o] # "0"
  /\ \A o \in Cells : magic[o] = "A" => /\ magic'[o] = "A" /\ kind'[o] = kind[o]
                                        /\ color'[o] = color[o] \/ Shaded(o)
  /\ \A o \in Cells : magic[o] # "A" /\ magic'[o] = "A" => color'[o] = mutator
  /\ \A o \in Cells : magic'[o] # "A" => kind'[o] = kind[o]

\* Slot f of n, the variable of p's host call, and q's module link.
RefsMove(n, f, p, q) ==
  /\ ptrs' \in [Nodes -> [Fields -> Cells \cup {Nil}]]
  /\ cptr' \in [Progs -> Cells \cup {Nil}]
  /\ \A m \in Nodes : \A g \in Fields : (m # n \/ g # f) => ptrs'[m][g] = ptrs[m][g]
  /\ ptrs'[n][f] = ptrs[n][f] \/ ptrs'[n][f] = Nil \/ Good(ptrs'[n][f])
  /\ n \in Holders /\ ~Did(stack, n, f)
  /\ n \in Cells => kind[n] = "rec"
  /\ n \in Progs => n \in alive'
  /\ \A x \in Progs \ {p} : cptr'[x] = cptr[x]
  /\ \/ cptr'[p] = cptr[p]
     \/ cptr'[p] = Nil
     \/ Good(cptr'[p]) /\ kind'[cptr'[p]] = "rec" /\ cptr'[p] \notin Kept
  /\ ptrtab' = {cptr'[x] : x \in Progs} \ {Nil}
  /\ alive' = alive \cup {q} /\ stack[q] = <<>>

\* The counts go with them; one that does not count yet starts from 0.
CountsMove(n, f, p, q) ==
  \A o \in Cells :
    /\ ref'[o] + (IF ptrs[n][f] = o THEN 1 ELSE 0) + (IF cptr[p] = o THEN 1 ELSE 0)
               + (IF o = MP /\ q \in alive THEN 1 ELSE 0)
         >= (IF o \in Kept THEN ref[o] ELSE 0)
               + (IF ptrs'[n][f] = o THEN 1 ELSE 0) + (IF cptr'[p] = o THEN 1 ELSE 0)
               + (IF o = MP THEN 1 ELSE 0)
    /\ o \notin Kept' => ref'[o] >= 0

\* Only blocks that are kept are pointed to.
LEMMA RefsBefore ==
  ASSUME IInv, NEW o \in Cells
  PROVE  Refs(SlotRefs(o), HostRefs(o), LinkRefs(o), IF o \in Kept THEN ref[o] ELSE 0)
  <1>1. CASE o \in Kept
    BY <1>1 DEF IInv, RefInv, Refs
  <1>2. CASE o \notin Kept
    <2>1. SlotRefs(o) = {}
      <3>1. \A n \in Holders, f \in Fields : ~Did(stack, n, f) => ptrs[n][f] # o
        BY <1>2, Constants DEF IInv, KeptInv
      <3>. QED
        BY <3>1 DEF SlotRefs
    <2>2. HostRefs(o) = {} /\ LinkRefs(o) = {}
      BY <1>2, Constants DEF IInv, KeptInv, HostRefs, LinkRefs
    <2>3. IsFiniteSet({}) /\ Cardinality({}) = 0
      BY FS_EmptySet
    <2>. QED
      BY <1>2, <2>1, <2>2, <2>3 DEF Refs
  <1>. QED
    BY <1>1, <1>2

\* The heap and the collector's invariants.
LEMMA HeapMovesFacts ==
  ASSUME IInv, vm # Collector, HeapMoves
  PROVE  /\ sweeper' = sweeper /\ propagator' = propagator /\ White' = White
         /\ sweeper # mutator /\ propagator # sweeper
         /\ gcpc # "roots" /\ gcpc # "scan" /\ marking = <<>> /\ rooting = {} /\ MarkInv'
         /\ \A n, f : ~Pending(n, f)
         /\ \A o \in Cells : o \in Kept' <=> o \in Kept \/ (magic[o] # "A" /\ magic'[o] = "A")
         /\ Kept \subseteq Kept' /\ Kept' \subseteq Cells /\ Holders' = Progs \cup Kept'
         /\ HeaderInv' /\ PassInv'
         /\ \A v : Unswept(v) => Unswept(v)'
         /\ \A v : Reached(v) => Reached(v)'
         /\ \A o \in doomed : magic'[o] = "A" /\ color'[o] = color[o]
  <1>. USE DEF HeapMoves, Shaded
  <1>1. /\ sweeper' = sweeper /\ propagator' = propagator /\ White' = White
        /\ sweeper # mutator /\ propagator # sweeper /\ propagator # mutator
        /\ gcpc # "roots" /\ gcpc # "scan" /\ marking = <<>> /\ rooting = {} /\ MarkInv'
        /\ \A n, f : ~Pending(n, f)
    BY Quiet
  <1>2. ASSUME NEW o \in Cells PROVE o \in Kept' <=> o \in Kept \/ (magic[o] # "A" /\ magic'[o] = "A")
    <2>1. CASE magic[o] = "A"
      BY <2>1, <1>1 DEF Kept, Condemned
    <2>2. CASE magic[o] # "A"
      BY <2>2, <1>1 DEF Kept, Condemned
    <2>. QED
      BY <2>1, <2>2
  <1>3. Kept \subseteq Kept' /\ Kept' \subseteq Cells /\ Holders' = Progs \cup Kept'
    BY <1>2 DEF Kept, Holders
  <1>4. HeaderInv'
    <2>1. magic'[MP] # "0" /\ ptr' \in 1..Limit /\ (base' => ptr' \in Cells /\ magic'[ptr'] # "0")
      BY Constants DEF IInv, HeaderInv
    <2>2. gcpc' = "close" => base' /\ dying' = ptr' /\ magic'[ptr'] = "A" /\ color'[ptr'] = sweeper'
      <3>1. ASSUME gcpc = "close" PROVE base /\ dying = ptr /\ ptr \in Cells /\ magic[ptr] = "A" /\ color[ptr] = sweeper
        BY <3>1 DEF IInv, HeaderInv
      <3>. QED
        BY <3>1, <1>1
    <2>. QED
      BY <2>1, <2>2 DEF HeaderInv
  <1>5. PassInv'
    <2>1. ASSUME NEW o \in Cells, magic'[o] = "A", Passed1(o)'
          PROVE  color'[o] # sweeper' /\ (color'[o] = propagator' => nprop')
      <3>1. Passed1(o)
        BY <2>1 DEF Passed1
      <3>2. CASE magic[o] = "A"
        <4>1. color[o] # sweeper /\ (color[o] = propagator => nprop)
          BY <3>1, <3>2 DEF IInv, PassInv
        <4>. QED
          BY <4>1, <3>2, <1>1
      <3>3. CASE magic[o] # "A"
        BY <2>1, <3>3, <1>1
      <3>. QED
        BY <3>2, <3>3
    <2>. QED
      BY <2>1 DEF PassInv
  <1>6. ASSUME NEW v PROVE (Unswept(v) => Unswept(v)') /\ (Reached(v) => Reached(v)')
    <2>1. CASE v \in Cells /\ magic'[v] = "A" /\ magic[v] = "A"
      BY <2>1, <1>1 DEF Unswept, Reached
    <2>2. CASE v \in Cells /\ magic'[v] = "A" /\ magic[v] # "A"
      BY <2>2, <1>1 DEF Unswept, Reached
    <2>3. CASE ~(v \in Cells /\ magic'[v] = "A")
      BY <2>3 DEF Unswept, Reached
    <2>. QED
      BY <2>1, <2>2, <2>3
  <1>7. ASSUME NEW o \in doomed PROVE magic'[o] = "A" /\ color'[o] = color[o]
    BY DEF IInv, DoomInv, TypeInv
  <1>. QED
    BY <1>1, <1>2, <1>3, <1>4, <1>5, <1>6, <1>7

\* The counts, after such a step.
LEMMA RefsAfter ==
  ASSUME IInv, vm # Collector, HeapMoves,
         NEW n \in Nodes, NEW f \in Fields, NEW p \in Progs, NEW q \in Progs,
         RefsMove(n, f, p, q), CountsMove(n, f, p, q), ref' \in [Cells -> Int],
         Linked(stack', alive') = Linked(stack, alive) \cup {q},
         \A m \in Holders', g \in Fields :
           ptrs'[m][g] # Nil => (Did(stack', m, g) <=> Did(stack, m, g)),
         \A m \in Kept' \ Kept, g \in Fields : ptrs'[m][g] = Nil
  PROVE  RefInv'
  <1>1. Kept \subseteq Kept' /\ Kept' \subseteq Cells /\ Holders' = Progs \cup Kept' /\ Holders \subseteq Holders'
    BY HeapMovesFacts DEF Holders
  <1>2. ~Did(stack, q, "M")
    BY Whole DEF RefsMove
  <1>3. ASSUME NEW o \in Cells
        PROVE  Refs(SlotRefs(o)', HostRefs(o)', LinkRefs(o)', ref'[o]) \/ o \notin Kept'
    <2>. DEFINE s == <<n, f>>
                A == SlotRefs(o)
                A2 == SlotRefs(o)'
                B == HostRefs(o)
                B2 == HostRefs(o)'
                C == LinkRefs(o)
                C2 == LinkRefs(o)'
                r == IF o \in Kept THEN ref[o] ELSE 0
    <2>1. Refs(A, B, C, r)
      BY RefsBefore
    <2>2. o # Nil /\ r \in Int /\ ref'[o] \in Int
      BY Constants DEF IInv, TypeInv
    <2>3. ASSUME NEW m \in Nodes, NEW g \in Fields, m # n \/ g # f
          PROVE  <<m, g>> \in A2 <=> <<m, g>> \in A
      <3>1. ptrs'[m][g] = ptrs[m][g]
        BY <2>3 DEF RefsMove
      <3>2. CASE ptrs[m][g] = o
        <4>1. m \in Holders' => (Did(stack', m, g) <=> Did(stack, m, g))
          BY <3>1, <3>2, <2>2
        <4>2. m \in Holders' <=> m \in Holders
          BY <3>1, <3>2, <2>2, <1>1 DEF Holders
        <4>. QED
          BY <3>1, <3>2, <4>1, <4>2 DEF SlotRefs
      <3>3. CASE ptrs[m][g] # o
        BY <3>1, <3>3 DEF SlotRefs
      <3>. QED
        BY <3>2, <3>3
    <2>4. s \in A <=> ptrs[n][f] = o
      BY DEF SlotRefs, RefsMove
    <2>5. s \in A2 <=> ptrs'[n][f] = o
      BY <2>2, <1>1 DEF SlotRefs, RefsMove
    <2>6. A2 \ {s} = A \ {s}
      <3>1. A \subseteq Nodes \X Fields /\ A2 \subseteq Nodes \X Fields
        BY DEF SlotRefs
      <3>. HIDE DEF A, A2
      <3>. QED
        BY <3>1, <2>3
    <2>7. B2 \ {p} = B \ {p} /\ (p \in B <=> cptr[p] = o) /\ (p \in B2 <=> cptr'[p] = o)
      BY DEF HostRefs, RefsMove
    <2>8. /\ C2 \ {q} = C \ {q}
          /\ q \in C <=> o = MP /\ q \in alive
          /\ q \in C2 <=> o = MP
      BY <1>2 DEF LinkRefs, Linked
    <2>9. ref'[o] + (IF ptrs[n][f] = o THEN 1 ELSE 0) + (IF cptr[p] = o THEN 1 ELSE 0)
               + (IF o = MP /\ q \in alive THEN 1 ELSE 0)
            >= r + (IF ptrs'[n][f] = o THEN 1 ELSE 0) + (IF cptr'[p] = o THEN 1 ELSE 0)
                 + (IF o = MP THEN 1 ELSE 0)
      BY DEF CountsMove
    <2>. HIDE DEF A, A2, B, B2, C, C2, s, r
    <2>10. Balanced(A, B, C, r, s, p, q, A2, B2, C2, ref'[o])
      <3>1. ref'[o] + (IF s \in A THEN 1 ELSE 0) + (IF p \in B THEN 1 ELSE 0) + (IF q \in C THEN 1 ELSE 0)
              >= r + (IF s \in A2 THEN 1 ELSE 0) + (IF p \in B2 THEN 1 ELSE 0) + (IF q \in C2 THEN 1 ELSE 0)
        BY <2>4, <2>5, <2>7, <2>8, <2>9
      <3>. QED
        BY <3>1, <2>6, <2>7, <2>8 DEF Balanced
    <2>11. Refs(A2, B2, C2, ref'[o])
      BY <2>1, <2>2, <2>10, Counts
    <2>. QED
      BY <2>11 DEF A2, B2, C2
  <1>4. ASSUME NEW o \in Kept' PROVE ref'[o] >= 0
    <2>1. Refs(SlotRefs(o)', HostRefs(o)', LinkRefs(o)', ref'[o])
      BY <1>1, <1>3
    <2>2. /\ Cardinality(SlotRefs(o)') \in Nat /\ Cardinality(HostRefs(o)') \in Nat
          /\ Cardinality(LinkRefs(o)') \in Nat
      BY <2>1, FS_CardinalityType DEF Refs
    <2>3. ref'[o] \in Int
      BY <1>1
    <2>. QED
      BY <2>1, <2>2, <2>3 DEF Refs
  <1>5. ASSUME NEW o \in Cells PROVE ref'[o] >= 0
    BY <1>4 DEF CountsMove
  <1>. QED
    BY <1>1, <1>3, <1>5 DEF RefInv, Refs

\* Who holds the references then.
LEMMA MutatorStep ==
  ASSUME IInv, vm # Collector, HeapMoves,
         NEW n \in Nodes, NEW f \in Fields, NEW p \in Progs, NEW q \in Progs,
         RefsMove(n, f, p, q), CountsMove(n, f, p, q),
         p \in alive, stack[p] = <<>>,
         NEW v, NEW r, NEW pushed \in BOOLEAN, Dropped(p, v, r, <<>>, stack, pushed),
         pushed => v \in Kept /\ v \notin doomed /\ cptr'[p] = Nil
  PROVE  IInv'
  <1>. DEFINE below == <<>>
  <1>1. Dropped(p, v, r, below, stack, pushed) /\ below = <<>>
    OBVIOUS
  <1>. HIDE DEF below
  <1>2. /\ ref' \in [Cells -> Int] /\ stack' \in [Progs -> Seq(Call)] /\ gchalt' \in Int
        /\ vm' \in Progs \cup {Nobody}
        /\ pushed => v \in Cells /\ ref'[v] <= 0
        /\ \A x \in Progs \ {p} : stack'[x] = stack[x]
        /\ stack'[p] # <<>> => pushed
        /\ \A m : On(stack', m) <=> On(stack, m) \/ (pushed /\ m = v)
        /\ \A m, g : Did(stack', m, g) <=> Did(stack, m, g) \/ (pushed /\ m = v /\ g \notin Todo(v))
    BY <1>1 DEF Dropped
  <1>3. UNCHANGED <<mutator, base, ptr, visit, gcpc, dying, marking, rooting, idle, left, doomed>>
    BY DEF HeapMoves
  <1>4. HaltInv' /\ StackOK(stack)' /\ ControlInv'
    BY <1>1, <1>3, DroppedControl
  <1>5. /\ sweeper' = sweeper /\ propagator' = propagator /\ White' = White
        /\ sweeper # mutator /\ propagator # sweeper
        /\ gcpc # "roots" /\ gcpc # "scan" /\ marking = <<>> /\ rooting = {} /\ MarkInv'
        /\ \A m, g : ~Pending(m, g)
        /\ \A o \in Cells : o \in Kept' <=> o \in Kept \/ (magic[o] # "A" /\ magic'[o] = "A")
        /\ Kept \subseteq Kept' /\ Kept' \subseteq Cells /\ Holders' = Progs \cup Kept'
        /\ HeaderInv' /\ PassInv'
        /\ \A o \in doomed : magic'[o] = "A" /\ color'[o] = color[o]
    BY HeapMovesFacts
  <1>6. /\ \A x : Unswept(x) => Unswept(x)'
        /\ \A x : Reached(x) => Reached(x)'
    BY HeapMovesFacts
  <1>7. /\ p \in Linked(stack, alive) /\ MP \in Kept /\ ~On(stack, MP) /\ kind[MP] = "rec"
        /\ Unswept(MP) /\ Reached(MP) /\ alive # {}
        /\ \A x \in Progs : Unswept(cptr[x]) /\ Reached(cptr[x])
    <2>1. p \in Linked(stack, alive) /\ alive # {}
      BY Whole DEF Linked
    <2>. QED
      BY <2>1, <1>3, Quiet DEF IInv, KeptInv
  <1>8. TypeInv'
    <2>1. alive' \subseteq Progs /\ ptrtab' \subseteq Cells
      BY DEF RefsMove, IInv, TypeInv
    <2>2. /\ magic' \in [Cells -> {"A", "F", "0"}] /\ kind' \in [Cells -> {"rec", "fd"}]
          /\ color' \in [Cells -> 0..3] /\ nprop' \in BOOLEAN
      BY DEF HeapMoves
    <2>3. ptrs' \in [Nodes -> [Fields -> Cells \cup {Nil}]] /\ cptr' \in [Progs -> Cells \cup {Nil}]
      BY DEF RefsMove
    <2>. QED
      BY <2>1, <2>2, <2>3, <1>2, <1>3 DEF IInv, TypeInv
  <1>9. \A x : Good(x) => x \in Kept' /\ ~On(stack, x) /\ x \notin doomed /\ Unswept(x)' /\ Reached(x)' /\ x # Nil
    BY <1>3, <1>5, Constants DEF Good, Unswept, Reached
  <1>10. \A m \in Nodes, g \in Fields :
           ptrs'[m][g] = ptrs[m][g] \/ (m = n /\ g = f /\ (ptrs'[m][g] = Nil \/ Good(ptrs'[m][g])))
    BY DEF RefsMove
  <1>11. BlankInv'
    <2>1. ASSUME NEW o \in Cells, magic'[o] # "A" PROVE kind'[o] = "rec"
      BY <2>1 DEF HeapMoves, IInv, BlankInv
    <2>2. ASSUME NEW o \in Cells, magic'[o] # "A" \/ kind'[o] = "fd", NEW g \in Fields
          PROVE  ptrs'[o][g] = Nil
      <3>1. magic[o] # "A" \/ kind[o] = "fd"
        BY <2>2 DEF HeapMoves
      <3>2. ptrs[o][g] = Nil
        BY <3>1 DEF IInv, BlankInv
      <3>3. o # n
        <4>1. n \in Cells => magic[n] = "A" /\ kind[n] = "rec"
          BY Constants DEF RefsMove, Holders, Kept
        <4>. QED
          BY <4>1, <3>1
      <3>. QED
        BY <3>2, <3>3, Constants DEF RefsMove
    <2>. QED
      BY <2>1, <2>2 DEF BlankInv
  <1>12. ASSUME NEW m \in Kept' \ Kept, NEW g \in Fields PROVE m \in Nodes /\ ptrs'[m][g] = Nil /\ ptrs[m][g] = Nil
    <2>1. m \in Cells /\ magic[m] # "A"
      BY <1>5
    <2>2. m \in Nodes /\ m # n
      BY <2>1, Constants DEF RefsMove, Holders, Kept
    <2>3. ptrs[m][g] = Nil
      BY <2>1 DEF IInv, BlankInv
    <2>. QED
      BY <2>2, <2>3 DEF RefsMove
  <1>13. Holders \subseteq Holders' /\ Holders' \subseteq Nodes
    BY <1>5, Constants DEF Holders
  <1>14. ASSUME NEW m \in Holders', NEW g \in Fields, ptrs'[m][g] # Nil
         PROVE  Did(stack', m, g) <=> Did(stack, m, g)
    <2>1. ASSUME pushed, m = v PROVE g \in Todo(v)
      <3>1. v \in Cells /\ magic[v] = "A" /\ kind'[v] = kind[v]
        BY <2>1 DEF Kept, HeapMoves
      <3>2. kind[v] # "fd"
        BY <2>1, <3>1, <1>11, <1>14 DEF BlankInv
      <3>. QED
        BY <3>2 DEF Todo
    <2>. QED
      BY <2>1, <1>2
  <1>15. Linked(stack', alive') = Linked(stack, alive) \cup {q}
    <2>1. ~Did(stack, q, "M") /\ alive' = alive \cup {q} /\ alive \subseteq Progs
      BY Whole DEF RefsMove, IInv, TypeInv
    <2>2. \A x \in Progs : Did(stack', x, "M") <=> Did(stack, x, "M")
      BY <1>2, Constants
    <2>. QED
      BY <2>1, <2>2 DEF Linked
  <1>16. RefInv'
    BY <1>2, <1>12, <1>14, <1>15, RefsAfter
  <1>17. KeptInv'
    <2>1. ASSUME NEW m \in Nodes, On(stack', m) PROVE m \in Holders'
      <3>1. CASE On(stack, m)
        BY <3>1, <1>13 DEF IInv, KeptInv
      <3>2. CASE ~On(stack, m)
        BY <2>1, <3>2, <1>2, <1>5
      <3>. QED
        BY <3>1, <3>2
    <2>2. ASSUME NEW m \in Holders', NEW g \in Fields, ~Did(stack', m, g), ptrs'[m][g] # Nil
          PROVE  ptrs'[m][g] \in Kept' /\ (On(stack', ptrs'[m][g]) => pushed /\ ptrs'[m][g] = v)
      <3>1. m \in Holders /\ m \in Nodes
        BY <2>2, <1>5, <1>12, <1>13 DEF Holders
      <3>2. ~Did(stack, m, g)
        BY <2>2, <1>2
      <3>3. ptrs'[m][g] \in Kept' /\ ~On(stack, ptrs'[m][g])
        <4>1. CASE ptrs'[m][g] = ptrs[m][g]
          BY <4>1, <2>2, <3>1, <3>2, <1>5 DEF IInv, KeptInv
        <4>2. CASE Good(ptrs'[m][g])
          BY <4>2, <1>9
        <4>. QED
          BY <4>1, <4>2, <3>1, <2>2, <1>10
      <3>. QED
        BY <3>3, <1>2
    <2>3. ASSUME NEW x \in Progs, cptr'[x] # Nil
          PROVE  cptr'[x] \in Kept' /\ kind'[cptr'[x]] = "rec" /\ (On(stack', cptr'[x]) => pushed /\ cptr'[x] = v)
      <3>1. cptr'[x] \in Kept' /\ kind'[cptr'[x]] = "rec" /\ ~On(stack, cptr'[x])
        <4>1. CASE cptr'[x] = cptr[x]
          <5>1. cptr[x] \in Kept /\ kind[cptr[x]] = "rec" /\ ~On(stack, cptr[x])
            BY <2>3, <4>1 DEF IInv, KeptInv
          <5>2. magic[cptr[x]] = "A" /\ cptr[x] \in Cells
            BY <5>1 DEF Kept
          <5>. QED
            BY <4>1, <5>1, <5>2, <1>5 DEF HeapMoves
        <4>2. CASE cptr'[x] # cptr[x]
          BY <4>2, <2>3, <1>9 DEF RefsMove
        <4>. QED
          BY <4>1, <4>2
      <3>. QED
        BY <3>1, <1>2
    <2>4. MP \in Kept' /\ kind'[MP] = "rec" /\ (On(stack', MP) => pushed /\ MP = v)
      <3>1. magic[MP] = "A" /\ MP \in Cells
        BY <1>7 DEF Kept
      <3>. QED
        BY <3>1, <1>2, <1>5, <1>7 DEF HeapMoves
    <2>5. pushed => v \in Kept' /\ ref'[v] <= 0
      BY <1>2, <1>5
    <2>6. KeptBut(v, pushed)
      BY <2>1, <2>2, <2>3, <2>4, <2>5 DEF KeptBut
    <2>. QED
      BY <2>6, <1>8, <1>16, KeptAfter
  <1>18. ProgInv'
    <2>1. ASSUME NEW x \in Progs, stack'[x] # <<>> PROVE x \in alive' /\ cptr'[x] = Nil
      BY <2>1, <1>2 DEF RefsMove, IInv, ProgInv
    <2>2. ASSUME NEW x \in Progs, cptr'[x] # Nil PROVE x \in alive'
      BY <2>2 DEF RefsMove, IInv, ProgInv
    <2>3. ASSUME NEW x \in Progs, NEW y \in Progs, cptr'[x] # Nil, cptr'[x] = cptr'[y] PROVE x = y
      <3>1. \A z \in Progs : cptr[z] # Nil => cptr[z] \in Kept
        BY DEF IInv, KeptInv
      <3>2. \A z \in Progs : cptr'[z] = cptr[z] \/ cptr'[z] = Nil \/ (z = p /\ cptr'[z] \notin Kept)
        BY DEF RefsMove
      <3>3. CASE cptr'[x] = cptr[x] /\ cptr'[y] = cptr[y]
        BY <2>3, <3>3 DEF IInv, ProgInv
      <3>4. CASE ~(cptr'[x] = cptr[x] /\ cptr'[y] = cptr[y])
        BY <2>3, <3>1, <3>2, <3>4
      <3>. QED
        BY <3>3, <3>4
    <2>4. ASSUME NEW x \in Progs \ alive', NEW g \in Fields PROVE ptrs'[x][g] = Nil
      BY <2>4, Constants DEF RefsMove, IInv, ProgInv
    <2>5. ptrtab' = {cptr'[x] : x \in Progs} \ {Nil}
      BY DEF RefsMove
    <2>. QED
      BY <2>1, <2>2, <2>3, <2>4, <2>5 DEF ProgInv
  <1>19. EdgeInv'
    <2>1. ASSUME NEW m \in Nodes, NEW g \in Fields
          PROVE  /\ Stays(m)' => Unswept(ptrs[m][g])'
                 /\ Scanned(m)' /\ ~Pending(m, g)' => Reached(ptrs[m][g])'
      <3>. PICK x : x = ptrs'[m][g]
        OBVIOUS
      <3>1. CASE x = Nil
        BY <3>1, Constants DEF Unswept, Reached
      <3>2. CASE Good(x)
        <4>1. Unswept(x)' /\ Reached(x)'
          BY <3>2, <1>9
        <4>. QED
          BY <4>1 DEF Unswept, Reached
      <3>3. CASE x = ptrs[m][g] /\ x # Nil
        <4>1. (Stays(m)' => Stays(m)) /\ (Scanned(m)' => Scanned(m)) /\ ~Pending(m, g)
          <5>1. m \in Cells => magic[m] = "A"
            BY <3>3 DEF IInv, BlankInv
          <5>2. m \in Cells => color'[m] = color[m] \/ (color[m] # sweeper /\ color'[m] = propagator)
            BY <5>1 DEF HeapMoves, Shaded
          <5>3. propagator # mutator
            BY ColourFacts DEF IInv, TypeInv
          <5>. QED
            BY <5>1, <5>2, <5>3, <1>3, <1>5 DEF Stays, Scanned
        <4>2. (Stays(m) => Unswept(ptrs[m][g])) /\ (Scanned(m) /\ ~Pending(m, g) => Reached(ptrs[m][g]))
          BY DEF IInv, EdgeInv
        <4>3. (Unswept(ptrs[m][g]) => Unswept(ptrs[m][g])') /\ (Reached(ptrs[m][g]) => Reached(ptrs[m][g])')
          BY <3>3, <1>6 DEF Unswept, Reached
        <4>. QED
          BY <4>1, <4>2, <4>3
      <3>. QED
        BY <3>1, <3>2, <3>3, <1>10
    <2>. QED
      BY <2>1 DEF EdgeInv
  <1>20. RootInv'
    <2>1. ASSUME NEW x \in Progs PROVE Unswept(cptr[x])' /\ Reached(cptr[x])'
      <3>1. CASE cptr'[x] = cptr[x]
        BY <3>1, <1>6, <1>7 DEF Unswept, Reached
      <3>2. CASE cptr'[x] = Nil
        BY <3>2, Constants DEF Unswept, Reached
      <3>3. CASE Good(cptr'[x])
        BY <3>3, <1>9 DEF Unswept, Reached
      <3>. QED
        BY <3>1, <3>2, <3>3 DEF RefsMove
    <2>2. Unswept(MP)' /\ Reached(MP)'
      BY <1>6, <1>7
    <2>. QED
      BY <2>1, <2>2 DEF RootInv
  <1>21. DoomInv'
    <2>1. \A o \in doomed : magic'[o] = "A" /\ color'[o] = color[o] /\ ~On(stack', o)
      BY <1>2, <1>5 DEF IInv, DoomInv
    <2>2. ASSUME NEW m \in Nodes \ doomed, NEW g \in Fields PROVE ptrs'[m][g] \notin doomed
      <3>1. Nil \notin doomed
        BY Constants DEF IInv, TypeInv
      <3>. QED
        BY <3>1, <1>9, <1>10 DEF IInv, DoomInv
    <2>3. ASSUME NEW x \in Progs PROVE cptr'[x] \notin doomed
      <3>1. Nil \notin doomed
        BY Constants DEF IInv, TypeInv
      <3>. QED
        BY <3>1, <1>9 DEF RefsMove, IInv, DoomInv
    <2>4. Len(marking') = 0
      BY <1>3, <1>5
    <2>. QED
      BY <2>1, <2>2, <2>3, <2>4, <1>3, <1>5 DEF IInv, DoomInv
  <1>. QED
    BY <1>4, <1>5, <1>8, <1>11, <1>16, <1>17, <1>18, <1>19, <1>20, <1>21 DEF IInv

-----------------------------------------------------------------------------
(* The instructions                                                        *)

\* Nothing is dropped.
LEMMA NoDrop ==
  ASSUME IInv, NEW p \in Progs, stack[p] = <<>>, vm = Nobody,
         NEW r \in [Cells -> Int], ref' = r, UNCHANGED <<stack, vm, gchalt>>
  PROVE  Dropped(p, Nil, r, <<>>, stack, FALSE)
  <1>. DEFINE below == <<>>
  <1>1. stack[p] = below
    OBVIOUS
  <1>. HIDE DEF below
  <1>2. stack \in [Progs -> Seq(Call)] /\ StackOK(stack) /\ IsFiniteSet(Depths(stack))
    BY DEF IInv, TypeInv, HaltInv
  <1>3. gchalt = Cardinality(Depths(stack)) + (IF gcpc = "close" THEN 1 ELSE 0) /\ gchalt \in Int
    BY DEF IInv, HaltInv, TypeInv
  <1>4. vm' \in Progs \cup {Nobody} /\ \A q \in Progs : vm' = q => stack'[q] # <<>>
    BY Constants
  <1>5. \A o \in Cells : r[o] = r[o] - (IF o = Nil THEN 1 ELSE 0)
    BY Constants
  <1>6. stack'[p] # <<>> <=> FALSE \/ below # <<>>
    BY <1>1
  <1>7. Dropped(p, Nil, r, below, stack, FALSE)
    BY <1>2, <1>3, <1>4, <1>5, <1>6 DEF Dropped
  <1>. QED
    BY <1>7 DEF below

\* Something is, by a prog that is freeing nothing else.
LEMMA DropNow ==
  ASSUME IInv, NEW p \in Progs, stack[p] = <<>>, NEW v \in Cells \cup {Nil}, v # Nil => ~On(stack, v),
         NEW r \in [Cells -> Int], Drop(p, v, r, <<>>)
  PROVE  Drops(p, v, r, <<>>, stack)
  <1>. DEFINE below == <<>>
  <1>1. Drop(p, v, r, below) /\ stack[p] = below
    OBVIOUS
  <1>. HIDE DEF below
  <1>2. stack \in [Progs -> Seq(Call)] /\ StackOK(stack) /\ IsFiniteSet(Depths(stack))
    BY DEF IInv, TypeInv, HaltInv
  <1>3. gchalt = Cardinality(Depths(stack)) + (IF gcpc = "close" THEN 1 ELSE 0)
    BY DEF IInv, HaltInv
  <1>4. stack = [stack EXCEPT ![p] = below]
    BY <1>1, <1>2
  <1>5. Drops(p, v, r, below, stack)
    BY <1>1, <1>2, <1>3, <1>4, DropFacts
  <1>. QED
    BY <1>5 DEF below

\* What a prog addresses is kept, and none of it is being freed.
LEMMA RunsFacts ==
  ASSUME IInv, NEW p \in Progs, Runs(p)
  PROVE  /\ \A n \in Places(p) :
              /\ n \in Nodes /\ n \in Holders /\ ~On(stack, n) /\ n \notin doomed
              /\ \A f : ~Did(stack, n, f)
              /\ n \in Cells => kind[n] = "rec"
              /\ n \in Progs => n \in alive
         /\ \A n \in Places(p), f \in Fields :
              /\ ptrs[n][f] \in Cells \cup {Nil}
              /\ ptrs[n][f] # Nil => /\ ptrs[n][f] \in Kept /\ ~On(stack, ptrs[n][f])
                                     /\ ptrs[n][f] \notin doomed /\ color[ptrs[n][f]] # sweeper
         /\ \A v \in Values(p) :
              /\ v \in Cells \cup {Nil}
              /\ v # Nil => v \in Kept /\ ~On(stack, v) /\ v \notin doomed /\ color[v] # sweeper
  <1>1. /\ p \in alive /\ stack[p] = <<>> /\ cptr[p] = Nil /\ vm # Collector
        /\ ~On(stack, p) /\ \A f : ~Did(stack, p, f)
        /\ MP \in Kept /\ ~On(stack, MP) /\ kind[MP] = "rec"
    BY Runner
  <1>2. \A n : ~On(stack, n) => \A f : ~Did(stack, n, f)
    BY DEF On, Did
  <1>3. ASSUME NEW n \in Nodes, n \in Holders, ~On(stack, n), n \notin doomed, Stays(n), NEW f \in Fields
        PROVE  /\ ptrs[n][f] \in Cells \cup {Nil}
               /\ ptrs[n][f] # Nil => /\ ptrs[n][f] \in Kept /\ ~On(stack, ptrs[n][f])
                                      /\ ptrs[n][f] \notin doomed /\ color[ptrs[n][f]] # sweeper
    <2>1. ptrs[n][f] \in Cells \cup {Nil} /\ ptrs[n][f] \notin doomed
      BY <1>3 DEF IInv, TypeInv, DoomInv
    <2>2. ptrs[n][f] # Nil => ptrs[n][f] \in Kept /\ ~On(stack, ptrs[n][f])
      BY <1>2, <1>3 DEF IInv, KeptInv
    <2>3. Unswept(ptrs[n][f])
      BY <1>3 DEF IInv, EdgeInv
    <2>. QED
      BY <2>1, <2>2, <2>3 DEF Unswept, Kept
  <1>4. Stays(MP) /\ MP \notin doomed /\ MP \in Nodes
    <2>1. Unswept(MP) /\ magic[MP] = "A"
      BY <1>1, Constants DEF IInv, RootInv, Kept
    <2>. QED
      BY <2>1, Constants DEF Stays, Unswept, IInv, DoomInv
  <1>5. Stays(p) /\ p \notin doomed /\ p \in Nodes /\ p \in Holders
    BY Constants DEF Stays, Holders, IInv, TypeInv
  <1>6. ASSUME NEW n \in Places(p)
        PROVE  /\ n \in Nodes /\ n \in Holders /\ ~On(stack, n) /\ n \notin doomed /\ Stays(n)
               /\ n \in Cells => kind[n] = "rec"
               /\ n \in Progs => n \in alive
    <2>1. CASE n = p
      BY <2>1, <1>1, <1>5, Constants
    <2>2. CASE n = MP
      BY <2>2, <1>1, <1>4, Constants DEF Holders
    <2>3. CASE n # p /\ n # MP
      <3>1. PICK f \in Fields : n = ptrs[p][f] /\ n # Nil /\ kind[n] = "rec"
        BY <2>3 DEF Places
      <3>2. n \in Cells /\ n \in Kept /\ ~On(stack, n) /\ n \notin doomed /\ color[n] # sweeper
        BY <3>1, <1>1, <1>3, <1>5
      <3>. QED
        BY <3>1, <3>2, Constants DEF Kept, Holders, Stays
    <2>. QED
      BY <2>1, <2>2, <2>3
  <1>7. ASSUME NEW v \in Values(p)
        PROVE  /\ v \in Cells \cup {Nil}
               /\ v # Nil => v \in Kept /\ ~On(stack, v) /\ v \notin doomed /\ color[v] # sweeper
    <2>1. CASE v = Nil
      BY <2>1
    <2>2. CASE v # Nil
      <3>1. PICK n \in Places(p), f \in Fields : v = ptrs[n][f]
        BY <2>2 DEF Values
      <3>. QED
        BY <3>1, <1>3, <1>6
    <2>. QED
      BY <2>1, <2>2
  <1>. QED
    BY <1>2, <1>3, <1>6, <1>7

\* Setmark.
LEMMA SetmarkFacts ==
  ASSUME IInv, NEW u \in Cells \cup {Nil}, NEW v \in Cells \cup {Nil},
         \A x \in {u, v} \ {Nil} : color[x] # sweeper /\ x \notin doomed,
         color' = Setmark(Setmark(color, u), v), nprop' = Marked(Marked(nprop, u), v)
  PROVE  /\ color' \in [Cells -> 0..3] /\ nprop' \in BOOLEAN /\ (nprop => nprop')
         /\ \A o \in Cells : color'[o] = color[o] \/ Shaded(o)
         /\ u # Nil => color'[u] \in {mutator, propagator}
         /\ v # Nil => color'[v] \in {mutator, propagator}
  <1>1. color \in [Cells -> 0..3] /\ nprop \in BOOLEAN /\ propagator = 3 /\ propagator # mutator
    BY ColourFacts DEF IInv, TypeInv
  <1>. DEFINE c == Setmark(color, u)
  <1>2. /\ c \in [Cells -> 0..3]
        /\ \A o \in Cells : c[o] = IF o = u /\ color[o] # mutator THEN propagator ELSE color[o]
    BY <1>1, Constants DEF Setmark
  <1>3. color' = Setmark(c, v)
    OBVIOUS
  <1>. HIDE DEF c
  <1>4. /\ color' \in [Cells -> 0..3]
        /\ \A o \in Cells : color'[o] = IF o = v /\ c[o] # mutator THEN propagator ELSE c[o]
    BY <1>1, <1>2, <1>3, Constants DEF Setmark
  <1>5. /\ nprop => nprop'
        /\ u # Nil /\ color[u] # mutator => nprop'
        /\ v # Nil /\ color[v] # mutator => nprop'
        /\ nprop' \in BOOLEAN
    BY <1>1 DEF Marked
  <1>6. ASSUME NEW o \in Cells, color'[o] # color[o] PROVE Shaded(o)
    <2>1. color'[o] = propagator /\ color[o] # mutator /\ o \in {u, v} \ {Nil}
      BY <1>6, <1>1, <1>2, <1>4, Constants
    <2>. QED
      BY <2>1, <1>5 DEF Shaded
  <1>7. /\ u # Nil => color'[u] \in {mutator, propagator}
        /\ v # Nil => color'[v] \in {mutator, propagator}
    BY <1>1, <1>2, <1>4
  <1>. QED
    BY <1>4, <1>5, <1>6, <1>7

\* One block is marked.
LEMMA SetmarkOne ==
  ASSUME IInv, NEW v \in Cells \cup {Nil}, v # Nil => color[v] # sweeper /\ v \notin doomed,
         color' = Setmark(color, v), nprop' = Marked(nprop, v)
  PROVE  /\ color' \in [Cells -> 0..3] /\ nprop' \in BOOLEAN /\ (nprop => nprop')
         /\ \A o \in Cells : color'[o] = color[o] \/ Shaded(o)
         /\ v # Nil => color'[v] \in {mutator, propagator}
  <1>. DEFINE u == Nil
  <1>1. Setmark(color, u) = color /\ Marked(nprop, u) = nprop
    BY DEF Setmark, Marked
  <1>2. u \in Cells \cup {Nil} /\ \A x \in {u, v} \ {Nil} : color[x] # sweeper /\ x \notin doomed
    OBVIOUS
  <1>. HIDE DEF u
  <1>3. color' = Setmark(Setmark(color, u), v) /\ nprop' = Marked(Marked(nprop, u), v)
    BY <1>1
  <1>. QED
    BY <1>2, <1>3, SetmarkFacts

\* heap and nheap.
LEMMA HeapFacts ==
  ASSUME IInv, vm # Collector, NEW b \in Cells, NEW k \in {"rec", "fd"}, Heap(b, k),
         UNCHANGED <<mutator, nprop, base, ptr, visit, gcpc, dying, marking, rooting, idle, left, doomed>>
  PROVE  HeapMoves /\ Good(b) /\ b \notin Kept /\ kind'[b] = k
  <1>1. /\ magic' \in [Cells -> {"A", "F", "0"}]
        /\ magic[b] # "A" /\ magic'[b] = "A"
        /\ \A c \in Cells : magic[c] # "0" => magic'[c] # "0"
        /\ \A c \in Cells \ {b} : magic'[c] = "A" <=> magic[c] = "A"
    BY PoolallocFact DEF Heap, IInv, TypeInv
  <1>2. /\ kind' \in [Cells -> {"rec", "fd"}] /\ kind'[b] = k
        /\ \A o \in Cells \ {b} : kind'[o] = kind[o]
    BY DEF Heap, IInv, TypeInv
  <1>3. /\ color' \in [Cells -> 0..3] /\ color'[b] = mutator
        /\ \A o \in Cells \ {b} : color'[o] = color[o]
    BY DEF Heap, IInv, TypeInv
  <1>4. HeapMoves
    BY <1>1, <1>2, <1>3 DEF HeapMoves, IInv, TypeInv
  <1>5. b \notin Kept /\ b \in Kept'
    BY <1>1, <1>4, HeapMovesFacts DEF Kept
  <1>6. ~On(stack, b) /\ b \notin doomed
    BY <1>1, <1>5, Constants DEF IInv, KeptInv, Holders, DoomInv
  <1>. QED
    BY <1>2, <1>3, <1>4, <1>5, <1>6 DEF Good

\* movp.
LEMMA MovpStep ==
  ASSUME IInv, NEW p \in Progs, NEW n \in Places(p), NEW f \in Fields, NEW v \in Values(p), Movp(p, n, f, v)
  PROVE  IInv'
  <1>. USE DEF passvars, gcvars
  <1>1. /\ Runs(p) /\ color' = Setmark(color, v) /\ nprop' = Marked(nprop, v)
        /\ ptrs' = [ptrs EXCEPT ![n][f] = v]
        /\ Drop(p, ptrs[n][f], Counted(ref, v), <<>>)
        /\ UNCHANGED <<magic, kind, alive, cptr, ptrtab, mutator, base, ptr, visit,
                       gcpc, dying, marking, rooting, idle, left, doomed>>
    BY DEF Movp
  <1>2. p \in alive /\ stack[p] = <<>> /\ cptr[p] = Nil /\ vm = Nobody /\ vm # Collector
    BY <1>1, Runner
  <1>3. /\ n \in Nodes /\ n \in Holders /\ ~Did(stack, n, f)
        /\ n \in Cells => kind[n] = "rec"
        /\ n \in Progs => n \in alive
        /\ v \in Cells \cup {Nil}
        /\ v # Nil => v \in Kept /\ ~On(stack, v) /\ v \notin doomed /\ color[v] # sweeper
    BY <1>1, RunsFacts
  <1>. DEFINE old == ptrs[n][f]
              r == Counted(ref, v)
  <1>4. old \in Cells \cup {Nil} /\ (old # Nil => old \in Kept /\ ~On(stack, old) /\ old \notin doomed)
    BY <1>1, RunsFacts
  <1>5. /\ color' \in [Cells -> 0..3] /\ nprop' \in BOOLEAN /\ (nprop => nprop')
        /\ \A o \in Cells : color'[o] = color[o] \/ Shaded(o)
        /\ v # Nil => color'[v] \in {mutator, propagator}
    BY <1>1, <1>3, SetmarkOne
  <1>6. HeapMoves
    BY <1>1, <1>5 DEF HeapMoves, IInv, TypeInv
  <1>7. v = Nil \/ Good(v)
    BY <1>2, <1>3, <1>5, <1>6, HeapMovesFacts DEF Good
  <1>8. /\ ptrs' \in [Nodes -> [Fields -> Cells \cup {Nil}]] /\ ptrs'[n][f] = v
        /\ \A m \in Nodes : \A g \in Fields : (m # n \/ g # f) => ptrs'[m][g] = ptrs[m][g]
    BY <1>1, <1>3 DEF IInv, TypeInv
  <1>9. RefsMove(n, f, p, p)
    <2>1. cptr' \in [Progs -> Cells \cup {Nil}] /\ ptrtab' = {cptr'[x] : x \in Progs} \ {Nil}
      BY <1>1 DEF IInv, TypeInv, ProgInv
    <2>. QED
      BY <2>1, <1>1, <1>2, <1>3, <1>7, <1>8 DEF RefsMove
  <1>10. /\ r \in [Cells -> Int]
         /\ \A o \in Cells : r[o] = ref[o] + (IF o = v THEN 1 ELSE 0)
    <2>1. ref \in [Cells -> Int] /\ v \in Cells \cup {Nil} /\ Nil \notin Cells
      BY <1>3, Constants DEF IInv, TypeInv
    <2>2. CASE v = Nil
      <3>1. r = ref
        BY ONLY <2>2 DEF Counted
      <3>. HIDE DEF r
      <3>. QED
        BY ONLY <2>1, <2>2, <3>1
    <2>3. CASE v # Nil
      <3>1. r = [ref EXCEPT ![v] = @ + 1]
        BY ONLY <2>3 DEF Counted
      <3>. HIDE DEF r
      <3>. QED
        BY ONLY <2>1, <2>3, <3>1
    <2>. QED
      BY <2>2, <2>3
  <1>. HIDE DEF r
  <1>11. PICK pushed \in BOOLEAN : Dropped(p, old, r, <<>>, stack, pushed)
    <2>1. Drop(p, old, r, <<>>)
      BY <1>1 DEF r
    <2>. HIDE DEF old
    <2>2. Drops(p, old, r, <<>>, stack)
      BY <2>1, <1>2, <1>4, <1>10, DropNow
    <2>. QED
      BY <2>2 DEF Drops
  <1>12. /\ \A o \in Cells : ref'[o] = r[o] - (IF o = old THEN 1 ELSE 0)
         /\ pushed => old \in Kept /\ old \notin doomed /\ cptr'[p] = Nil
    <2>. HIDE DEF old
    <2>1. pushed => old \in Cells
      BY <1>11 DEF Dropped
    <2>. QED
      BY <2>1, <1>1, <1>2, <1>4, <1>11, Constants DEF Dropped
  <1>13. CountsMove(n, f, p, p)
    <2>1. \A o \in Cells : ref[o] \in Int /\ ref[o] >= 0
      BY DEF IInv, TypeInv, RefInv
    <2>2. \A o \in Cells : o \notin Kept' => o # old
      <3>1. Kept \subseteq Kept' /\ (old \in Kept \/ old \notin Cells)
        BY <1>2, <1>4, <1>6, Constants, HeapMovesFacts
      <3>. HIDE DEF old
      <3>. QED
        BY <3>1
    <2>3. ptrs[n][f] = old /\ cptr'[p] = cptr[p]
      BY <1>1
    <2>. HIDE DEF old
    <2>. QED
      BY <2>1, <2>2, <2>3, <1>2, <1>8, <1>10, <1>12 DEF CountsMove
  <1>. HIDE DEF old
  <1>. QED
    BY <1>2, <1>3, <1>6, <1>9, <1>11, <1>12, <1>13, MutatorStep

\* new.
LEMMA NewStep ==
  ASSUME IInv, NEW p \in Progs, NEW b \in Cells, NEW n \in Places(p), NEW f \in Fields, New(p, b, n, f)
  PROVE  IInv'
  <1>. USE DEF passvars, gcvars
  <1>1. /\ Runs(p) /\ Heap(b, "rec")
        /\ ptrs' = [ptrs EXCEPT ![n][f] = b]
        /\ Drop(p, ptrs[n][f], [ref EXCEPT ![b] = 1], <<>>)
        /\ UNCHANGED <<alive, cptr, ptrtab, mutator, nprop, base, ptr, visit,
                       gcpc, dying, marking, rooting, idle, left, doomed>>
    BY DEF New
  <1>2. p \in alive /\ stack[p] = <<>> /\ cptr[p] = Nil /\ vm = Nobody /\ vm # Collector
    BY <1>1, Runner
  <1>3. /\ n \in Nodes /\ n \in Holders /\ ~Did(stack, n, f)
        /\ n \in Cells => kind[n] = "rec"
        /\ n \in Progs => n \in alive
    BY <1>1, RunsFacts
  <1>. DEFINE old == ptrs[n][f]
              r == [ref EXCEPT ![b] = 1]
              k == "rec"
  <1>4. old \in Cells \cup {Nil} /\ (old # Nil => old \in Kept /\ ~On(stack, old) /\ old \notin doomed)
    BY <1>1, RunsFacts
  <1>5. HeapMoves /\ Good(b) /\ b \notin Kept
    <2>1. Heap(b, k) /\ k \in {"rec", "fd"}
      BY <1>1
    <2>. HIDE DEF k
    <2>. QED
      BY <2>1, <1>1, <1>2, HeapFacts
  <1>6. /\ ptrs' \in [Nodes -> [Fields -> Cells \cup {Nil}]] /\ ptrs'[n][f] = b
        /\ \A m \in Nodes : \A g \in Fields : (m # n \/ g # f) => ptrs'[m][g] = ptrs[m][g]
    BY <1>1, <1>3 DEF IInv, TypeInv
  <1>7. RefsMove(n, f, p, p)
    <2>1. cptr' \in [Progs -> Cells \cup {Nil}] /\ ptrtab' = {cptr'[x] : x \in Progs} \ {Nil}
      BY <1>1 DEF IInv, TypeInv, ProgInv
    <2>. QED
      BY <2>1, <1>1, <1>2, <1>3, <1>5, <1>6 DEF RefsMove
  <1>8. /\ r \in [Cells -> Int]
        /\ \A o \in Cells : r[o] = IF o = b THEN 1 ELSE ref[o]
    BY DEF IInv, TypeInv
  <1>. HIDE DEF r
  <1>9. PICK pushed \in BOOLEAN : Dropped(p, old, r, <<>>, stack, pushed)
    <2>1. Drop(p, old, r, <<>>)
      BY <1>1 DEF r
    <2>. HIDE DEF old
    <2>2. Drops(p, old, r, <<>>, stack)
      BY <2>1, <1>2, <1>4, <1>8, DropNow
    <2>. QED
      BY <2>2 DEF Drops
  <1>10. /\ \A o \in Cells : ref'[o] = r[o] - (IF o = old THEN 1 ELSE 0)
         /\ pushed => old \in Kept /\ old \notin doomed /\ cptr'[p] = Nil
    <2>. HIDE DEF old
    <2>1. pushed => old \in Cells
      BY <1>9 DEF Dropped
    <2>. QED
      BY <2>1, <1>1, <1>2, <1>4, <1>9, Constants DEF Dropped
  <1>11. CountsMove(n, f, p, p)
    <2>1. \A o \in Cells : ref[o] \in Int /\ ref[o] >= 0
      BY DEF IInv, TypeInv, RefInv
    <2>2. \A o \in Cells : o \notin Kept' => o # old
      <3>1. Kept \subseteq Kept' /\ (old \in Kept \/ old \notin Cells)
        BY <1>2, <1>4, <1>5, Constants, HeapMovesFacts
      <3>. HIDE DEF old
      <3>. QED
        BY <3>1
    <2>3. ptrs[n][f] = old /\ cptr'[p] = cptr[p] /\ old # b
      BY <1>1, <1>4, <1>5, Constants
    <2>. HIDE DEF old
    <2>. QED
      BY <2>1, <2>2, <2>3, <1>2, <1>5, <1>6, <1>8, <1>10 DEF CountsMove
  <1>. HIDE DEF old
  <1>. QED
    BY <1>2, <1>3, <1>5, <1>7, <1>9, <1>10, <1>11, MutatorStep

\* Sys_open.
LEMMA OpenStep ==
  ASSUME IInv, NEW p \in Progs, NEW b \in Cells, NEW f \in Fields, Open(p, b, f)
  PROVE  IInv'
  <1>. USE DEF passvars, gcvars, progvars
  <1>1. /\ Runs(p) /\ ptrs[p][f] = Nil /\ Heap(b, "fd")
        /\ ptrs' = [ptrs EXCEPT ![p][f] = b]
        /\ ref' = [ref EXCEPT ![b] = 1]
        /\ UNCHANGED <<alive, cptr, ptrtab, stack, vm, gchalt, mutator, nprop, base, ptr, visit,
                       gcpc, dying, marking, rooting, idle, left, doomed>>
    BY DEF Open
  <1>2. /\ p \in alive /\ stack[p] = <<>> /\ cptr[p] = Nil /\ vm = Nobody /\ vm # Collector
        /\ ~Did(stack, p, f) /\ p \in Nodes /\ p \in Holders /\ p \notin Cells
    BY <1>1, Runner, Constants DEF Holders
  <1>. DEFINE k == "fd"
              r == [ref EXCEPT ![b] = 1]
  <1>3. HeapMoves /\ Good(b) /\ b \notin Kept
    <2>1. Heap(b, k) /\ k \in {"rec", "fd"}
      BY <1>1
    <2>. HIDE DEF k
    <2>. QED
      BY <2>1, <1>1, <1>2, HeapFacts
  <1>4. /\ ptrs' \in [Nodes -> [Fields -> Cells \cup {Nil}]] /\ ptrs'[p][f] = b
        /\ \A m \in Nodes : \A g \in Fields : (m # p \/ g # f) => ptrs'[m][g] = ptrs[m][g]
    BY <1>1, <1>2 DEF IInv, TypeInv
  <1>5. RefsMove(p, f, p, p)
    <2>1. cptr' \in [Progs -> Cells \cup {Nil}] /\ ptrtab' = {cptr'[x] : x \in Progs} \ {Nil}
      BY <1>1 DEF IInv, TypeInv, ProgInv
    <2>. QED
      BY <2>1, <1>1, <1>2, <1>3, <1>4 DEF RefsMove
  <1>6. /\ r \in [Cells -> Int] /\ ref' = r
        /\ \A o \in Cells : r[o] = IF o = b THEN 1 ELSE ref[o]
    BY <1>1 DEF IInv, TypeInv
  <1>. HIDE DEF r
  <1>7. Dropped(p, Nil, r, <<>>, stack, FALSE)
    BY <1>1, <1>2, <1>6, NoDrop
  <1>8. CountsMove(p, f, p, p)
    <2>1. \A o \in Cells : ref[o] \in Int /\ ref[o] >= 0
      BY DEF IInv, TypeInv, RefInv
    <2>. QED
      BY <2>1, <1>1, <1>2, <1>3, <1>4, <1>6, Constants DEF CountsMove
  <1>9. FALSE \in BOOLEAN
    OBVIOUS
  <1>. QED
    BY <1>2, <1>3, <1>5, <1>7, <1>8, <1>9, MutatorStep

\* spawn.
LEMMA SpawnStep ==
  ASSUME IInv, NEW p \in Progs, NEW q \in Progs, NEW f \in Fields, NEW v \in Values(p), Spawn(p, q, f, v)
  PROVE  IInv'
  <1>. USE DEF passvars, gcvars
  <1>1. /\ Runs(p) /\ q \notin alive /\ alive' = alive \cup {q}
        /\ ptrs' = [ptrs EXCEPT ![q][f] = v]
        /\ ref' = Counted(Counted(ref, MP), v)
        /\ color' = Setmark(Setmark(color, MP), v)
        /\ nprop' = Marked(Marked(nprop, MP), v)
        /\ UNCHANGED <<magic, kind, cptr, ptrtab, stack, vm, gchalt, mutator, base, ptr, visit,
                       gcpc, dying, marking, rooting, idle, left, doomed>>
    BY DEF Spawn
  <1>2. p \in alive /\ stack[p] = <<>> /\ vm = Nobody /\ vm # Collector /\ MP \in Kept /\ MP \in Places(p)
    BY <1>1, Runner DEF Places
  <1>3. /\ stack[q] = <<>> /\ ptrs[q][f] = Nil
        /\ q \in Nodes /\ q \in Holders /\ q \notin Cells /\ ~Did(stack, q, f)
    <2>1. stack[q] = <<>> /\ ptrs[q][f] = Nil
      BY <1>1 DEF IInv, ProgInv
    <2>. QED
      BY <2>1, Whole, Constants DEF Holders
  <1>4. /\ v \in Cells \cup {Nil}
        /\ v # Nil => v \in Kept /\ ~On(stack, v) /\ v \notin doomed /\ color[v] # sweeper
    BY <1>1, RunsFacts
  <1>5. MP \in Cells /\ color[MP] # sweeper /\ MP \notin doomed
    <2>1. Unswept(MP) /\ magic[MP] = "A"
      BY <1>2 DEF IInv, RootInv, Kept
    <2>. QED
      BY <2>1, Constants DEF Unswept, IInv, DoomInv
  <1>6. /\ color' \in [Cells -> 0..3] /\ nprop' \in BOOLEAN /\ (nprop => nprop')
        /\ \A o \in Cells : color'[o] = color[o] \/ Shaded(o)
        /\ v # Nil => color'[v] \in {mutator, propagator}
    BY <1>1, <1>4, <1>5, SetmarkFacts
  <1>7. HeapMoves
    BY <1>1, <1>6 DEF HeapMoves, IInv, TypeInv
  <1>8. v = Nil \/ Good(v)
    BY <1>2, <1>4, <1>6, <1>7, HeapMovesFacts DEF Good
  <1>9. /\ ptrs' \in [Nodes -> [Fields -> Cells \cup {Nil}]] /\ ptrs'[q][f] = v
        /\ \A m \in Nodes : \A g \in Fields : (m # q \/ g # f) => ptrs'[m][g] = ptrs[m][g]
    BY <1>1, <1>3, <1>4 DEF IInv, TypeInv
  <1>10. RefsMove(q, f, p, q)
    <2>1. cptr' \in [Progs -> Cells \cup {Nil}] /\ ptrtab' = {cptr'[x] : x \in Progs} \ {Nil}
      BY <1>1 DEF IInv, TypeInv, ProgInv
    <2>. QED
      BY <2>1, <1>1, <1>3, <1>8, <1>9 DEF RefsMove
  <1>. DEFINE c == Counted(ref, MP)
              r == Counted(c, v)
  <1>11. c \in [Cells -> Int] /\ \A o \in Cells : c[o] = ref[o] + (IF o = MP THEN 1 ELSE 0)
    BY Constants DEF Counted, IInv, TypeInv
  <1>. HIDE DEF c
  <1>12. r \in [Cells -> Int] /\ \A o \in Cells : r[o] = c[o] + (IF o = v THEN 1 ELSE 0)
    BY <1>4, <1>11, Constants DEF Counted
  <1>13. ref' = r
    BY <1>1 DEF c
  <1>. HIDE DEF r
  <1>14. Dropped(p, Nil, r, <<>>, stack, FALSE)
    BY <1>1, <1>2, <1>12, <1>13, NoDrop
  <1>15. CountsMove(q, f, p, q)
    <2>1. \A o \in Cells : ref[o] \in Int /\ ref[o] >= 0
      BY DEF IInv, TypeInv, RefInv
    <2>. QED
      BY <2>1, <1>1, <1>3, <1>9, <1>11, <1>12, <1>13, Constants DEF CountsMove
  <1>16. FALSE \in BOOLEAN
    OBVIOUS
  <1>. QED
    BY <1>2, <1>3, <1>7, <1>10, <1>14, <1>15, <1>16, MutatorStep

\* srvread takes a block that its C variable and ptrtab alone point to.
LEMMA HostCallStep ==
  ASSUME IInv, NEW p \in Progs, NEW b \in Cells, HostCall(p, b)
  PROVE  IInv'
  <1>. USE DEF passvars, gcvars
  <1>1. /\ Runs(p) /\ Heap(b, "rec")
        /\ ref' = [ref EXCEPT ![b] = 1]
        /\ cptr' = [cptr EXCEPT ![p] = b]
        /\ ptrtab' = ptrtab \cup {b}
        /\ UNCHANGED <<ptrs, alive, stack, vm, gchalt, mutator, nprop, base, ptr, visit,
                       gcpc, dying, marking, rooting, idle, left, doomed>>
    BY DEF HostCall
  <1>2. PICK f \in Fields : TRUE
    BY Constants
  <1>3. /\ p \in alive /\ stack[p] = <<>> /\ cptr[p] = Nil /\ vm = Nobody /\ vm # Collector
        /\ ~Did(stack, p, f) /\ p \in Nodes /\ p \in Holders /\ p \notin Cells
    BY <1>1, Runner, Constants DEF Holders
  <1>. DEFINE k == "rec"
              r == [ref EXCEPT ![b] = 1]
  <1>4. HeapMoves /\ Good(b) /\ b \notin Kept /\ kind'[b] = "rec"
    <2>1. Heap(b, k) /\ k \in {"rec", "fd"} /\ k = "rec"
      BY <1>1
    <2>. HIDE DEF k
    <2>. QED
      BY <2>1, <1>1, <1>3, HeapFacts
  <1>5. /\ cptr' \in [Progs -> Cells \cup {Nil}] /\ cptr'[p] = b
        /\ \A x \in Progs \ {p} : cptr'[x] = cptr[x]
    BY <1>1 DEF IInv, TypeInv
  <1>6. ptrtab' = {cptr'[x] : x \in Progs} \ {Nil}
    <2>1. ptrtab = {cptr[x] : x \in Progs} \ {Nil} /\ b # Nil
      BY Constants DEF IInv, ProgInv
    <2>. QED
      BY <2>1, <1>1, <1>3, <1>5
  <1>7. RefsMove(p, f, p, p)
    <2>1. ptrs' \in [Nodes -> [Fields -> Cells \cup {Nil}]]
      BY <1>1 DEF IInv, TypeInv
    <2>. QED
      BY <2>1, <1>1, <1>3, <1>4, <1>5, <1>6 DEF RefsMove
  <1>8. /\ r \in [Cells -> Int] /\ ref' = r
        /\ \A o \in Cells : r[o] = IF o = b THEN 1 ELSE ref[o]
    BY <1>1 DEF IInv, TypeInv
  <1>. HIDE DEF r
  <1>9. Dropped(p, Nil, r, <<>>, stack, FALSE)
    BY <1>1, <1>3, <1>8, NoDrop
  <1>10. CountsMove(p, f, p, p)
    <2>1. \A o \in Cells : ref[o] \in Int /\ ref[o] >= 0
      BY DEF IInv, TypeInv, RefInv
    <2>. QED
      BY <2>1, <1>1, <1>3, <1>4, <1>5, <1>8, Constants DEF CountsMove
  <1>11. FALSE \in BOOLEAN
    OBVIOUS
  <1>. QED
    BY <1>3, <1>4, <1>7, <1>9, <1>10, <1>11, MutatorStep

\* movtmp into that block.
LEMMA DeliverStep ==
  ASSUME IInv, NEW s \in Progs, NEW p \in Progs, NEW f \in Fields, NEW v \in Values(s), Deliver(s, p, f, v)
  PROVE  IInv'
  <1>. USE DEF passvars, gcvars, progvars
  <1>1. /\ Runs(s) /\ cptr[p] # Nil /\ ptrs[cptr[p]][f] = Nil
        /\ ptrs' = [ptrs EXCEPT ![cptr[p]][f] = v]
        /\ ref' = Counted(ref, v)
        /\ color' = Setmark(color, v)
        /\ nprop' = Marked(nprop, v)
        /\ UNCHANGED <<magic, kind, alive, cptr, ptrtab, stack, vm, gchalt, mutator, base, ptr, visit,
                       gcpc, dying, marking, rooting, idle, left, doomed>>
    BY DEF Deliver
  <1>2. s \in alive /\ stack[s] = <<>> /\ vm = Nobody /\ vm # Collector
    BY <1>1, Runner
  <1>3. PICK n : n = cptr[p]
    OBVIOUS
  <1>4. /\ n \in Kept /\ ~On(stack, n) /\ kind[n] = "rec" /\ n \in Cells /\ n \in Nodes /\ n \in Holders
        /\ ~Did(stack, n, f) /\ n \notin Progs
    <2>1. n \in Kept /\ ~On(stack, n) /\ kind[n] = "rec"
      BY <1>1, <1>3 DEF IInv, KeptInv
    <2>. QED
      BY <2>1, Constants DEF Kept, Holders, On, Did
  <1>5. /\ v \in Cells \cup {Nil}
        /\ v # Nil => v \in Kept /\ ~On(stack, v) /\ v \notin doomed /\ color[v] # sweeper
    BY <1>1, RunsFacts
  <1>6. /\ color' \in [Cells -> 0..3] /\ nprop' \in BOOLEAN /\ (nprop => nprop')
        /\ \A o \in Cells : color'[o] = color[o] \/ Shaded(o)
        /\ v # Nil => color'[v] \in {mutator, propagator}
    BY <1>1, <1>5, SetmarkOne
  <1>7. HeapMoves
    BY <1>1, <1>6 DEF HeapMoves, IInv, TypeInv
  <1>8. v = Nil \/ Good(v)
    BY <1>2, <1>5, <1>6, <1>7, HeapMovesFacts DEF Good
  <1>9. /\ ptrs[n][f] = Nil
        /\ ptrs' \in [Nodes -> [Fields -> Cells \cup {Nil}]] /\ ptrs'[n][f] = v
        /\ \A m \in Nodes : \A g \in Fields : (m # n \/ g # f) => ptrs'[m][g] = ptrs[m][g]
    BY <1>1, <1>3, <1>4, <1>5 DEF IInv, TypeInv
  <1>10. RefsMove(n, f, s, s)
    <2>1. cptr' \in [Progs -> Cells \cup {Nil}] /\ ptrtab' = {cptr'[x] : x \in Progs} \ {Nil}
      BY <1>1 DEF IInv, TypeInv, ProgInv
    <2>. QED
      BY <2>1, <1>1, <1>2, <1>4, <1>8, <1>9 DEF RefsMove
  <1>. DEFINE r == Counted(ref, v)
  <1>11. /\ r \in [Cells -> Int] /\ ref' = r
         /\ \A o \in Cells : r[o] = ref[o] + (IF o = v THEN 1 ELSE 0)
    <2>1. ref \in [Cells -> Int] /\ v \in Cells \cup {Nil} /\ Nil \notin Cells
      BY <1>5, Constants DEF IInv, TypeInv
    <2>2. ref' = r
      BY ONLY <1>1
    <2>3. CASE v = Nil
      <3>1. r = ref
        BY ONLY <2>3 DEF Counted
      <3>. HIDE DEF r
      <3>. QED
        BY ONLY <2>1, <2>2, <2>3, <3>1
    <2>4. CASE v # Nil
      <3>1. r = [ref EXCEPT ![v] = @ + 1]
        BY ONLY <2>4 DEF Counted
      <3>. HIDE DEF r
      <3>. QED
        BY ONLY <2>1, <2>2, <2>4, <3>1
    <2>. QED
      BY <2>3, <2>4
  <1>. HIDE DEF r
  <1>12. Dropped(s, Nil, r, <<>>, stack, FALSE)
    BY <1>1, <1>2, <1>11, NoDrop
  <1>13. CountsMove(n, f, s, s)
    <2>1. \A o \in Cells : ref[o] \in Int /\ ref[o] >= 0
      BY DEF IInv, TypeInv, RefInv
    <2>. QED
      BY <2>1, <1>1, <1>2, <1>9, <1>11, Constants DEF CountsMove
  <1>14. FALSE \in BOOLEAN
    OBVIOUS
  <1>. QED
    BY <1>2, <1>4, <1>7, <1>10, <1>12, <1>13, <1>14, MutatorStep

\* srvread returns.
LEMMA HostReturnStep ==
  ASSUME IInv, NEW p \in Progs, HostReturn(p)
  PROVE  IInv'
  <1>. USE DEF passvars, gcvars
  <1>1. /\ vm = Nobody /\ cptr[p] # Nil
        /\ ptrtab' = ptrtab \ {cptr[p]}
        /\ cptr' = [cptr EXCEPT ![p] = Nil]
        /\ Drop(p, cptr[p], ref, <<>>)
        /\ UNCHANGED <<magic, kind, color, ptrs, alive, mutator, nprop, base, ptr, visit,
                       gcpc, dying, marking, rooting, idle, left, doomed>>
    BY DEF HostReturn
  <1>2. PICK f \in Fields : TRUE
    BY Constants
  <1>3. /\ p \in alive /\ stack[p] = <<>> /\ vm # Collector
        /\ p \in Nodes /\ p \in Holders /\ p \notin Cells /\ ~Did(stack, p, f)
    <2>1. p \in alive /\ stack[p] = <<>> /\ vm # Collector
      BY <1>1, Constants DEF IInv, ProgInv
    <2>. QED
      BY <2>1, Whole, Constants DEF Holders
  <1>4. PICK v : v = cptr[p]
    OBVIOUS
  <1>5. v \in Cells /\ v # Nil /\ v \in Kept /\ ~On(stack, v) /\ v \notin doomed
    BY <1>1, <1>4 DEF IInv, KeptInv, DoomInv, Kept
  <1>6. HeapMoves
    BY <1>1 DEF HeapMoves, IInv, TypeInv
  <1>7. /\ cptr' \in [Progs -> Cells \cup {Nil}] /\ cptr'[p] = Nil
        /\ \A x \in Progs \ {p} : cptr'[x] = cptr[x]
    BY <1>1 DEF IInv, TypeInv
  <1>8. ptrtab' = {cptr'[x] : x \in Progs} \ {Nil}
    <2>1. ptrtab = {cptr[x] : x \in Progs} \ {Nil}
      BY DEF IInv, ProgInv
    <2>2. \A x \in Progs \ {p} : cptr'[x] # Nil => cptr[x] # cptr[p]
      BY <1>1, <1>7 DEF IInv, ProgInv
    <2>. QED
      BY <2>1, <2>2, <1>1, <1>7
  <1>9. RefsMove(p, f, p, p)
    <2>1. ptrs' \in [Nodes -> [Fields -> Cells \cup {Nil}]]
      BY <1>1 DEF IInv, TypeInv
    <2>2. ptrs' = ptrs /\ alive' = alive
      BY <1>1
    <2>. QED
      BY ONLY <2>1, <2>2, <1>3, <1>7, <1>8 DEF RefsMove
  <1>10. PICK pushed \in BOOLEAN : Dropped(p, v, ref, <<>>, stack, pushed)
    <2>1. ref \in [Cells -> Int] /\ Drop(p, v, ref, <<>>)
      BY <1>1, <1>4 DEF IInv, TypeInv
    <2>2. Drops(p, v, ref, <<>>, stack)
      BY <2>1, <1>3, <1>5, DropNow
    <2>. QED
      BY <2>2 DEF Drops
  <1>11. /\ \A o \in Cells : ref'[o] = ref[o] - (IF o = v THEN 1 ELSE 0)
         /\ pushed => v \in Kept /\ v \notin doomed /\ cptr'[p] = Nil
    BY <1>5, <1>7, <1>10 DEF Dropped
  <1>12. CountsMove(p, f, p, p)
    <2>1. \A o \in Cells : ref[o] \in Int /\ ref[o] >= 0
      BY DEF IInv, TypeInv, RefInv
    <2>2. \A o \in Cells : o \notin Kept' => o # v
      BY <1>3, <1>5, <1>6, HeapMovesFacts
    <2>. QED
      BY <2>1, <2>2, <1>1, <1>3, <1>4, <1>7, <1>11, Constants DEF CountsMove
  <1>. QED
    BY <1>3, <1>6, <1>9, <1>10, <1>11, <1>12, MutatorStep

-----------------------------------------------------------------------------
(* The invariant holds                                                     *)

\* At the beginning: the module data is one block, and the rest is free.
LEMMA InitInv ==
  ASSUME Init
  PROVE  IInv
  <1>. USE DEF Init
  <1>1. Len(marking) = 0 /\ \A p \in Progs : Len(stack[p]) = 0
    OBVIOUS
  <1>2. (\A n : ~On(stack, n)) /\ (\A n, f : ~Did(stack, n, f))
    BY <1>1 DEF On, Did
  <1>3. Depths(stack) = {}
    BY <1>1 DEF Depths
  <1>4. /\ magic \in [Cells -> {"A", "F", "0"}] /\ magic[MP] = "A"
        /\ \A o \in Cells : magic[o] = "A" => o = MP
    <2>1. MP + 1 # MP
      BY Constants
    <2>2. \A c \in Cells : magic[c] = CASE c = MP -> "A" [] c = MP + 1 -> "F" [] OTHER -> "0"
      OBVIOUS
    <2>3. \A c \in Cells : /\ c = MP => magic[c] = "A"
                           /\ c # MP /\ c = MP + 1 => magic[c] = "F"
                           /\ c # MP /\ c # MP + 1 => magic[c] = "0"
      BY <2>1, <2>2
    <2>4. magic = [c \in Cells |-> magic[c]]
      OBVIOUS
    <2>. QED
      BY <2>3, <2>4, Constants
  <1>5. sweeper = 1 /\ White = 2 /\ propagator = 3
    BY DEF sweeper, White, propagator
  <1>6. /\ Kept = {MP} /\ Linked(stack, alive) = {First} /\ First \in Progs
        /\ \A n \in Nodes, f \in Fields : ptrs[n][f] = Nil
    <2>1. Kept = {MP}
      BY <1>4, Constants DEF Kept, Condemned
    <2>2. First \in Progs
      BY GCAssumption
    <2>3. Linked(stack, alive) = {First}
      BY <1>2 DEF Linked
    <2>4. \A n \in Nodes, f \in Fields : ptrs[n][f] = Nil
      OBVIOUS
    <2>. QED
      BY <2>1, <2>2, <2>3, <2>4
  <1>7. TypeInv
    <2>1. /\ kind \in [Cells -> {"rec", "fd"}] /\ ref \in [Cells -> Int] /\ color \in [Cells -> 0..3]
          /\ ptrs \in [Nodes -> [Fields -> Cells \cup {Nil}]] /\ cptr \in [Progs -> Cells \cup {Nil}]
      OBVIOUS
    <2>2. stack \in [Progs -> Seq(Call)] /\ marking \in Seq(Mark)
      OBVIOUS
    <2>3. alive \subseteq Progs /\ ptrtab \subseteq Cells /\ vm \in Progs \cup {Collector, Nobody}
      BY <1>6
    <2>4. /\ gchalt \in Int /\ mutator \in 0..2 /\ visit \in Int /\ left \in Int
          /\ dying \in Cells \cup {Nil} /\ rooting \subseteq Progs /\ doomed \subseteq Cells
          /\ gcpc \in {"out", "loop", "scan", "close", "roots"}
      OBVIOUS
    <2>5. nprop \in BOOLEAN /\ base \in BOOLEAN /\ idle \in BOOLEAN
      OBVIOUS
    <2>. QED
      BY ONLY <2>1, <2>2, <2>3, <2>4, <2>5, <1>4 DEF TypeInv
  <1>8. HeaderInv
    BY <1>4, Constants DEF HeaderInv
  <1>9. ControlInv
    BY Constants DEF ControlInv, Nobody
  <1>10. MarkInv
    BY <1>1 DEF MarkInv
  <1>11. HaltInv
    <2>1. IsFiniteSet({}) /\ Cardinality({}) = 0
      BY FS_EmptySet
    <2>2. gchalt = 0 /\ gcpc # "close"
      OBVIOUS
    <2>. QED
      BY ONLY <2>1, <2>2, <1>3 DEF HaltInv
  <1>12. StackOK(stack)
    BY <1>1 DEF StackOK
  <1>13. ProgInv
    BY <1>6, Constants DEF ProgInv
  <1>14. BlankInv
    BY <1>6, Constants DEF BlankInv
  <1>15. KeptInv
    <2>1. kind[MP] = "rec" /\ \A p \in Progs : cptr[p] = Nil
      BY Constants
    <2>2. \A n \in Holders : n \in Nodes
      BY <1>6, Constants DEF Holders
    <2>. QED
      BY ONLY <2>1, <2>2, <1>2, <1>6 DEF KeptInv
  <1>16. RefInv
    <2>1. SlotRefs(MP) = {} /\ HostRefs(MP) = {} /\ LinkRefs(MP) = {First}
      BY <1>6, Constants DEF SlotRefs, HostRefs, LinkRefs
    <2>2. IsFiniteSet({}) /\ Cardinality({}) = 0 /\ IsFiniteSet({First}) /\ Cardinality({First}) = 1
      BY FS_EmptySet, FS_Singleton
    <2>3. ref[MP] = 1 /\ \A o \in Cells : ref[o] >= 0
      BY Constants
    <2>. QED
      BY ONLY <2>1, <2>2, <2>3, <1>6 DEF RefInv
  <1>17. EdgeInv
    BY <1>6, Constants DEF EdgeInv, Unswept, Reached
  <1>18. RootInv
    <2>1. color[MP] = 0 /\ mutator = 0
      BY Constants
    <2>. QED
      BY <2>1, <1>5, Constants DEF RootInv, Unswept, Reached
  <1>19. PassInv
    BY DEF PassInv, Passed1
  <1>20. DoomInv
    BY <1>6, Constants DEF DoomInv
  <1>. QED
    BY <1>7, <1>8, <1>9, <1>10, <1>11, <1>12, <1>13, <1>14, <1>15, <1>16, <1>17, <1>18, <1>19, <1>20 DEF IInv

\* An instruction.
LEMMA InstructionStep ==
  ASSUME IInv, Instruction
  PROVE  IInv'
  <1>1. PICK p \in Progs :
          \/ \E n \in Places(p), f \in Fields, v \in Values(p) : Movp(p, n, f, v)
          \/ \E b \in Cells, n \in Places(p), f \in Fields : New(p, b, n, f)
          \/ \E b \in Cells, f \in Fields : Open(p, b, f)
          \/ \E q \in Progs, f \in Fields, v \in Values(p) : Spawn(p, q, f, v)
          \/ Progexit(p)
          \/ \E b \in Cells : HostCall(p, b)
          \/ \E q \in Progs, f \in Fields, v \in Values(p) : Deliver(p, q, f, v)
          \/ HostReturn(p)
    BY DEF Instruction
  <1>2. ASSUME NEW n \in Places(p), NEW f \in Fields, NEW v \in Values(p), Movp(p, n, f, v) PROVE IInv'
    BY <1>2, MovpStep
  <1>3. ASSUME NEW b \in Cells, NEW n \in Places(p), NEW f \in Fields, New(p, b, n, f) PROVE IInv'
    BY <1>3, NewStep
  <1>4. ASSUME NEW b \in Cells, NEW f \in Fields, Open(p, b, f) PROVE IInv'
    BY <1>4, OpenStep
  <1>5. ASSUME NEW q \in Progs, NEW f \in Fields, NEW v \in Values(p), Spawn(p, q, f, v) PROVE IInv'
    BY <1>5, SpawnStep
  <1>6. CASE Progexit(p)
    BY <1>6, ProgexitStep
  <1>7. ASSUME NEW b \in Cells, HostCall(p, b) PROVE IInv'
    BY <1>7, HostCallStep
  <1>8. ASSUME NEW q \in Progs, NEW f \in Fields, NEW v \in Values(p), Deliver(p, q, f, v) PROVE IInv'
    BY <1>8, DeliverStep
  <1>9. CASE HostReturn(p)
    BY <1>9, HostReturnStep
  <1>. QED
    BY <1>1, <1>2, <1>3, <1>4, <1>5, <1>6, <1>7, <1>8, <1>9

\* A step of the collector.
LEMMA CollectingStep ==
  ASSUME IInv, Collecting
  PROVE  IInv'
  <1>1. ASSUME NEW q \in Quanta, IdleRungc(q) PROVE IInv'
    BY <1>1, IdleRungcStep
  <1>2. CASE IdleEnd
    BY <1>2, IdleEndStep
  <1>3. CASE Propagate
    BY <1>3, PropagateStep
  <1>4. CASE Sweep
    BY <1>4, SweepStep
  <1>5. CASE SweepFD
    BY <1>5, SweepFDStep
  <1>6. CASE PassOver
    BY <1>6, PassOverStep
  <1>7. CASE Markptr
    BY <1>7, MarkptrStep
  <1>8. CASE EndPass
    BY <1>8, EndPassStep
  <1>9. CASE EndEpoch
    BY <1>9, EndEpochStep
  <1>10. ASSUME NEW p \in Progs, Rootset(p) PROVE IInv'
    BY <1>10, RootsetStep
  <1>11. CASE Ptrmark
    BY <1>11, PtrmarkStep
  <1>. QED
    BY <1>1, <1>2, <1>3, <1>4, <1>5, <1>6, <1>7, <1>8, <1>9, <1>10, <1>11 DEF Collecting

\* What leaves everything alone preserves it.
LEMMA Stutter ==
  ASSUME IInv, UNCHANGED vars
  PROVE  IInv'
  <1>. USE DEF vars, heapvars, progvars, passvars, gcvars
  <1>1. /\ TypeInv' /\ HeaderInv' /\ ControlInv' /\ MarkInv' /\ HaltInv' /\ PassInv' /\ DoomInv'
    BY DEF IInv, TypeInv, HeaderInv, ControlInv, MarkInv, HaltInv, PassInv, Passed1, DoomInv, sweeper, White,
           propagator
  <1>2. Kept' = Kept
    BY DEF Kept, Condemned, sweeper
  <1>3. StackOK(stack)' /\ ProgInv' /\ BlankInv' /\ KeptInv' /\ RefInv'
    BY <1>2, KeptFrame
  <1>4. EdgeInv' /\ RootInv'
    BY EdgeFrame
  <1>. QED
    BY <1>1, <1>3, <1>4 DEF IInv

\* The invariant is inductive: the counts, the colours and the position of the
\* pass agree after every step of progs, destructors and collector.
THEOREM Inductive == Spec => []IInv
  <1>1. Init => IInv
    BY InitInv
  <1>2. IInv /\ [Next]_vars => IInv'
    <2>. SUFFICES ASSUME IInv, [Next]_vars
                  PROVE  IInv'
      OBVIOUS
    <2>1. CASE Instruction
      BY <2>1, InstructionStep
    <2>2. ASSUME NEW p \in Progs, Destroying(p) PROVE IInv'
      BY <2>2, FreeptrStep, FreeModuleStep, FreeFDStep, DestroyedStep DEF Destroying
    <2>3. ASSUME NEW p \in Progs, FDClosed(p) PROVE IInv'
      BY <2>3, FDClosedStep
    <2>4. ASSUME NEW q \in Quanta, Busy(q) PROVE IInv'
      BY <2>4, BusyStep
    <2>5. CASE Execatidle
      BY <2>5, ExecatidleStep
    <2>6. CASE Collecting
      BY <2>6, CollectingStep
    <2>7. CASE SweptFD
      BY <2>7, SweptFDStep
    <2>8. CASE UNCHANGED vars
      BY <2>8, Stutter
    <2>. QED
      BY <2>1, <2>2, <2>3, <2>4, <2>5, <2>6, <2>7, <2>8 DEF Next
  <1>. QED
    BY <1>1, <1>2, PTL DEF Spec

-----------------------------------------------------------------------------
(* What follows from it                                                    *)

\* poolfree and poolalloc may join and split blocks between any two calls of
\* rungc: ptr stands on a header whenever a pass is under way.
THEOREM ScanOnBlockHolds == Spec => []ScanOnBlock
  <1>1. IInv => ScanOnBlock
    BY DEF IInv, HeaderInv, ScanOnBlock
  <1>. QED
    BY <1>1, Inductive, PTL

\* Nothing that a prog or a host call can reach is freed, neither by counting nor
\* by the sweep, and no destructor of it has begun.
THEOREM ReachableKeptHolds == Spec => []ReachableKept
  <1>1. ASSUME IInv PROVE ReachableKept
    <2>. DEFINE S == {o \in Kept : ~On(stack, o)}
    <2>1. S \in SUBSET Cells
      BY DEF Kept
    <2>2. Roots \subseteq S
      <3>1. ASSUME NEW p \in Running, NEW f \in Fields, ptrs[p][f] # Nil PROVE ptrs[p][f] \in S
        <4>1. p \in alive /\ p \in Progs /\ ~On(stack, p)
          BY <1>1, FreedFacts DEF Running, IInv, TypeInv
        <4>2. ~Did(stack, p, f) /\ p \in Holders
          BY <4>1 DEF On, Did, Holders
        <4>. QED
          BY <1>1, <3>1, <4>2 DEF IInv, KeptInv
      <3>2. ASSUME NEW p \in Progs, cptr[p] # Nil PROVE cptr[p] \in S
        BY <1>1, <3>2 DEF IInv, KeptInv
      <3>3. ASSUME Running # {} PROVE MP \in S
        <4>1. PICK p \in Running : TRUE
          BY <3>3
        <4>2. p \in alive /\ p \in Progs /\ ~On(stack, p)
          BY <1>1, <4>1, FreedFacts DEF Running, IInv, TypeInv
        <4>3. p \in Linked(stack, alive)
          BY <4>2 DEF On, Did, Linked
        <4>. QED
          BY <1>1, <4>3 DEF IInv, KeptInv
      <3>. QED
        BY <3>1, <3>2, <3>3 DEF Roots
    <2>3. Closed(S)
      <3>1. ASSUME NEW o \in S, NEW f \in Fields, ptrs[o][f] # Nil PROVE ptrs[o][f] \in S
        <4>1. ~Did(stack, o, f) /\ o \in Holders
          BY DEF On, Did, Holders
        <4>. QED
          BY <1>1, <3>1, <4>1 DEF IInv, KeptInv
      <3>. QED
        BY <3>1 DEF Closed
    <2>4. Live \subseteq S
      BY <2>1, <2>2, <2>3 DEF Live
    <2>5. dying \notin S
      <3>1. dying # Nil => base /\ color[dying] = sweeper
        BY <1>1 DEF IInv, ControlInv, HeaderInv
      <3>. QED
        BY <3>1, Constants DEF Kept, Condemned
    <2>6. ASSUME NEW o \in S PROVE magic[o] = "A" /\ o \notin BeingFreed
      <3>1. o \in BeingFreed <=> On(stack, o) \/ o = dying
        BY <1>1, FreedFacts DEF IInv
      <3>. QED
        BY <3>1, <2>5 DEF Kept
    <2>. QED
      BY <2>4, <2>6 DEF ReachableKept
  <1>. QED
    BY <1>1, Inductive, PTL

\* What was garbage when execatidle began has been freed when it has gone through
\* its three epochs.
THEOREM IdleFreesAllHolds == Spec => []IdleFreesAll
  <1>1. IInv => IdleFreesAll
    BY DEF IInv, DoomInv, TypeInv, IdleFreesAll
  <1>. QED
    BY <1>1, Inductive, PTL

\* Types; no reference count and no count of destructors becomes negative.
THEOREM TypeCorrect == Spec => []TypeOK
  <1>1. ASSUME IInv PROVE TypeOK
    <2>1. ref \in [Cells -> Nat]
      BY <1>1 DEF IInv, TypeInv, RefInv
    <2>2. gchalt \in Nat
      BY <1>1, FS_CardinalityType DEF IInv, HaltInv
    <2>3. left \in 0..IdleEpochs
      BY <1>1 DEF IInv, TypeInv, ControlInv, IdleEpochs
    <2>4. ptr \in 1..Limit
      BY <1>1 DEF IInv, HeaderInv
    <2>. QED
      BY <1>1, <2>1, <2>2, <2>3, <2>4 DEF IInv, TypeInv, TypeOK
  <1>. QED
    BY <1>1, Inductive, PTL
=============================================================================
