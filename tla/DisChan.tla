------------------------------ MODULE DisChan ------------------------------
(***************************************************************************)
(* Channels of the Dis virtual machine: send, recv and alt                 *)
(* (libinterp/xec.c, libinterp/alt.c), with progs that are killed or get   *)
(* an exception while they wait (emu/port/dis.c).                          *)
(*                                                                         *)
(* Progs run one instruction at a time, under the VM that Sched hands      *)
(* around, so an instruction is one step; any ready prog may be the next.  *)
(* An array of channels in an alt stands for its elements.                 *)
(*                                                                         *)
(* Channels are not nil here: a send or receive on nil raises exNilref     *)
(* before it does anything, and an alt takes the prog off its queues again *)
(* (alt.c:127), as for exAlt.  Nor does cqadd run out of memory            *)
(* (xec.c:901).                                                            *)
(***************************************************************************)
EXTENDS Queues, FiniteSets, SequencesExt

CONSTANTS Progs, Chans,
          Msgs,      \* what is sent: each message once, to tell them apart
          Cap,       \* the length of each channel's buffer, 0 if it has none
          Alts,      \* the alts that progs execute: channels to send on, channels
                     \* to receive from, and whether it blocks
          NoMsg, NoChan

ASSUME ChanAssumption ==
  /\ Cap \in [Chans -> Nat]
  /\ Alts \subseteq [send : Seq(Chans), recv : Seq(Chans), block : BOOLEAN]
  /\ NoMsg \notin Msgs /\ NoChan \notin Chans

VARIABLES
  sendq, recvq,        \* Channel.send and .recv: the progs in the Progq lists
  ring, front, size,   \* Channel.buf, .front, .size
  pstate,    \* Prog.state
  chan,      \* Prog.chan: the channel of a blocked send or recv
  alt,       \* the alt of a prog in Palt
  msg,       \* what a blocked prog's ptr points to, if it sends
  on,        \* the channel on which the last instruction communicated, or NoChan
  got,       \* history: how often each message has been received
  fault      \* what broke the VM: nothing is left to model after it

vars == <<sendq, recvq, ring, front, size, pstate, chan, alt, msg, on, got, fault>>
bvars == <<ring, front, size>>

Waiting == {"send", "recv", "alt"}
NoAlt == [send |-> <<>>, recv |-> <<>>, block |-> FALSE]

Init ==
  /\ sendq = [c \in Chans |-> <<>>] /\ recvq = [c \in Chans |-> <<>>]
  /\ ring = [c \in Chans |-> [i \in 0..(Cap[c] - 1) |-> NoMsg]]
  /\ front = [c \in Chans |-> 0] /\ size = [c \in Chans |-> 0]
  /\ pstate = [p \in Progs |-> "ready"]
  /\ chan = [p \in Progs |-> NoChan] /\ alt = [p \in Progs |-> NoAlt]
  /\ msg = [p \in Progs |-> NoMsg]
  /\ on = NoChan
  /\ got = [m \in Msgs |-> 0]
  /\ fault = "none"

CANGET(c) == size[c] > 0
CANPUT(c) == size[c] < Cap[c]

InBuf(c) == {ring[c][i] : i \in 0..(Cap[c] - 1)} \ {NoMsg}
Fresh == {m \in Msgs : got[m] = 0 /\ (\A p \in Progs : msg[p] # m) /\ \A c \in Chans : m \notin InBuf(c)}

-----------------------------------------------------------------------------
(* The queues of progs, as values: cqadd is Append and cqdel is Tail.      *)

cqdelp(s, p) == Without(s, {p})

\* All the elements of a list of two or more are p: cqdelp frees them all, and the
\* channel is left without the empty element that its users expect.
Loses(s, p) == Len(s) > 1 /\ ToSet(s) = {p}

\* altdone takes p off the queues of its alt, the sends' or the receives'.
altdone(qs, cs, p) == [c \in Chans |-> IF c \in ToSet(cs) THEN cqdelp(qs[c], p) ELSE qs[c]]
AltLoses(qs, cs, p) == \E c \in ToSet(cs) : Loses(qs[c], p)

\* altrdy and altmark put p on them.
altadd(qs, cs, p) ==
  [c \in Chans |-> qs[c] \o [i \in 1..Cardinality({j \in DOMAIN cs : cs[j] = c}) |-> p]]

\* The queues after p, waiting, has been taken off them.
SendWithout(qs, p) ==
  IF pstate[p] = "alt" THEN altdone(qs, alt[p].send, p)
  ELSE [c \in Chans |-> IF pstate[p] = "send" /\ chan[p] = c THEN cqdelp(qs[c], p) ELSE qs[c]]
RecvWithout(qs, p) ==
  IF pstate[p] = "alt" THEN altdone(qs, alt[p].recv, p)
  ELSE [c \in Chans |-> IF pstate[p] = "recv" /\ chan[p] = c THEN cqdelp(qs[c], p) ELSE qs[c]]
Breaks(ss, rs, p) ==
  pstate[p] = "alt" /\ (AltLoses(ss, alt[p].send, p) \/ AltLoses(rs, alt[p].recv, p))

-----------------------------------------------------------------------------
(* The ring buffer.                                                        *)

\* Mutated form: the newest message is taken.
cgetbLast(c) == ring[c][(front[c] + size[c] - 1) % Cap[c]]
cgetb(c) == ring[c][front[c]]
Advance(c) == IF front[c] + 1 = Cap[c] THEN 0 ELSE front[c] + 1
Slot(c, f, n) == IF f + n >= Cap[c] THEN f + n - Cap[c] ELSE f + n

Get(c) ==
  /\ ring' = [ring EXCEPT ![c][front[c]] = NoMsg]
  /\ front' = [front EXCEPT ![c] = Advance(c)]
  /\ size' = [size EXCEPT ![c] = @ - 1]

Put(c, m) ==
  /\ ring' = [ring EXCEPT ![c][Slot(c, front[c], size[c])] = m]
  /\ size' = [size EXCEPT ![c] = @ + 1]
  /\ UNCHANGED front

\* Mutated form: the sender's message is put in, and lost, before there is room.
GetPutFull(c, m) == Get(c)

\* A receiver takes the oldest message and a waiting sender's goes in behind.
GetPut(c, m) ==
  /\ front' = [front EXCEPT ![c] = Advance(c)]
  /\ ring' = [ring EXCEPT ![c] = [[@ EXCEPT ![front[c]] = NoMsg]
                                    EXCEPT ![Slot(c, Advance(c), size[c] - 1)] = m]]
  /\ UNCHANGED size

-----------------------------------------------------------------------------
(* isend and irecv when they do not block, by prog p with the queues ss    *)
(* and rs, as an instruction (a is NoAlt) or as the choice of the alt a.   *)

\* The other prog r has communicated on c and runs on.
Completes(r, c) ==
  /\ pstate' = [pstate EXCEPT ![r] = "ready"]
  /\ chan' = [chan EXCEPT ![r] = NoChan]
  /\ alt' = [alt EXCEPT ![r] = NoAlt]
  /\ msg' = [msg EXCEPT ![r] = NoMsg]
  /\ on' = c

\* The buffer of c was enough.
Alone(c) == on' = c /\ UNCHANGED <<pstate, chan, alt, msg>>

Received(m) == got' = [got EXCEPT ![m] = @ + 1]

\* The queues after r, whose turn on c it is, has left it and its alt; then p,
\* which executes the alt a, leaves what a put it on.
\* Mutated form: r does not leave its alt.
SendLeftKeep(ss, r, p, a) == altdone(ss, a.send, p)
SendLeft(ss, r, p, a) == altdone(SendWithout(ss, r), a.send, p)
RecvLeft(rs, r, p, a) == altdone(RecvWithout(rs, r), a.recv, p)

isend(p, c, m, a, ss, rs) ==
  \/ /\ rs[c] # <<>>
     /\ LET r == Head(rs[c])
            rs1 == [rs EXCEPT ![c] = Tail(@)]
        IN  /\ sendq' = SendLeft(ss, r, p, a)
            /\ recvq' = RecvLeft(rs1, r, p, a)
            /\ fault' = IF Breaks(ss, rs1, r) \/ AltLoses(SendWithout(ss, r), a.send, p)
                           \/ AltLoses(RecvWithout(rs1, r), a.recv, p)
                        THEN "lost" ELSE "none"
            /\ Completes(r, c)
            /\ Received(m)
     /\ UNCHANGED bvars
  \/ /\ rs[c] = <<>> /\ CANPUT(c)
     /\ Put(c, m)
     /\ Alone(c)
     /\ sendq' = altdone(ss, a.send, p) /\ recvq' = altdone(rs, a.recv, p)
     /\ fault' = IF AltLoses(ss, a.send, p) \/ AltLoses(rs, a.recv, p) THEN "lost" ELSE "none"
     /\ UNCHANGED got

irecv(p, c, a, ss, rs) ==
  \/ /\ ss[c] # <<>>
     /\ LET s == Head(ss[c])
            ss1 == [ss EXCEPT ![c] = Tail(@)]
        IN  /\ sendq' = SendLeft(ss1, s, p, a)
            /\ recvq' = RecvLeft(rs, s, p, a)
            /\ fault' = IF Breaks(ss1, rs, s) \/ AltLoses(SendWithout(ss1, s), a.send, p)
                           \/ AltLoses(RecvWithout(rs, s), a.recv, p)
                        THEN "lost" ELSE "none"
            /\ Completes(s, c)
            /\ IF Cap[c] > 0
               THEN Received(cgetb(c)) /\ GetPut(c, msg[s])
               ELSE Received(msg[s]) /\ UNCHANGED bvars
  \/ /\ ss[c] = <<>> /\ CANGET(c)
     /\ Received(cgetb(c))
     /\ Get(c)
     /\ Alone(c)
     /\ sendq' = altdone(ss, a.send, p) /\ recvq' = altdone(rs, a.recv, p)
     /\ fault' = IF AltLoses(ss, a.send, p) \/ AltLoses(rs, a.recv, p) THEN "lost" ELSE "none"

-----------------------------------------------------------------------------
(* The instructions.                                                       *)

Send(p, c, m) == isend(p, c, m, NoAlt, sendq, recvq)

SendBlock(p, c, m) ==
  /\ recvq[c] = <<>> /\ ~CANPUT(c)
  /\ sendq' = [sendq EXCEPT ![c] = Append(@, p)]
  /\ pstate' = [pstate EXCEPT ![p] = "send"]
  /\ chan' = [chan EXCEPT ![p] = c]
  /\ msg' = [msg EXCEPT ![p] = m]
  /\ on' = NoChan
  /\ UNCHANGED <<recvq, bvars, alt, got, fault>>

Recv(p, c) == irecv(p, c, NoAlt, sendq, recvq)

RecvBlock(p, c) ==
  /\ sendq[c] = <<>> /\ ~CANGET(c)
  /\ recvq' = [recvq EXCEPT ![c] = Append(@, p)]
  /\ pstate' = [pstate EXCEPT ![p] = "recv"]
  /\ chan' = [chan EXCEPT ![p] = c]
  /\ on' = NoChan
  /\ UNCHANGED <<sendq, bvars, alt, msg, got, fault>>

(* xecalt.  Entries are numbered as in the instruction: sends, then        *)
(* receives.                                                               *)

Entries(a) == a.send \o a.recv
IsSend(a, n) == n <= Len(a.send)

\* altrdy counts the receives before p is on any send queue; the sends come after
\* p has been added to the receive queues.
RecvReady(a, ss) == {n \in DOMAIN Entries(a) : ~IsSend(a, n) /\ (ss[Entries(a)[n]] # <<>> \/ CANGET(Entries(a)[n]))}
\* Mutated form: room in the buffer does not count.
SendReadyMet(a, rs) == {n \in DOMAIN Entries(a) : IsSend(a, n) /\ rs[Entries(a)[n]] # <<>>}
SendReady(a, rs) == {n \in DOMAIN Entries(a) : IsSend(a, n) /\ (rs[Entries(a)[n]] # <<>> \/ CANPUT(Entries(a)[n]))}

\* A send meets the alt's own receive at the head of the queue: exAlt.
SameChan(a, rs, p) ==
  \E n \in SendReady(a, rs) : rs[Entries(a)[n]] # <<>> /\ Head(rs[Entries(a)[n]]) = p

\* Mutated form: the receives are counted with p on its send queues.
CountedLate(p, a) == RecvReady(a, altadd(sendq, a.send, p)) \cup SendReady(a, altadd(recvq, a.recv, p))
Counted(p, a) == RecvReady(a, sendq) \cup SendReady(a, altadd(recvq, a.recv, p))

\* altcomm walks the entries again, with p on all the queues, to the chosen one of
\* those that now look ready.
Walked(p, a) ==
  RecvReady(a, altadd(sendq, a.send, p)) \cup SendReady(a, altadd(recvq, a.recv, p))
Chosen(p, a, which) ==
  CHOOSE n \in Walked(p, a) : Cardinality({k \in Walked(p, a) : k < n}) = which

AltComm(p, a, m) ==
  \E which \in 0..(Cardinality(Counted(p, a)) - 1) :
    LET n == Chosen(p, a, which)
        c == Entries(a)[n]
        ss == altadd(sendq, a.send, p)
        rs == altadd(recvq, a.recv, p)
    IN  IF n \notin Counted(p, a) \/ (~IsSend(a, n) /\ ss[c] # <<>> /\ Head(ss[c]) = p)
        THEN fault' = "unready" /\ UNCHANGED <<sendq, recvq, bvars, pstate, chan, alt, msg, on, got>>
        ELSE IF IsSend(a, n) THEN isend(p, c, m, a, ss, rs) ELSE irecv(p, c, a, ss, rs)

\* The alt is on all its queues and its prog off the run queue.
AltBlock(p, a, m) ==
  /\ a.block /\ Counted(p, a) = {}
  /\ sendq' = altadd(sendq, a.send, p) /\ recvq' = altadd(recvq, a.recv, p)
  /\ pstate' = [pstate EXCEPT ![p] = "alt"]
  /\ alt' = [alt EXCEPT ![p] = a]
  /\ msg' = [msg EXCEPT ![p] = m]
  /\ on' = NoChan
  /\ UNCHANGED <<bvars, chan, got, fault>>

\* Nothing is ready and the alt has a default, or it is in error: p is taken off
\* the queues again.
AltNone(p, a) ==
  LET ss == altadd(sendq, a.send, p)
      rs == altadd(recvq, a.recv, p)
  IN  /\ (~a.block /\ Counted(p, a) = {}) \/ SameChan(a, rs, p)
      /\ sendq' = altdone(ss, a.send, p) /\ recvq' = altdone(rs, a.recv, p)
      /\ fault' = IF AltLoses(ss, a.send, p) \/ AltLoses(rs, a.recv, p) THEN "lost" ELSE "none"
      /\ on' = NoChan
      /\ UNCHANGED <<bvars, pstate, chan, alt, msg, got>>

Alt(p, a, m) ==
  \/ ~SameChan(a, altadd(recvq, a.recv, p), p) /\ (AltComm(p, a, m) \/ AltBlock(p, a, m))
  \/ AltNone(p, a)

(* Another prog kills p, or sends it an exception (killprog, exprog).      *)

Interrupt(p, s) ==
  /\ pstate[p] \in Waiting /\ \E k \in Progs : pstate[k] = "ready"
  /\ sendq' = SendWithout(sendq, p) /\ recvq' = RecvWithout(recvq, p)
  /\ fault' = IF Breaks(sendq, recvq, p) THEN "lost" ELSE "none"
  /\ pstate' = [pstate EXCEPT ![p] = s]
  /\ chan' = [chan EXCEPT ![p] = NoChan]
  /\ alt' = [alt EXCEPT ![p] = NoAlt]
  /\ msg' = [msg EXCEPT ![p] = NoMsg]
  /\ on' = NoChan
  /\ UNCHANGED <<bvars, got>>

killprog(p) == Interrupt(p, "exited")
exprog(p) == Interrupt(p, "ready")

-----------------------------------------------------------------------------
Instruction(p) ==
  /\ pstate[p] = "ready"
  /\ \/ \E c \in Chans : Recv(p, c) \/ RecvBlock(p, c)
     \/ \E c \in Chans, m \in Fresh : Send(p, c, m) \/ SendBlock(p, c, m)
     \/ \E a \in Alts :
          \E m \in IF a.send = <<>> THEN {NoMsg} ELSE Fresh : Alt(p, a, m)

Next ==
  /\ fault = "none"
  /\ \E p \in Progs : Instruction(p) \/ killprog(p) \/ exprog(p)

Spec == Init /\ [][Next]_vars

-----------------------------------------------------------------------------
WaitsToSend(p, c) == (pstate[p] = "send" /\ chan[p] = c) \/ (pstate[p] = "alt" /\ c \in ToSet(alt[p].send))
WaitsToRecv(p, c) == (pstate[p] = "recv" /\ chan[p] = c) \/ (pstate[p] = "alt" /\ c \in ToSet(alt[p].recv))

\* A prog is on the queues of the channels it waits for, once on each, and on no
\* other: an alt that has communicated, or was cut short, leaves nothing behind.
QueuesExact ==
  \A c \in Chans :
    /\ Distinct(sendq[c]) /\ Distinct(recvq[c])
    /\ \A p \in Progs : (p \in ToSet(sendq[c]) <=> WaitsToSend(p, c)) /\ (p \in ToSet(recvq[c]) <=> WaitsToRecv(p, c))

\* No communication is missed: nobody waits to receive what is there, or to send
\* where there is room (the messages "non-empty buffer in isend" and "non-full
\* buffer in irecv" are never printed), or to do what another prog waits to meet.
NoneMissed ==
  \A c \in Chans :
    /\ recvq[c] # <<>> => size[c] = 0 /\ sendq[c] = <<>>
    /\ sendq[c] # <<>> => size[c] = Cap[c]

\* How often m is with a prog that waits to send it, in a buffer or received.
Places(m) ==
  Cardinality({p \in Progs : msg[p] = m})
    + Cardinality(UNION {{c} \X {i \in DOMAIN ring[c] : ring[c][i] = m} : c \in Chans})
    + got[m]

\* A message is in one place at a time, is received once, and is not lost: no alt,
\* buffer or interrupted prog makes a second copy of it, and it goes from its sender
\* to a buffer or a receiver, unless its sender is killed or gets an exception while
\* it waits, or its sender's alt receives another message instead (isend, irecv,
\* cgetb, cputb, altdone).
Withdrawn(m) ==
  \E p \in Progs :
    /\ msg[p] = m /\ msg'[p] = NoMsg
    /\ \/ on' = NoChan
       \/ WaitsToRecv(p, on') /\ \E k \in Msgs \ {m} : got'[k] > got[k]
Conserved ==
  [][\A m \in Msgs : Places(m)' <= 1 /\ (Places(m) > 0 => Places(m)' > 0 \/ Withdrawn(m))]_vars

\* What is in the buffer of c, oldest first, and then what progs wait to send.
Line(c) ==
  [i \in 1..size[c] |-> ring[c][Slot(c, front[c], i - 1)]]
    \o [i \in 1..Len(sendq[c]) |-> msg[sendq[c][i]]]

\* Messages leave a channel in the order in which they came: what is received is the
\* head of the channel's line, or passes from a sender straight to one who waited,
\* and then there is no line.
InOrder ==
  [][\A c \in Chans, m \in Msgs :
       on' = c /\ got'[m] > got[m] =>
         IF Line(c) # <<>> THEN m = Head(Line(c)) ELSE recvq[c] # <<>>]_vars

\* An alt communicates on a channel that was ready when it looked: "a channel is
\* picked at random from the ready set" (doc/dis.ms).
PicksReady == fault # "unready"

\* The receive from an array of channels "waits until at least one of the members
\* is ready, selects one of them" (doc/limbo/limbo.ms); no queue is lost by it.
QueuesIntact == fault # "lost"

\* Both, for alts that have each channel once, or one channel both ways: altrdy,
\* altcomm and altdone agree on what is ready and what is queued.
AltSound == PicksReady /\ QueuesIntact
=============================================================================
