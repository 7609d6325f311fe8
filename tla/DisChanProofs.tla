--------------------------- MODULE DisChanProofs ---------------------------
(***************************************************************************)
(* Proofs about the channels, for any number of progs, channels, messages  *)
(* and any buffer lengths, when every alt is one that altrdy can handle.   *)
(*                                                                         *)
(* Each instruction, kill and exception does one of a few things to who    *)
(* waits for what (Effect).  Once the queues hold exactly the progs that   *)
(* wait, that every step has an effect and that every effect keeps the     *)
(* invariant are two separate matters.                                     *)
(***************************************************************************)
EXTENDS DisChan, QueueFacts, FiniteSetTheorems

\* What altrdy can handle: each channel once, or one channel both ways.
Plain(a) ==
  \/ Distinct(a.send \o a.recv)
  \/ \E c \in Chans : a.send = <<c>> /\ a.recv = <<c>>

\* Every alt of the program is of that kind.
PlainAlts == \A a \in Alts : Plain(a)

-----------------------------------------------------------------------------
(* Queues that hold each prog of a set once.                               *)

\* s holds the progs of S, each once.
Holds(s, S) == s \in Seq(Progs) /\ Distinct(s) /\ \A x : In(x, s) <=> x \in S

\* The queue is empty when the set is.
LEMMA HoldsEmpty ==
  ASSUME NEW s, NEW S, Holds(s, S)
  PROVE  s = <<>> <=> S = {}
  <1>1. ASSUME s = <<>> PROVE S = {}
    BY <1>1, EmptyIn DEF Holds
  <1>2. ASSUME s # <<>> PROVE S # {}
    <2>1. In(Head(s), s)
      BY <1>2, TailIn DEF Holds
    <2>. QED
      BY <2>1 DEF Holds
  <1>. QED
    BY <1>1, <1>2

\* A prog goes on the end of the queue.
LEMMA HoldsAppend ==
  ASSUME NEW s, NEW S, NEW p \in Progs, Holds(s, S), p \notin S
  PROVE  Holds(Append(s, p), S \cup {p})
  BY AppendIn DEF Holds

\* The head leaves the queue.
LEMMA HoldsTail ==
  ASSUME NEW s, NEW S, Holds(s, S), s # <<>>
  PROVE  Head(s) \in S /\ Head(s) \in Progs /\ Holds(Tail(s), S \ {Head(s)})
  BY TailIn DEF Holds

\* cqdelp takes a prog off the queue.
LEMMA HoldsDel ==
  ASSUME NEW s, NEW S, NEW p, Holds(s, S)
  PROVE  Holds(cqdelp(s, p), S \ {p})
  <1>1. cqdelp(s, p) \in Seq(Progs) /\ Distinct(cqdelp(s, p))
    BY WithoutIn DEF Holds, cqdelp
  <1>2. \A x : In(x, cqdelp(s, p)) <=> x \notin {p} /\ In(x, s)
    BY WithoutIn DEF Holds, cqdelp
  <1>. QED
    BY <1>1, <1>2 DEF Holds

\* and never loses the queue.
LEMMA HoldsNotLost ==
  ASSUME NEW s, NEW S, NEW p, Holds(s, S)
  PROVE  ~Loses(s, p)
  <1>1. SUFFICES ASSUME Len(s) > 1, ToSet(s) = {p} PROVE FALSE
    BY DEF Loses
  <1>2. 1 \in 1..Len(s) /\ 2 \in 1..Len(s) /\ s \in Seq(Progs)
    BY <1>1 DEF Holds
  <1>3. s[1] \in ToSet(s) /\ s[2] \in ToSet(s)
    BY <1>2 DEF ToSet
  <1>4. s[1] = s[2]
    BY <1>1, <1>3
  <1>. QED
    BY <1>2, <1>4 DEF Holds, Distinct

-----------------------------------------------------------------------------
(* The queues of all channels: Q[c] are the progs that should be on qs[c]. *)

\* Every queue of qs holds the set that Q gives it.
HoldAll(qs, Q) == DOMAIN qs = Chans /\ \A c \in Chans : Holds(qs[c], Q[c])

\* p is on no queue but those of the channels cs.
Within(Q, p, cs) == \A c \in Chans : p \in Q[c] => c \in ToSet(cs)

\* altdone takes a prog off the queues of its alt.
LEMMA AltDone ==
  ASSUME NEW qs, NEW Q, NEW cs, NEW p, HoldAll(qs, Q), Within(Q, p, cs)
  PROVE  /\ HoldAll(altdone(qs, cs, p), [c \in Chans |-> Q[c] \ {p}])
         /\ cs \in Seq(Chans) => ~AltLoses(qs, cs, p)
  <1>. DEFINE R == altdone(qs, cs, p)
  <1>1. DOMAIN R = Chans
    BY DEF altdone
  <1>2. ASSUME NEW c \in Chans PROVE Holds(R[c], Q[c] \ {p})
    <2>1. Holds(qs[c], Q[c])
      BY DEF HoldAll
    <2>2. CASE c \in ToSet(cs)
      <3>1. R[c] = cqdelp(qs[c], p)
        BY <2>2 DEF altdone
      <3>. QED
        BY <2>1, <3>1, HoldsDel
    <2>3. CASE c \notin ToSet(cs)
      <3>1. R[c] = qs[c] /\ Q[c] \ {p} = Q[c]
        BY <2>3 DEF altdone, Within
      <3>. QED
        BY <2>1, <3>1
    <2>. QED
      BY <2>2, <2>3
  <1>3. ASSUME cs \in Seq(Chans) PROVE ~AltLoses(qs, cs, p)
    <2>1. \A c \in ToSet(cs) : c \in Chans
      BY <1>3 DEF ToSet
    <2>. QED
      BY <2>1, HoldsNotLost DEF AltLoses, HoldAll
  <1>. QED
    BY <1>1, <1>2, <1>3 DEF HoldAll

\* altrdy and altmark put p once on each queue of an alt that has the channel once.
LEMMA AltAdd ==
  ASSUME NEW qs, NEW cs \in Seq(Chans), NEW p, NEW c \in Chans, qs[c] \in Seq(Progs), Distinct(cs), p \in Progs
  PROVE  altadd(qs, cs, p)[c] = IF c \in ToSet(cs) THEN Append(qs[c], p) ELSE qs[c]
  <1>. DEFINE J == {j \in DOMAIN cs : cs[j] = c}
              t == [i \in 1..Cardinality(J) |-> p]
  <1>1. altadd(qs, cs, p)[c] = qs[c] \o t
    BY DEF altadd
  <1>2. CASE c \in ToSet(cs)
    <2>1. PICK j \in DOMAIN cs : cs[j] = c
      BY <1>2, Zenon DEF ToSet
    <2>2. J = {j}
      BY <2>1 DEF Distinct
    <2>3. Cardinality(J) = 1
      BY <2>2, FS_Singleton
    <2>4. t = <<p>>
      <3>. HIDE DEF J
      <3>. QED
        BY <2>3
    <2>. HIDE DEF t
    <2>5. qs[c] \o <<p>> = Append(qs[c], p)
      OBVIOUS
    <2>. QED
      BY <1>1, <1>2, <2>4, <2>5
  <1>3. CASE c \notin ToSet(cs)
    <2>1. J = {}
      BY <1>3, Zenon DEF ToSet
    <2>2. Cardinality(J) = 0
      BY <2>1, FS_EmptySet
    <2>3. t = <<>>
      <3>. HIDE DEF J
      <3>. QED
        BY <2>2
    <2>. HIDE DEF t
    <2>4. qs[c] \o <<>> = qs[c]
      OBVIOUS
    <2>. QED
      BY <1>1, <1>3, <2>3, <2>4
  <1>. QED
    BY <1>2, <1>3

\* In terms of sets.
LEMMA AltAddHolds ==
  ASSUME NEW qs, NEW Q, NEW cs \in Seq(Chans), NEW p \in Progs, HoldAll(qs, Q), Distinct(cs),
         \A c \in Chans : p \notin Q[c]
  PROVE  HoldAll(altadd(qs, cs, p), [c \in Chans |-> Q[c] \cup (IF c \in ToSet(cs) THEN {p} ELSE {})])
  <1>1. DOMAIN altadd(qs, cs, p) = Chans
    BY DEF altadd
  <1>2. ASSUME NEW c \in Chans
        PROVE  Holds(altadd(qs, cs, p)[c], Q[c] \cup (IF c \in ToSet(cs) THEN {p} ELSE {}))
    <2>1. Holds(qs[c], Q[c]) /\ qs[c] \in Seq(Progs) /\ p \notin Q[c]
      BY DEF HoldAll, Holds
    <2>2. altadd(qs, cs, p)[c] = IF c \in ToSet(cs) THEN Append(qs[c], p) ELSE qs[c]
      BY <2>1, AltAdd
    <2>3. Holds(Append(qs[c], p), Q[c] \cup {p})
      BY <2>1, HoldsAppend
    <2>4. Q[c] \cup {} = Q[c]
      OBVIOUS
    <2>. QED
      BY <2>1, <2>2, <2>3, <2>4
  <1>. QED
    BY <1>1, <1>2 DEF HoldAll
-----------------------------------------------------------------------------
(* The invariant.                                                          *)

\* The progs that should be on the queues of c.
Senders == [c \in Chans |-> {p \in Progs : WaitsToSend(p, c)}]
Receivers == [c \in Chans |-> {p \in Progs : WaitsToRecv(p, c)}]

\* What the fields of a prog hold: one that waits to send has a message, and a
\* prog with a message waits.
Fields ==
  /\ pstate \in [Progs -> {"ready", "exited"} \cup Waiting]
  /\ chan \in [Progs -> Chans \cup {NoChan}]
  /\ alt \in [Progs -> Alts \cup {NoAlt}]
  /\ msg \in [Progs -> Msgs \cup {NoMsg}]
  /\ \A p \in Progs : msg[p] # NoMsg => pstate[p] \in {"send", "alt"}
  /\ \A p \in Progs, c \in Chans : WaitsToSend(p, c) => msg[p] \in Msgs

\* The slots of the buffer of c that are in use: size[c] of them from front[c] on,
\* round the end.
InUse(c, i) ==
  IF front[c] + size[c] <= Cap[c] THEN front[c] <= i /\ i < front[c] + size[c]
  ELSE front[c] <= i \/ i < front[c] + size[c] - Cap[c]

\* The slots in use hold messages and the others nothing.
Buffer(c) ==
  /\ size[c] \in 0..Cap[c]
  /\ front[c] \in Nat /\ (Cap[c] # 0 => front[c] < Cap[c])
  /\ ring[c] \in [0..(Cap[c] - 1) -> Msgs \cup {NoMsg}]
  /\ \A i \in 0..(Cap[c] - 1) : ring[c][i] # NoMsg <=> InUse(c, i)

\* So it is with every buffer.
Buffers ==
  /\ size \in [Chans -> Nat] /\ front \in [Chans -> Nat] /\ DOMAIN ring = Chans
  /\ \A c \in Chans : Buffer(c)

\* The queues are exact: the set form of QueuesExact.
Exact == HoldAll(sendq, Senders) /\ HoldAll(recvq, Receivers)

\* Slot i of the buffer of c holds m.
InSlot(m, c, i) == c \in Chans /\ i \in 0..(Cap[c] - 1) /\ ring[c][i] = m

\* The prog p waits to send m.
With(m, p) == p \in Progs /\ msg[p] = m

\* Of these three, one at most holds of m.
Single(m) ==
  /\ got[m] \in {0, 1}
  /\ \A p, q : With(m, p) /\ With(m, q) => p = q
  /\ \A c, d, i, j : InSlot(m, c, i) /\ InSlot(m, d, j) => c = d /\ i = j
  /\ \A p : With(m, p) => got[m] = 0 /\ \A c, i : ~InSlot(m, c, i)
  /\ \A c, i : InSlot(m, c, i) => got[m] = 0

\* So it is with every message.
Singles == DOMAIN got = Msgs /\ \A m \in Msgs : Single(m)

\* The inductive invariant.
IInv == Fields /\ Buffers /\ Exact /\ NoneMissed /\ fault = "none" /\ Singles

-----------------------------------------------------------------------------
(* What a step does, in terms of who waits for what.                       *)

\* r no longer waits: it is on none of the queues.
Leave(r, s) ==
  /\ r \in Progs /\ pstate[r] \in Waiting /\ s \in {"ready", "exited"}
  /\ pstate' = [pstate EXCEPT ![r] = s]
  /\ chan' = [chan EXCEPT ![r] = NoChan]
  /\ alt' = [alt EXCEPT ![r] = NoAlt]
  /\ msg' = [msg EXCEPT ![r] = NoMsg]
  /\ HoldAll(sendq', [d \in Chans |-> Senders[d] \ {r}])
  /\ HoldAll(recvq', [d \in Chans |-> Receivers[d] \ {r}])
  /\ fault' = "none"

\* Who waits for what is as it was.
Stay ==
  /\ UNCHANGED <<pstate, chan, alt, msg>>
  /\ HoldAll(sendq', Senders) /\ HoldAll(recvq', Receivers)
  /\ fault' = "none"

\* m goes to the receiver r, or into the buffer.
SendMeets(c, m, r) ==
  /\ Leave(r, "ready") /\ r \in Receivers[c]
  /\ on' = c /\ Received(m) /\ UNCHANGED bvars
SendPuts(c, m) ==
  /\ Stay /\ Receivers[c] = {} /\ CANPUT(c)
  /\ on' = c /\ Put(c, m) /\ UNCHANGED got

\* The oldest message is received, and the first sender s lets go of its own.
RecvMeets(c, s) ==
  /\ Leave(s, "ready") /\ sendq[c] # <<>> /\ s = Head(sendq[c])
  /\ on' = c
  /\ IF Cap[c] > 0 THEN Received(cgetb(c)) /\ GetPut(c, msg[s])
     ELSE Received(msg[s]) /\ UNCHANGED bvars

\* The oldest message is received, and no sender waits.
RecvGets(c) ==
  /\ Stay /\ Senders[c] = {} /\ CANGET(c)
  /\ on' = c /\ Received(cgetb(c)) /\ Get(c)

\* r is killed or gets an exception, or nothing comes of the step.
Interrupted(r, s) == Leave(r, s) /\ on' = NoChan /\ UNCHANGED <<bvars, got>>
NothingDone == Stay /\ on' = NoChan /\ UNCHANGED <<bvars, got>>

\* p starts to wait to send on the channels S or to receive on the channels R.
Blocks(p, S, R) ==
  /\ p \in Progs /\ pstate[p] = "ready" /\ S \cap R = {}
  /\ \A d \in S : Receivers[d] = {} /\ ~CANPUT(d)
  /\ \A d \in R : Senders[d] = {} /\ ~CANGET(d)
  /\ \E s \in Waiting, x \in Chans \cup {NoChan}, a \in Alts \cup {NoAlt}, m \in Fresh \cup {NoMsg} :
       /\ pstate' = [pstate EXCEPT ![p] = s]
       /\ chan' = [chan EXCEPT ![p] = x]
       /\ alt' = [alt EXCEPT ![p] = a]
       /\ msg' = [msg EXCEPT ![p] = m]
       /\ m # NoMsg => s \in {"send", "alt"}
       /\ S # {} => m \in Msgs
       /\ \A d \in Chans :
            /\ d \in S <=> (s = "send" /\ x = d) \/ (s = "alt" /\ d \in ToSet(a.send))
            /\ d \in R <=> (s = "recv" /\ x = d) \/ (s = "alt" /\ d \in ToSet(a.recv))
  /\ HoldAll(sendq', [d \in Chans |-> IF d \in S THEN Senders[d] \cup {p} ELSE Senders[d]])
  /\ HoldAll(recvq', [d \in Chans |-> IF d \in R THEN Receivers[d] \cup {p} ELSE Receivers[d]])
  /\ fault' = "none" /\ on' = NoChan /\ UNCHANGED <<bvars, got>>

\* What a step can do.
Effect ==
  \/ \E c \in Chans, m \in Fresh : SendPuts(c, m) \/ \E r \in Progs : SendMeets(c, m, r)
  \/ \E c \in Chans : RecvGets(c) \/ \E s \in Progs : RecvMeets(c, s)
  \/ \E p \in Progs, S, R \in SUBSET Chans : Blocks(p, S, R)
  \/ \E r \in Progs, s \in {"ready", "exited"} : Interrupted(r, s)
  \/ NothingDone

-----------------------------------------------------------------------------
(* An alt while it runs: it is on the queues of its channels.              *)

\* The alts that progs wait in, or execute, are pairs of lists of channels.
LEMMA AltType ==
  ASSUME NEW a \in Alts \cup {NoAlt}
  PROVE  a.send \in Seq(Chans) /\ a.recv \in Seq(Chans)
  <1>1. CASE a \in Alts
    BY <1>1, ChanAssumption
  <1>2. CASE a = NoAlt
    BY <1>2 DEF NoAlt
  <1>. QED
    BY <1>1, <1>2

\* A prog leaves the queues it waits on.
LEMMA SendWithoutHolds ==
  ASSUME NEW qs, NEW Q, NEW r \in Progs, Fields, HoldAll(qs, Q),
         \A d \in Chans : r \in Q[d] => WaitsToSend(r, d)
  PROVE  /\ HoldAll(SendWithout(qs, r), [d \in Chans |-> Q[d] \ {r}])
         /\ pstate[r] = "alt" => ~AltLoses(qs, alt[r].send, r)
  <1>1. CASE pstate[r] = "alt"
    <2>1. alt[r].send \in Seq(Chans)
      BY AltType DEF Fields
    <2>2. Within(Q, r, alt[r].send)
      BY <1>1 DEF WaitsToSend, Within
    <2>3. SendWithout(qs, r) = altdone(qs, alt[r].send, r)
      BY <1>1 DEF SendWithout
    <2>4. /\ HoldAll(altdone(qs, alt[r].send, r), [d \in Chans |-> Q[d] \ {r}])
          /\ ~AltLoses(qs, alt[r].send, r)
      BY <2>1, <2>2, AltDone
    <2>. QED
      BY <2>3, <2>4
  <1>2. CASE pstate[r] # "alt"
    <2>. DEFINE P == SendWithout(qs, r)
    <2>1. P = [c \in Chans |-> IF pstate[r] = "send" /\ chan[r] = c THEN cqdelp(qs[c], r) ELSE qs[c]]
      BY <1>2 DEF SendWithout
    <2>2. ASSUME NEW c \in Chans PROVE Holds(P[c], Q[c] \ {r})
      <3>1. Holds(qs[c], Q[c])
        BY DEF HoldAll
      <3>2. CASE pstate[r] = "send" /\ chan[r] = c
        <4>1. P[c] = cqdelp(qs[c], r)
          BY <2>1, <3>2
        <4>. QED
          BY <3>1, <4>1, HoldsDel
      <3>3. CASE ~(pstate[r] = "send" /\ chan[r] = c)
        <4>1. P[c] = qs[c]
          BY <2>1, <3>3
        <4>2. Q[c] \ {r} = Q[c]
          BY <1>2, <3>3 DEF WaitsToSend
        <4>. QED
          BY <3>1, <4>1, <4>2
      <3>. QED
        BY <3>2, <3>3
    <2>3. DOMAIN P = Chans
      BY <2>1
    <2>. QED
      BY <1>2, <2>2, <2>3 DEF HoldAll
  <1>. QED
    BY <1>1, <1>2

\* The same of the receives.
LEMMA RecvWithoutHolds ==
  ASSUME NEW qs, NEW Q, NEW r \in Progs, Fields, HoldAll(qs, Q),
         \A d \in Chans : r \in Q[d] => WaitsToRecv(r, d)
  PROVE  /\ HoldAll(RecvWithout(qs, r), [d \in Chans |-> Q[d] \ {r}])
         /\ pstate[r] = "alt" => ~AltLoses(qs, alt[r].recv, r)
  <1>1. CASE pstate[r] = "alt"
    <2>1. alt[r].recv \in Seq(Chans)
      BY AltType DEF Fields
    <2>2. Within(Q, r, alt[r].recv)
      BY <1>1 DEF WaitsToRecv, Within
    <2>3. RecvWithout(qs, r) = altdone(qs, alt[r].recv, r)
      BY <1>1 DEF RecvWithout
    <2>4. /\ HoldAll(altdone(qs, alt[r].recv, r), [d \in Chans |-> Q[d] \ {r}])
          /\ ~AltLoses(qs, alt[r].recv, r)
      BY <2>1, <2>2, AltDone
    <2>. QED
      BY <2>3, <2>4
  <1>2. CASE pstate[r] # "alt"
    <2>. DEFINE P == RecvWithout(qs, r)
    <2>1. P = [c \in Chans |-> IF pstate[r] = "recv" /\ chan[r] = c THEN cqdelp(qs[c], r) ELSE qs[c]]
      BY <1>2 DEF RecvWithout
    <2>2. ASSUME NEW c \in Chans PROVE Holds(P[c], Q[c] \ {r})
      <3>1. Holds(qs[c], Q[c])
        BY DEF HoldAll
      <3>2. CASE pstate[r] = "recv" /\ chan[r] = c
        <4>1. P[c] = cqdelp(qs[c], r)
          BY <2>1, <3>2
        <4>. QED
          BY <3>1, <4>1, HoldsDel
      <3>3. CASE ~(pstate[r] = "recv" /\ chan[r] = c)
        <4>1. P[c] = qs[c]
          BY <2>1, <3>3
        <4>2. Q[c] \ {r} = Q[c]
          BY <1>2, <3>3 DEF WaitsToRecv
        <4>. QED
          BY <3>1, <4>1, <4>2
      <3>. QED
        BY <3>2, <3>3
    <2>3. DOMAIN P = Chans
      BY <2>1
    <2>. QED
      BY <1>2, <2>2, <2>3 DEF HoldAll
  <1>. QED
    BY <1>1, <1>2

\* r is on no queue but those on which it waits, p on none but those of a.
Apart(S, R, r, p, a) ==
  /\ \A d \in Chans : (r \in S[d] => WaitsToSend(r, d)) /\ (r \in R[d] => WaitsToRecv(r, d))
  /\ Within(S, p, a.send) /\ Within(R, p, a.recv)

\* A prog r leaves the queues it waits on, and p those of its own alt a.
LEMMA LeftHolds ==
  ASSUME NEW ss, NEW rs, NEW S, NEW R, NEW r \in Progs, NEW p, NEW a, Fields,
         HoldAll(ss, S), HoldAll(rs, R), a.send \in Seq(Chans), a.recv \in Seq(Chans),
         Apart(S, R, r, p, a)
  PROVE  /\ HoldAll(SendLeft(ss, r, p, a), [d \in Chans |-> S[d] \ {r, p}])
         /\ HoldAll(RecvLeft(rs, r, p, a), [d \in Chans |-> R[d] \ {r, p}])
         /\ ~Breaks(ss, rs, r)
         /\ ~AltLoses(SendWithout(ss, r), a.send, p) /\ ~AltLoses(RecvWithout(rs, r), a.recv, p)
  <1>. DEFINE S1 == [d \in Chans |-> S[d] \ {r}]
              R1 == [d \in Chans |-> R[d] \ {r}]
  <1>1. HoldAll(SendWithout(ss, r), S1) /\ (pstate[r] = "alt" => ~AltLoses(ss, alt[r].send, r))
    BY SendWithoutHolds DEF Apart
  <1>2. HoldAll(RecvWithout(rs, r), R1) /\ (pstate[r] = "alt" => ~AltLoses(rs, alt[r].recv, r))
    BY RecvWithoutHolds DEF Apart
  <1>3. Within(S1, p, a.send) /\ Within(R1, p, a.recv)
    BY DEF Apart, Within
  <1>4. \A d \in Chans : S1[d] \ {p} = S[d] \ {r, p} /\ R1[d] \ {p} = R[d] \ {r, p}
    OBVIOUS
  <1>. HIDE DEF S1, R1
  <1>5. /\ HoldAll(SendLeft(ss, r, p, a), [d \in Chans |-> S1[d] \ {p}])
        /\ ~AltLoses(SendWithout(ss, r), a.send, p)
    BY <1>1, <1>3, AltDone DEF SendLeft
  <1>6. /\ HoldAll(RecvLeft(rs, r, p, a), [d \in Chans |-> R1[d] \ {p}])
        /\ ~AltLoses(RecvWithout(rs, r), a.recv, p)
    BY <1>2, <1>3, AltDone DEF RecvLeft
  <1>7. [d \in Chans |-> S1[d] \ {p}] = [d \in Chans |-> S[d] \ {r, p}]
    BY <1>4
  <1>8. [d \in Chans |-> R1[d] \ {p}] = [d \in Chans |-> R[d] \ {r, p}]
    BY <1>4
  <1>9. ~Breaks(ss, rs, r)
    BY <1>1, <1>2 DEF Breaks
  <1>. QED
    BY <1>5, <1>6, <1>7, <1>8, <1>9

\* The queues on which isend and irecv run: those of all who wait, and p, which
\* executes the alt a, on those of a.
Staged(p, a, ss, rs) ==
  /\ a.send \in Seq(Chans) /\ a.recv \in Seq(Chans)
  /\ HoldAll(ss, [d \in Chans |-> Senders[d] \cup (IF d \in ToSet(a.send) THEN {p} ELSE {})])
  /\ HoldAll(rs, [d \in Chans |-> Receivers[d] \cup (IF d \in ToSet(a.recv) THEN {p} ELSE {})])

\* Those on the queues wait; one that runs does not.
LEMMA OnQueues ==
  ASSUME NEW p \in Progs
  PROVE  /\ \A d \in Chans : (p \in Senders[d] <=> WaitsToSend(p, d)) /\ (p \in Receivers[d] <=> WaitsToRecv(p, d))
         /\ \A d \in Chans : WaitsToSend(p, d) \/ WaitsToRecv(p, d) => pstate[p] \in Waiting
  BY DEF Senders, Receivers, WaitsToSend, WaitsToRecv, Waiting

\* isend and irecv by p alone: its own alt leaves the queues.
LEMMA AloneStays ==
  ASSUME NEW p \in Progs, NEW c, NEW a, NEW ss, NEW rs, pstate[p] = "ready", Staged(p, a, ss, rs),
         UNCHANGED <<pstate, chan, alt, msg>>,
         sendq' = altdone(ss, a.send, p), recvq' = altdone(rs, a.recv, p),
         fault' = IF AltLoses(ss, a.send, p) \/ AltLoses(rs, a.recv, p) THEN "lost" ELSE "none"
  PROVE  Stay
  <1>. DEFINE S == [d \in Chans |-> Senders[d] \cup (IF d \in ToSet(a.send) THEN {p} ELSE {})]
              R == [d \in Chans |-> Receivers[d] \cup (IF d \in ToSet(a.recv) THEN {p} ELSE {})]
  <1>1. \A d \in Chans : p \notin Senders[d] /\ p \notin Receivers[d]
    BY OnQueues DEF Waiting
  <1>2. HoldAll(ss, S) /\ HoldAll(rs, R) /\ a.send \in Seq(Chans) /\ a.recv \in Seq(Chans)
    BY DEF Staged
  <1>3. Within(S, p, a.send) /\ Within(R, p, a.recv)
    BY <1>1 DEF Within
  <1>4. [d \in Chans |-> S[d] \ {p}] = Senders /\ [d \in Chans |-> R[d] \ {p}] = Receivers
    <2>1. \A d \in Chans : S[d] \ {p} = Senders[d] /\ R[d] \ {p} = Receivers[d]
      BY <1>1
    <2>2. Senders = [d \in Chans |-> Senders[d]] /\ Receivers = [d \in Chans |-> Receivers[d]]
      BY DEF Senders, Receivers
    <2>. HIDE DEF S, R
    <2>3. [d \in Chans |-> S[d] \ {p}] = [d \in Chans |-> Senders[d]]
      BY <2>1
    <2>4. [d \in Chans |-> R[d] \ {p}] = [d \in Chans |-> Receivers[d]]
      BY <2>1
    <2>. QED
      BY <2>2, <2>3, <2>4
  <1>. HIDE DEF S, R
  <1>5. HoldAll(sendq', Senders) /\ ~AltLoses(ss, a.send, p)
    BY <1>2, <1>3, <1>4, AltDone
  <1>6. HoldAll(recvq', Receivers) /\ ~AltLoses(rs, a.recv, p)
    BY <1>2, <1>3, <1>4, AltDone
  <1>. QED
    BY <1>5, <1>6 DEF Stay

\* What is left of Staged queues once the two progs have gone.
LEMMA StagedLess ==
  ASSUME NEW p \in Progs, NEW r, NEW cs, NEW Q, DOMAIN Q = Chans, \A d \in Chans : p \notin Q[d]
  PROVE  LET S == [d \in Chans |-> Q[d] \cup (IF d \in ToSet(cs) THEN {p} ELSE {})]
         IN  [d \in Chans |-> S[d] \ {r, p}] = [d \in Chans |-> Q[d] \ {r}]
  OBVIOUS

\* isend has one of its two effects.
LEMMA SendEffect ==
  ASSUME NEW p \in Progs, NEW c \in Chans, NEW m, NEW a, NEW ss, NEW rs, Fields,
         pstate[p] = "ready", Staged(p, a, ss, rs), rs[c] # <<>> => Head(rs[c]) # p,
         isend(p, c, m, a, ss, rs)
  PROVE  SendPuts(c, m) \/ \E r \in Progs : SendMeets(c, m, r)
  <1>. DEFINE S == [d \in Chans |-> Senders[d] \cup (IF d \in ToSet(a.send) THEN {p} ELSE {})]
              R == [d \in Chans |-> Receivers[d] \cup (IF d \in ToSet(a.recv) THEN {p} ELSE {})]
  <1>1. \A d \in Chans : p \notin Senders[d] /\ p \notin Receivers[d]
    BY OnQueues DEF Waiting
  <1>2. HoldAll(ss, S) /\ HoldAll(rs, R) /\ a.send \in Seq(Chans) /\ a.recv \in Seq(Chans)
    BY DEF Staged
  <1>3. CASE rs[c] # <<>>
    <2>. DEFINE r == Head(rs[c])
                rs1 == [rs EXCEPT ![c] = Tail(@)]
                R1 == [R EXCEPT ![c] = @ \ {r}]
    <2>1. /\ sendq' = SendLeft(ss, r, p, a) /\ recvq' = RecvLeft(rs1, r, p, a)
          /\ fault' = IF Breaks(ss, rs1, r) \/ AltLoses(SendWithout(ss, r), a.send, p)
                         \/ AltLoses(RecvWithout(rs1, r), a.recv, p)
                      THEN "lost" ELSE "none"
          /\ Completes(r, c) /\ Received(m) /\ UNCHANGED bvars
      BY <1>3, Zenon DEF isend
    <2>2. Holds(rs[c], R[c]) /\ r # p
      BY <1>2, <1>3 DEF HoldAll
    <2>3. r \in R[c] /\ r \in Progs /\ Holds(Tail(rs[c]), R[c] \ {r})
      BY <2>2, <1>3, HoldsTail
    <2>4. r \in Receivers[c]
      BY <2>2, <2>3
    <2>5. HoldAll(rs1, R1)
      <3>1. DOMAIN rs1 = Chans /\ DOMAIN R1 = Chans
        BY <1>2 DEF HoldAll
      <3>2. ASSUME NEW d \in Chans PROVE Holds(rs1[d], R1[d])
        <4>1. CASE d = c
          <5>1. rs1[d] = Tail(rs[c]) /\ R1[d] = R[c] \ {r}
            BY <4>1, <1>2 DEF HoldAll
          <5>. QED
            BY <5>1, <2>3
        <4>2. CASE d # c
          <5>1. rs1[d] = rs[d] /\ R1[d] = R[d]
            BY <4>2, <1>2 DEF HoldAll
          <5>. QED
            BY <5>1, <1>2 DEF HoldAll
        <4>. QED
          BY <4>1, <4>2
      <3>. HIDE DEF rs1, R1
      <3>. QED
        BY <3>1, <3>2 DEF HoldAll
    <2>6. Apart(S, R1, r, p, a)
      <3>1. ASSUME NEW d \in Chans PROVE R1[d] \subseteq R[d]
        OBVIOUS
      <3>2. \A d \in Chans : (r \in S[d] => r \in Senders[d]) /\ (r \in R[d] => r \in Receivers[d])
        BY <2>2
      <3>3. \A d \in Chans : (p \in S[d] => d \in ToSet(a.send)) /\ (p \in R[d] => d \in ToSet(a.recv))
        BY <1>1
      <3>. HIDE DEF S, R, R1
      <3>. QED
        BY <3>1, <3>2, <3>3, <2>3, OnQueues DEF Apart, Within
    <2>7. [d \in Chans |-> S[d] \ {r, p}] = [d \in Chans |-> Senders[d] \ {r}]
      BY <1>1
    <2>8. [d \in Chans |-> R1[d] \ {r, p}] = [d \in Chans |-> Receivers[d] \ {r}]
      <3>1. \A d \in Chans : R[d] \ {r, p} = Receivers[d] \ {r}
        BY <1>1
      <3>2. \A d \in Chans : R1[d] \ {r, p} = R[d] \ {r, p}
        OBVIOUS
      <3>. HIDE DEF R, R1
      <3>. QED
        BY <3>1, <3>2
    <2>9. pstate[r] \in Waiting
      BY <2>3, <2>4, OnQueues
    <2>. HIDE DEF S, R, R1, rs1, r
    <2>10. /\ HoldAll(SendLeft(ss, r, p, a), [d \in Chans |-> S[d] \ {r, p}])
           /\ HoldAll(RecvLeft(rs1, r, p, a), [d \in Chans |-> R1[d] \ {r, p}])
           /\ ~Breaks(ss, rs1, r)
           /\ ~AltLoses(SendWithout(ss, r), a.send, p) /\ ~AltLoses(RecvWithout(rs1, r), a.recv, p)
      BY <1>2, <2>3, <2>5, <2>6, LeftHolds
    <2>11. SendMeets(c, m, r)
      BY <2>1, <2>3, <2>4, <2>7, <2>8, <2>9, <2>10 DEF SendMeets, Leave, Completes
    <2>. QED
      BY <2>3, <2>11
  <1>4. CASE rs[c] = <<>>
    <2>1. /\ CANPUT(c) /\ Put(c, m) /\ Alone(c)
          /\ sendq' = altdone(ss, a.send, p) /\ recvq' = altdone(rs, a.recv, p)
          /\ fault' = IF AltLoses(ss, a.send, p) \/ AltLoses(rs, a.recv, p) THEN "lost" ELSE "none"
          /\ UNCHANGED got
      BY <1>4, Zenon DEF isend
    <2>2. Stay
      BY <2>1, AloneStays DEF Alone
    <2>3. R[c] = {}
      <3>1. Holds(rs[c], R[c])
        BY <1>2 DEF HoldAll
      <3>. HIDE DEF R
      <3>. QED
        BY <3>1, <1>4, HoldsEmpty
    <2>4. Receivers[c] = {}
      BY <2>3
    <2>. QED
      BY <2>1, <2>2, <2>4 DEF SendPuts, Alone
  <1>. QED
    BY <1>3, <1>4

\* irecv has one of its two effects.
LEMMA RecvEffect ==
  ASSUME NEW p \in Progs, NEW c \in Chans, NEW a, NEW ss, NEW rs, Fields,
         pstate[p] = "ready", Staged(p, a, ss, rs), ss[c] = sendq[c], c \notin ToSet(a.send),
         irecv(p, c, a, ss, rs)
  PROVE  RecvGets(c) \/ \E s \in Progs : RecvMeets(c, s)
  <1>. DEFINE S == [d \in Chans |-> Senders[d] \cup (IF d \in ToSet(a.send) THEN {p} ELSE {})]
              R == [d \in Chans |-> Receivers[d] \cup (IF d \in ToSet(a.recv) THEN {p} ELSE {})]
  <1>1. \A d \in Chans : p \notin Senders[d] /\ p \notin Receivers[d]
    BY OnQueues DEF Waiting
  <1>2. HoldAll(ss, S) /\ HoldAll(rs, R) /\ a.send \in Seq(Chans) /\ a.recv \in Seq(Chans)
    BY DEF Staged
  <1>3. CASE ss[c] # <<>>
    <2>. DEFINE r == Head(ss[c])
                ss1 == [ss EXCEPT ![c] = Tail(@)]
                S1 == [S EXCEPT ![c] = @ \ {r}]
    <2>1. /\ sendq' = SendLeft(ss1, r, p, a) /\ recvq' = RecvLeft(rs, r, p, a)
          /\ fault' = IF Breaks(ss1, rs, r) \/ AltLoses(SendWithout(ss1, r), a.send, p)
                         \/ AltLoses(RecvWithout(rs, r), a.recv, p)
                      THEN "lost" ELSE "none"
          /\ Completes(r, c)
          /\ IF Cap[c] > 0 THEN Received(cgetb(c)) /\ GetPut(c, msg[r])
             ELSE Received(msg[r]) /\ UNCHANGED bvars
      BY <1>3, Zenon DEF irecv
    <2>2. Holds(ss[c], S[c]) /\ S[c] = Senders[c]
      BY <1>2 DEF HoldAll
    <2>3. r \in S[c] /\ r \in Progs /\ Holds(Tail(ss[c]), S[c] \ {r})
      BY <2>2, <1>3, HoldsTail
    <2>4. r \in Senders[c] /\ r # p
      BY <1>1, <2>2, <2>3
    <2>5. HoldAll(ss1, S1)
      <3>1. DOMAIN ss1 = Chans /\ DOMAIN S1 = Chans
        BY <1>2 DEF HoldAll
      <3>2. ASSUME NEW d \in Chans PROVE Holds(ss1[d], S1[d])
        <4>1. CASE d = c
          <5>1. ss1[d] = Tail(ss[c]) /\ S1[d] = S[c] \ {r}
            BY <4>1, <1>2 DEF HoldAll
          <5>. QED
            BY <5>1, <2>3
        <4>2. CASE d # c
          <5>1. ss1[d] = ss[d] /\ S1[d] = S[d]
            BY <4>2, <1>2 DEF HoldAll
          <5>. QED
            BY <5>1, <1>2 DEF HoldAll
        <4>. QED
          BY <4>1, <4>2
      <3>. HIDE DEF ss1, S1
      <3>. QED
        BY <3>1, <3>2 DEF HoldAll
    <2>6. Apart(S1, R, r, p, a)
      <3>1. ASSUME NEW d \in Chans PROVE S1[d] \subseteq S[d]
        OBVIOUS
      <3>2. \A d \in Chans : (r \in S[d] => r \in Senders[d]) /\ (r \in R[d] => r \in Receivers[d])
        BY <2>4
      <3>3. \A d \in Chans : (p \in S[d] => d \in ToSet(a.send)) /\ (p \in R[d] => d \in ToSet(a.recv))
        BY <1>1
      <3>. HIDE DEF S, R, S1
      <3>. QED
        BY <3>1, <3>2, <3>3, <2>3, OnQueues DEF Apart, Within
    <2>7. [d \in Chans |-> R[d] \ {r, p}] = [d \in Chans |-> Receivers[d] \ {r}]
      BY <1>1
    <2>8. [d \in Chans |-> S1[d] \ {r, p}] = [d \in Chans |-> Senders[d] \ {r}]
      <3>1. \A d \in Chans : S[d] \ {r, p} = Senders[d] \ {r}
        BY <1>1
      <3>2. \A d \in Chans : S1[d] \ {r, p} = S[d] \ {r, p}
        OBVIOUS
      <3>. HIDE DEF S, S1
      <3>. QED
        BY <3>1, <3>2
    <2>9. pstate[r] \in Waiting /\ r = Head(sendq[c]) /\ sendq[c] # <<>>
      BY <2>3, <2>4, <1>3, OnQueues
    <2>. HIDE DEF S, R, S1, ss1, r
    <2>10. /\ HoldAll(SendLeft(ss1, r, p, a), [d \in Chans |-> S1[d] \ {r, p}])
           /\ HoldAll(RecvLeft(rs, r, p, a), [d \in Chans |-> R[d] \ {r, p}])
           /\ ~Breaks(ss1, rs, r)
           /\ ~AltLoses(SendWithout(ss1, r), a.send, p) /\ ~AltLoses(RecvWithout(rs, r), a.recv, p)
      BY <1>2, <2>3, <2>5, <2>6, LeftHolds
    <2>11. RecvMeets(c, r)
      BY <2>1, <2>3, <2>4, <2>7, <2>8, <2>9, <2>10 DEF RecvMeets, Leave, Completes
    <2>. QED
      BY <2>3, <2>11
  <1>4. CASE ss[c] = <<>>
    <2>1. /\ CANGET(c) /\ Get(c) /\ Alone(c) /\ Received(cgetb(c))
          /\ sendq' = altdone(ss, a.send, p) /\ recvq' = altdone(rs, a.recv, p)
          /\ fault' = IF AltLoses(ss, a.send, p) \/ AltLoses(rs, a.recv, p) THEN "lost" ELSE "none"
      BY <1>4, Zenon DEF irecv
    <2>2. Stay
      BY <2>1, AloneStays DEF Alone
    <2>3. S[c] = {}
      <3>1. Holds(ss[c], S[c])
        BY <1>2 DEF HoldAll
      <3>. HIDE DEF S
      <3>. QED
        BY <3>1, <1>4, HoldsEmpty
    <2>4. Senders[c] = {}
      BY <2>3
    <2>. QED
      BY <2>1, <2>2, <2>4 DEF RecvGets, Alone
  <1>. QED
    BY <1>3, <1>4

-----------------------------------------------------------------------------
(* Every step has one of these effects.                                    *)

\* An instruction that is not an alt runs on the queues as they are.
LEMMA NoAltStaged ==
  ASSUME NEW p, Exact
  PROVE  Staged(p, NoAlt, sendq, recvq)
  <1>1. NoAlt.send = <<>> /\ NoAlt.recv = <<>> /\ NoAlt.send \in Seq(Chans) /\ NoAlt.recv \in Seq(Chans)
    BY DEF NoAlt
  <1>2. \A d : d \notin ToSet(<<>>)
    BY DEF ToSet
  <1>3. [d \in Chans |-> Senders[d] \cup (IF d \in ToSet(NoAlt.send) THEN {p} ELSE {})] = Senders
    BY <1>1, <1>2 DEF Senders
  <1>4. [d \in Chans |-> Receivers[d] \cup (IF d \in ToSet(NoAlt.recv) THEN {p} ELSE {})] = Receivers
    BY <1>1, <1>2 DEF Receivers
  <1>. QED
    BY <1>1, <1>3, <1>4 DEF Staged, Exact

\* An alt has each of its channels once among its sends, and among its receives.
LEMMA PlainDistinct ==
  ASSUME PlainAlts, NEW a \in Alts
  PROVE  /\ a.send \in Seq(Chans) /\ a.recv \in Seq(Chans)
         /\ Distinct(a.send) /\ Distinct(a.recv)
         /\ \/ \A d : d \in ToSet(a.send) => d \notin ToSet(a.recv)
            \/ \E c \in Chans : a.send = <<c>> /\ a.recv = <<c>>
  <1>1. a.send \in Seq(Chans) /\ a.recv \in Seq(Chans)
    BY AltType
  <1>. DEFINE s == a.send  t == a.recv
  <1>2. Plain(a)
    BY DEF PlainAlts
  <1>3. CASE \E c \in Chans : a.send = <<c>> /\ a.recv = <<c>>
    <2>1. ASSUME NEW c PROVE Distinct(<<c>>)
      BY DEF Distinct
    <2>. QED
      BY <1>1, <1>3, <2>1
  <1>4. CASE Distinct(s \o t)
    <2>. HIDE DEF s, t
    <2>1. s \in Seq(Chans) /\ t \in Seq(Chans) /\ Len(s) \in Nat /\ Len(t) \in Nat
      BY <1>1 DEF s, t
    <2>2. Len(s \o t) = Len(s) + Len(t) /\ \A i \in 1..Len(s) : (s \o t)[i] = s[i] /\ i \in 1..Len(s \o t)
      BY <2>1, ConcatAt
    <2>3. \A i \in 1..Len(t) : (s \o t)[Len(s) + i] = t[i] /\ Len(s) + i \in 1..Len(s \o t)
      BY <2>1, ConcatAt
    <2>4. Distinct(s)
      BY <1>4, <2>2 DEF Distinct
    <2>5. Distinct(t)
      <3>1. SUFFICES ASSUME NEW i \in 1..Len(t), NEW j \in 1..Len(t), t[i] = t[j] PROVE i = j
        BY DEF Distinct
      <3>2. Len(s) + i = Len(s) + j
        BY <1>4, <2>3, <3>1 DEF Distinct
      <3>. QED
        BY <3>2, <2>1
    <2>6. ASSUME NEW d, d \in ToSet(s), d \in ToSet(t) PROVE FALSE
      <3>1. PICK i \in 1..Len(s) : s[i] = d
        BY <2>6 DEF ToSet
      <3>2. PICK j \in 1..Len(t) : t[j] = d
        BY <2>6 DEF ToSet
      <3>3. i \in 1..Len(s \o t) /\ Len(s) + j \in 1..Len(s \o t)
        BY <2>2, <2>3
      <3>4. (s \o t)[i] = (s \o t)[Len(s) + j]
        BY <2>2, <2>3, <3>1, <3>2
      <3>5. i = Len(s) + j
        BY <1>4, <3>3, <3>4, Zenon DEF Distinct
      <3>. QED
        BY <3>5, <2>1
    <2>. QED
      BY <1>1, <2>4, <2>5, <2>6 DEF s, t
  <1>. QED
    BY <1>2, <1>3, <1>4 DEF Plain

\* The queues on which an alt communicates.
LEMMA AltStaged ==
  ASSUME NEW p \in Progs, NEW a \in Alts, PlainAlts, Exact, pstate[p] = "ready"
  PROVE  /\ Staged(p, a, altadd(sendq, a.send, p), altadd(recvq, a.recv, p))
         /\ \A d \in Chans \ ToSet(a.send) : altadd(sendq, a.send, p)[d] = sendq[d]
         /\ \A d \in Chans \ ToSet(a.recv) : altadd(recvq, a.recv, p)[d] = recvq[d]
         /\ \A d \in ToSet(a.send) : altadd(sendq, a.send, p)[d] = Append(sendq[d], p)
         /\ \A d \in ToSet(a.recv) : altadd(recvq, a.recv, p)[d] = Append(recvq[d], p)
  <1>1. a.send \in Seq(Chans) /\ a.recv \in Seq(Chans) /\ Distinct(a.send) /\ Distinct(a.recv)
    BY PlainDistinct
  <1>2. \A d \in Chans : p \notin Senders[d] /\ p \notin Receivers[d]
    BY OnQueues DEF Waiting
  <1>3. HoldAll(altadd(sendq, a.send, p), [d \in Chans |-> Senders[d] \cup (IF d \in ToSet(a.send) THEN {p} ELSE {})])
    BY <1>1, <1>2, AltAddHolds DEF Exact
  <1>4. HoldAll(altadd(recvq, a.recv, p), [d \in Chans |-> Receivers[d] \cup (IF d \in ToSet(a.recv) THEN {p} ELSE {})])
    BY <1>1, <1>2, AltAddHolds DEF Exact
  <1>5. \A d \in Chans : sendq[d] \in Seq(Progs) /\ recvq[d] \in Seq(Progs)
    BY DEF Exact, HoldAll, Holds
  <1>6. \A d \in Chans : altadd(sendq, a.send, p)[d] = IF d \in ToSet(a.send) THEN Append(sendq[d], p) ELSE sendq[d]
    BY <1>1, <1>5, AltAdd
  <1>7. \A d \in Chans : altadd(recvq, a.recv, p)[d] = IF d \in ToSet(a.recv) THEN Append(recvq[d], p) ELSE recvq[d]
    BY <1>1, <1>5, AltAdd
  <1>8. ToSet(a.send) \subseteq Chans /\ ToSet(a.recv) \subseteq Chans
    BY <1>1 DEF ToSet
  <1>. QED
    BY <1>1, <1>3, <1>4, <1>6, <1>7, <1>8 DEF Staged

\* An entry of an alt: a channel of its sends, or one of its receives.
LEMMA EntryOf ==
  ASSUME NEW a, a.send \in Seq(Chans), a.recv \in Seq(Chans)
  PROVE  /\ Len(a.send) + Len(a.recv) \in Nat /\ DOMAIN Entries(a) = 1..(Len(a.send) + Len(a.recv))
         /\ \A n \in DOMAIN Entries(a) :
              IF IsSend(a, n) THEN Entries(a)[n] \in ToSet(a.send) ELSE Entries(a)[n] \in ToSet(a.recv)
         /\ \A d \in ToSet(a.send) : \E n \in DOMAIN Entries(a) : IsSend(a, n) /\ Entries(a)[n] = d
         /\ \A d \in ToSet(a.recv) : \E n \in DOMAIN Entries(a) : ~IsSend(a, n) /\ Entries(a)[n] = d
  <1>. DEFINE s == a.send  t == a.recv  e == s \o t
  <1>0. s \in Seq(Chans) /\ t \in Seq(Chans)
    OBVIOUS
  <1>. HIDE DEF s, t
  <1>1. Len(e) = Len(s) + Len(t) /\ Len(s) \in Nat /\ Len(t) \in Nat /\ DOMAIN e = 1..Len(e)
    BY <1>0, ConcatAt
  <1>2. \A i \in 1..Len(s) : e[i] = s[i]
    BY <1>0, ConcatAt
  <1>3. \A i \in 1..Len(t) : e[Len(s) + i] = t[i]
    BY <1>0, ConcatAt
  <1>4. Entries(a) = e /\ \A n : IsSend(a, n) <=> n <= Len(s)
    BY DEF Entries, IsSend, s, t
  <1>. HIDE DEF e
  <1>5. \A d : (d \in ToSet(s) <=> \E i \in 1..Len(s) : s[i] = d) /\ (d \in ToSet(t) <=> \E i \in 1..Len(t) : t[i] = d)
    <2>1. DOMAIN s = 1..Len(s) /\ DOMAIN t = 1..Len(t)
      BY <1>0
    <2>. QED
      BY <2>1 DEF ToSet
  <1>6. ASSUME NEW n \in DOMAIN e PROVE IF n <= Len(s) THEN e[n] \in ToSet(s) ELSE e[n] \in ToSet(t)
    <2>1. CASE n <= Len(s)
      BY <2>1, <1>1, <1>2, <1>5
    <2>2. CASE ~(n <= Len(s))
      <3>1. n - Len(s) \in 1..Len(t) /\ Len(s) + (n - Len(s)) = n
        BY <2>2, <1>1
      <3>2. e[n] = t[n - Len(s)]
        BY <3>1, <1>3
      <3>. QED
        BY <2>2, <3>1, <3>2, <1>5
    <2>. QED
      BY <2>1, <2>2
  <1>7. ASSUME NEW d \in ToSet(s) PROVE \E n \in DOMAIN e : n <= Len(s) /\ e[n] = d
    BY <1>1, <1>2, <1>5
  <1>8. ASSUME NEW d \in ToSet(t) PROVE \E n \in DOMAIN e : ~(n <= Len(s)) /\ e[n] = d
    <2>1. PICK i \in 1..Len(t) : t[i] = d
      BY <1>5
    <2>2. Len(s) + i \in DOMAIN e /\ ~(Len(s) + i <= Len(s)) /\ e[Len(s) + i] = d
      BY <2>1, <1>1, <1>3
    <2>. QED
      BY <2>2
  <1>9. Len(s) + Len(t) \in Nat /\ DOMAIN e = 1..(Len(s) + Len(t))
    BY <1>1
  <1>. QED
    BY <1>4, <1>6, <1>7, <1>8, <1>9, Zenon DEF s, t

\* A finite set of numbers has a member with a given number of others before it.
LEMMA Rank ==
  ASSUME NEW m \in Nat, NEW W \in SUBSET (1..m), NEW w \in 0..(Cardinality(W) - 1)
  PROVE  \E n \in W : Cardinality({k \in W : k < n}) = w
  <1>. DEFINE B(i) == {k \in W : k <= i}
              T == {i \in 0..m : Cardinality(B(i)) > w}
  <1>1. IsFiniteSet(W) /\ \A i \in 0..m : IsFiniteSet(B(i))
    <2>1. IsFiniteSet(1..m)
      BY FS_Interval
    <2>2. IsFiniteSet(W)
      BY <2>1, FS_Subset
    <2>3. ASSUME NEW i \in 0..m PROVE IsFiniteSet(B(i))
      <3>1. B(i) \subseteq W
        OBVIOUS
      <3>. QED
        BY <2>2, <3>1, FS_Subset
    <2>. QED
      BY <2>2, <2>3
  <1>2. Cardinality(W) \in Nat /\ \A i \in 0..m : Cardinality(B(i)) \in Nat
    BY <1>1, FS_CardinalityType
  <1>3. \A k \in W : k \in 1..m
    OBVIOUS
  <1>4. \A i, k : k \in B(i) <=> k \in W /\ k <= i
    OBVIOUS
  <1>. HIDE DEF B
  <1>5. m \in T
    <2>1. B(m) = W
      <3>1. \A k \in W : k <= m
        BY <1>3
      <3>2. \A k : k \in B(m) <=> k \in W
        BY <3>1, <1>4, Zenon
      <3>. QED
        BY <3>2, Zenon
    <2>. QED
      BY <2>1, <1>2
  <1>6. PICK c \in T : \A d \in T : c <= d
    <2>1. T \in SUBSET Nat
      OBVIOUS
    <2>2. T # {}
      BY <1>5
    <2>. HIDE DEF T
    <2>. QED
      BY <2>1, <2>2, Least
  <1>7. c \in 0..m /\ Cardinality(B(c)) > w
    OBVIOUS
  <1>8. c # 0
    <2>1. B(0) = {}
      <3>1. \A k : k \notin B(0)
        <4>1. \A k \in W : ~(k <= 0)
          BY <1>3
        <4>. QED
          BY <4>1, <1>4, Zenon
      <3>. QED
        BY <3>1, Zenon
    <2>2. Cardinality(B(0)) = 0
      BY <2>1, FS_EmptySet
    <2>. QED
      BY <2>2, <1>7
  <1>9. c \in 1..m /\ c - 1 \in 0..m
    BY <1>7, <1>8
  <1>10. Cardinality(B(c - 1)) <= w
    <2>1. c - 1 \in T => c <= c - 1
      <3>. HIDE DEF T
      <3>. QED
        BY <1>6
    <2>2. c - 1 \notin T
      <3>. HIDE DEF T
      <3>. QED
        BY <2>1, <1>9
    <2>3. ~(Cardinality(B(c - 1)) > w)
      BY <2>2, <1>9
    <2>. QED
      BY <2>3, <1>2, <1>9
  <1>. HIDE DEF T
  <1>11. c \in W
    <2>1. ASSUME c \notin W PROVE FALSE
      <3>1. ASSUME NEW k \in W PROVE k <= c <=> k <= c - 1
        <4>1. k # c /\ k \in 1..m
          BY <2>1, <3>1, <1>3
        <4>. QED
          BY <4>1, <1>9
      <3>2. B(c) = B(c - 1)
        <4>1. \A k : k \in B(c) <=> k \in B(c - 1)
          BY <3>1, <1>4
        <4>. QED
          BY <4>1, Zenon
      <3>. QED
        BY <3>2, <1>7, <1>10, <1>2, <1>9
    <2>. QED
      BY <2>1
  <1>12. B(c) = B(c - 1) \cup {c} /\ c \notin B(c - 1) /\ {k \in W : k < c} = B(c - 1)
    <2>1. ASSUME NEW k \in W PROVE (k <= c <=> k <= c - 1 \/ k = c) /\ (k < c <=> k <= c - 1)
      <3>1. k \in 1..m
        BY <1>3
      <3>. QED
        BY <3>1, <1>9
    <2>2. ~(c <= c - 1)
      BY <1>9
    <2>. QED
      BY <2>1, <2>2, <1>4, <1>11
  <1>13. Cardinality(B(c)) = Cardinality(B(c - 1)) + 1
    <2>1. IsFiniteSet(B(c - 1))
      BY <1>1, <1>9
    <2>2. Cardinality(B(c - 1) \cup {c}) = Cardinality(B(c - 1)) + 1
      BY <2>1, <1>12, FS_AddElement
    <2>. QED
      BY <2>2, <1>12
  <1>14. Cardinality(B(c - 1)) = w
    BY <1>7, <1>10, <1>13, <1>2, <1>9
  <1>. QED
    BY <1>11, <1>12, <1>14

\* An alt with one channel both ways that may communicate sends: one prog at least
\* waits to receive, and none to send.
LEMMA BothWays ==
  ASSUME NEW p \in Progs, NEW a \in Alts, NEW c \in Chans, a.send = <<c>>, a.recv = <<c>>,
         PlainAlts, Exact, NoneMissed, pstate[p] = "ready",
         ~SameChan(a, altadd(recvq, a.recv, p), p)
  PROVE  Counted(p, a) = {1} /\ Walked(p, a) = {1, 2} /\ Chosen(p, a, 0) = 1 /\ IsSend(a, 1)
  <1>. DEFINE ss == altadd(sendq, a.send, p)
              rs == altadd(recvq, a.recv, p)
  <1>1. /\ DOMAIN Entries(a) = {1, 2} /\ Entries(a)[1] = c /\ Entries(a)[2] = c
        /\ IsSend(a, 1) /\ ~IsSend(a, 2)
    BY DEF Entries, IsSend
  <1>2. c \in ToSet(a.send) /\ c \in ToSet(a.recv)
    BY DEF ToSet
  <1>3. ss[c] = Append(sendq[c], p) /\ rs[c] = Append(recvq[c], p)
    BY <1>2, AltStaged
  <1>4. sendq[c] \in Seq(Progs) /\ recvq[c] \in Seq(Progs)
    BY DEF Exact, HoldAll, Holds
  <1>5. ss[c] # <<>> /\ rs[c] # <<>>
    BY <1>3, <1>4, AppendIn
  <1>. HIDE DEF ss, rs
  <1>6. SendReady(a, rs) = {1}
    BY <1>1, <1>5 DEF SendReady
  <1>7. Head(rs[c]) # p
    BY <1>1, <1>5, <1>6 DEF SameChan, rs
  <1>8. recvq[c] # <<>>
    BY <1>3, <1>4, <1>7, AppendHead
  <1>9. sendq[c] = <<>> /\ ~CANGET(c)
    BY <1>8 DEF NoneMissed, CANGET
  <1>10. RecvReady(a, sendq) = {} /\ RecvReady(a, ss) = {2}
    BY <1>1, <1>5, <1>9 DEF RecvReady
  <1>11. Counted(p, a) = {1} /\ Walked(p, a) = {1, 2}
    BY <1>6, <1>10 DEF Counted, Walked, ss, rs
  <1>12. Cardinality({k \in {1, 2} : k < 1}) = 0 /\ Cardinality({k \in {1, 2} : k < 2}) = 1
    <2>1. {k \in {1, 2} : k < 1} = {} /\ {k \in {1, 2} : k < 2} = {1}
      OBVIOUS
    <2>. QED
      BY <2>1, FS_EmptySet, FS_Singleton
  <1>13. Chosen(p, a, 0) = 1
    BY <1>11, <1>12 DEF Chosen
  <1>. QED
    BY <1>1, <1>11, <1>13

\* altcomm comes to an entry that altrdy has counted: the rank that was drawn among
\* the ready ones is that of a ready one.
LEMMA ChosenReady ==
  ASSUME NEW p \in Progs, NEW a \in Alts, NEW which \in 0..(Cardinality(Counted(p, a)) - 1),
         PlainAlts, Exact, NoneMissed, pstate[p] = "ready",
         ~SameChan(a, altadd(recvq, a.recv, p), p)
  PROVE  /\ Chosen(p, a, which) \in Counted(p, a) /\ Chosen(p, a, which) \in DOMAIN Entries(a)
         /\ \/ IsSend(a, Chosen(p, a, which))
            \/ Entries(a)[Chosen(p, a, which)] \in ToSet(a.recv) \ ToSet(a.send)
  <1>. DEFINE ss == altadd(sendq, a.send, p)
              rs == altadd(recvq, a.recv, p)
              n == Chosen(p, a, which)
  <1>1. a.send \in Seq(Chans) /\ a.recv \in Seq(Chans)
    BY PlainDistinct
  <1>2. Counted(p, a) \subseteq DOMAIN Entries(a)
    BY DEF Counted, RecvReady, SendReady
  <1>3. CASE \E c \in Chans : a.send = <<c>> /\ a.recv = <<c>>
    <2>1. Counted(p, a) = {1} /\ Chosen(p, a, 0) = 1 /\ IsSend(a, 1)
      BY <1>3, BothWays
    <2>2. which = 0
      <3>1. Cardinality({1}) = 1
        BY FS_Singleton
      <3>. QED
        BY <2>1, <3>1
    <2>. QED
      BY <2>1, <2>2, <1>2
  <1>4. CASE \A d : d \in ToSet(a.send) => d \notin ToSet(a.recv)
    <2>1. /\ Len(a.send) + Len(a.recv) \in Nat /\ DOMAIN Entries(a) = 1..(Len(a.send) + Len(a.recv))
          /\ \A k \in DOMAIN Entries(a) : ~IsSend(a, k) => Entries(a)[k] \in ToSet(a.recv)
      BY <1>1, EntryOf
    <2>2. ToSet(a.recv) \subseteq Chans
      BY <1>1 DEF ToSet
    <2>3. \A k \in DOMAIN Entries(a) : ~IsSend(a, k) => ss[Entries(a)[k]] = sendq[Entries(a)[k]]
      <3>1. \A d \in Chans \ ToSet(a.send) : ss[d] = sendq[d]
        BY AltStaged
      <3>. QED
        BY <2>1, <2>2, <3>1, <1>4
    <2>4. Walked(p, a) = Counted(p, a)
      <3>1. RecvReady(a, ss) = RecvReady(a, sendq)
        BY <2>3 DEF RecvReady
      <3>. QED
        BY <3>1 DEF Walked, Counted
    <2>5. \E k \in Walked(p, a) : Cardinality({j \in Walked(p, a) : j < k}) = which
      <3>1. Walked(p, a) \in SUBSET (1..(Len(a.send) + Len(a.recv)))
        BY <1>2, <2>1, <2>4
      <3>2. which \in 0..(Cardinality(Walked(p, a)) - 1)
        BY <2>4
      <3>. QED
        BY <2>1, <3>1, <3>2, Rank
    <2>6. n \in Walked(p, a)
      BY <2>5 DEF Chosen
    <2>7. n \in Counted(p, a) /\ n \in DOMAIN Entries(a)
      BY <1>2, <2>4, <2>6
    <2>. QED
      BY <2>1, <2>7, <1>4
  <1>. QED
    BY <1>3, <1>4, PlainDistinct

\* An alt communicates.
LEMMA AltCommEffect ==
  ASSUME NEW p \in Progs, NEW a \in Alts, NEW m, Fields, PlainAlts, Exact, NoneMissed,
         pstate[p] = "ready", ~SameChan(a, altadd(recvq, a.recv, p), p), AltComm(p, a, m)
  PROVE  \E c \in Chans : \/ a.send # <<>> /\ (SendPuts(c, m) \/ \E r \in Progs : SendMeets(c, m, r))
                          \/ RecvGets(c) \/ \E s \in Progs : RecvMeets(c, s)
  <1>. DEFINE ss == altadd(sendq, a.send, p)
              rs == altadd(recvq, a.recv, p)
  <1>1. PICK which \in 0..(Cardinality(Counted(p, a)) - 1) :
          LET n == Chosen(p, a, which)
              c == Entries(a)[n]
          IN  IF n \notin Counted(p, a) \/ (~IsSend(a, n) /\ ss[c] # <<>> /\ Head(ss[c]) = p)
              THEN fault' = "unready" /\ UNCHANGED <<sendq, recvq, bvars, pstate, chan, alt, msg, on, got>>
              ELSE IF IsSend(a, n) THEN isend(p, c, m, a, ss, rs) ELSE irecv(p, c, a, ss, rs)
    BY Zenon DEF AltComm
  <1>. DEFINE n == Chosen(p, a, which)
              c == Entries(a)[n]
  <1>2. /\ n \in Counted(p, a) /\ n \in DOMAIN Entries(a)
        /\ IsSend(a, n) \/ c \in ToSet(a.recv) \ ToSet(a.send)
    BY ChosenReady
  <1>3. a.send \in Seq(Chans) /\ a.recv \in Seq(Chans)
    BY PlainDistinct
  <1>4. Staged(p, a, ss, rs) /\ \A d \in Chans \ ToSet(a.send) : ss[d] = sendq[d]
    BY AltStaged
  <1>5. ToSet(a.send) \subseteq Chans /\ ToSet(a.recv) \subseteq Chans
    BY <1>3 DEF ToSet
  <1>6. IsSend(a, n) => c \in ToSet(a.send)
    BY <1>2, <1>3, EntryOf
  <1>. HIDE DEF ss, rs, n, c
  <1>7. CASE IsSend(a, n)
    <2>1. isend(p, c, m, a, ss, rs)
      BY <1>1, <1>2, <1>7 DEF n, c
    <2>2. c \in Chans
      BY <1>5, <1>6, <1>7
    <2>3. n \in SendReady(a, rs)
      BY <1>2, <1>7 DEF Counted, RecvReady, rs
    <2>4. rs[c] # <<>> => Head(rs[c]) # p
      BY <2>3 DEF SameChan, rs, c
    <2>5. SendPuts(c, m) \/ \E r \in Progs : SendMeets(c, m, r)
      BY <2>1, <2>2, <2>4, <1>4, SendEffect
    <2>6. a.send # <<>>
      BY <1>6, <1>7 DEF ToSet
    <2>. QED
      BY <2>2, <2>5, <2>6
  <1>8. CASE ~IsSend(a, n)
    <2>1. c \in Chans /\ c \notin ToSet(a.send) /\ ss[c] = sendq[c]
      BY <1>2, <1>4, <1>5, <1>8
    <2>2. ~(ss[c] # <<>> /\ Head(ss[c]) = p)
      <3>1. ASSUME sendq[c] # <<>> PROVE Head(sendq[c]) # p
        <4>1. Holds(sendq[c], Senders[c])
          BY <2>1 DEF Exact, HoldAll
        <4>2. Head(sendq[c]) \in Senders[c]
          BY <3>1, <4>1, HoldsTail
        <4>. QED
          BY <4>2, <2>1, OnQueues DEF Waiting
      <3>. QED
        BY <3>1, <2>1
    <2>3. irecv(p, c, a, ss, rs)
      BY <1>1, <1>2, <1>8, <2>2 DEF n, c
    <2>4. RecvGets(c) \/ \E s \in Progs : RecvMeets(c, s)
      BY <2>1, <2>3, <1>4, RecvEffect
    <2>. QED
      BY <2>1, <2>4
  <1>. QED
    BY <1>7, <1>8

\* An alt blocks on all its channels: none of them is ready either way.
LEMMA AltBlockEffect ==
  ASSUME NEW p \in Progs, NEW a \in Alts, NEW m \in IF a.send = <<>> THEN {NoMsg} ELSE Fresh,
         Fields, PlainAlts, Exact, pstate[p] = "ready", fault = "none", AltBlock(p, a, m)
  PROVE  Blocks(p, ToSet(a.send), ToSet(a.recv)) /\ ToSet(a.send) \subseteq Chans /\ ToSet(a.recv) \subseteq Chans
  <1>. DEFINE ss == altadd(sendq, a.send, p)
              rs == altadd(recvq, a.recv, p)
              S == ToSet(a.send)
              R == ToSet(a.recv)
  <1>1. a.send \in Seq(Chans) /\ a.recv \in Seq(Chans)
    BY PlainDistinct
  <1>2. S \subseteq Chans /\ R \subseteq Chans
    BY <1>1 DEF ToSet
  <1>3. RecvReady(a, sendq) = {} /\ SendReady(a, rs) = {}
    BY DEF AltBlock, Counted
  <1>4. /\ HoldAll(ss, [d \in Chans |-> Senders[d] \cup (IF d \in S THEN {p} ELSE {})])
        /\ HoldAll(rs, [d \in Chans |-> Receivers[d] \cup (IF d \in R THEN {p} ELSE {})])
    BY AltStaged DEF Staged
  <1>5. ASSUME NEW d \in S PROVE rs[d] = <<>> /\ ~CANPUT(d) /\ Receivers[d] = {} /\ d \notin R
    <2>1. PICK k \in DOMAIN Entries(a) : IsSend(a, k) /\ Entries(a)[k] = d
      BY <1>1, EntryOf
    <2>. HIDE DEF rs
    <2>2. rs[d] = <<>> /\ ~CANPUT(d)
      BY <2>1, <1>3 DEF SendReady
    <2>3. Holds(rs[d], Receivers[d] \cup (IF d \in R THEN {p} ELSE {}))
      BY <1>2, <1>4 DEF HoldAll
    <2>4. Receivers[d] \cup (IF d \in R THEN {p} ELSE {}) = {}
      <3>. HIDE DEF R
      <3>. QED
        BY <2>2, <2>3, HoldsEmpty
    <2>. QED
      BY <2>2, <2>4
  <1>6. ASSUME NEW d \in R PROVE ~CANGET(d) /\ Senders[d] = {}
    <2>1. PICK k \in DOMAIN Entries(a) : ~IsSend(a, k) /\ Entries(a)[k] = d
      BY <1>1, EntryOf
    <2>2. sendq[d] = <<>> /\ ~CANGET(d)
      BY <2>1, <1>3 DEF RecvReady
    <2>3. Holds(sendq[d], Senders[d])
      BY <1>2 DEF Exact, HoldAll
    <2>. QED
      BY <2>2, <2>3, HoldsEmpty
  <1>. HIDE DEF ss, rs
  <1>7. HoldAll(sendq', [d \in Chans |-> IF d \in S THEN Senders[d] \cup {p} ELSE Senders[d]])
    <2>1. [d \in Chans |-> Senders[d] \cup (IF d \in S THEN {p} ELSE {})]
            = [d \in Chans |-> IF d \in S THEN Senders[d] \cup {p} ELSE Senders[d]]
      OBVIOUS
    <2>. QED
      BY <2>1, <1>4 DEF AltBlock, ss
  <1>8. HoldAll(recvq', [d \in Chans |-> IF d \in R THEN Receivers[d] \cup {p} ELSE Receivers[d]])
    <2>1. [d \in Chans |-> Receivers[d] \cup (IF d \in R THEN {p} ELSE {})]
            = [d \in Chans |-> IF d \in R THEN Receivers[d] \cup {p} ELSE Receivers[d]]
      OBVIOUS
    <2>. QED
      BY <2>1, <1>4 DEF AltBlock, rs
  <1>9. /\ "alt" \in Waiting /\ chan[p] \in Chans \cup {NoChan} /\ a \in Alts \cup {NoAlt} /\ m \in Fresh \cup {NoMsg}
        /\ chan' = [chan EXCEPT ![p] = chan[p]]
    BY DEF Waiting, Fields, AltBlock
  <1>10. S # {} => m \in Msgs
    <2>1. a.send = <<>> => S = {}
      BY DEF ToSet
    <2>. QED
      BY <2>1 DEF Fresh
  <1>11. \E s \in Waiting, x \in Chans \cup {NoChan}, b \in Alts \cup {NoAlt}, n \in Fresh \cup {NoMsg} :
           /\ pstate' = [pstate EXCEPT ![p] = s]
           /\ chan' = [chan EXCEPT ![p] = x]
           /\ alt' = [alt EXCEPT ![p] = b]
           /\ msg' = [msg EXCEPT ![p] = n]
           /\ n # NoMsg => s \in {"send", "alt"}
           /\ S # {} => n \in Msgs
           /\ \A d \in Chans :
                /\ d \in S <=> (s = "send" /\ x = d) \/ (s = "alt" /\ d \in ToSet(b.send))
                /\ d \in R <=> (s = "recv" /\ x = d) \/ (s = "alt" /\ d \in ToSet(b.recv))
    <2>1. /\ pstate' = [pstate EXCEPT ![p] = "alt"]
          /\ alt' = [alt EXCEPT ![p] = a]
          /\ msg' = [msg EXCEPT ![p] = m]
      BY DEF AltBlock
    <2>. HIDE DEF S, R
    <2>2. \A d \in Chans :
            /\ d \in S <=> ("alt" = "send" /\ chan[p] = d) \/ ("alt" = "alt" /\ d \in ToSet(a.send))
            /\ d \in R <=> ("alt" = "recv" /\ chan[p] = d) \/ ("alt" = "alt" /\ d \in ToSet(a.recv))
      BY DEF S, R
    <2>3. m # NoMsg => "alt" \in {"send", "alt"}
      OBVIOUS
    <2>. QED
      BY <1>9, <1>10, <2>1, <2>2, <2>3, Zenon
  <1>12. fault' = "none" /\ on' = NoChan /\ UNCHANGED <<bvars, got>>
    BY DEF AltBlock
  <1>13. S \cap R = {}
    BY <1>5
  <1>. HIDE DEF S, R
  <1>14. Blocks(p, S, R)
    BY <1>5, <1>6, <1>7, <1>8, <1>11, <1>12, <1>13, Zenon DEF Blocks
  <1>. QED
    BY <1>2, <1>14 DEF S, R

\* A send or a receive that blocks.
LEMMA SendBlockEffect ==
  ASSUME NEW p \in Progs, NEW c \in Chans, NEW m \in Fresh, Fields, Exact, pstate[p] = "ready",
         fault = "none", SendBlock(p, c, m)
  PROVE  Blocks(p, {c}, {})
  <1>1. Holds(sendq[c], Senders[c]) /\ Holds(recvq[c], Receivers[c]) /\ DOMAIN sendq = Chans
    BY DEF Exact, HoldAll
  <1>2. Receivers[c] = {} /\ ~CANPUT(c)
    BY <1>1, HoldsEmpty DEF SendBlock
  <1>3. p \notin Senders[c]
    BY OnQueues DEF Waiting
  <1>4. HoldAll(sendq', [d \in Chans |-> IF d \in {c} THEN Senders[d] \cup {p} ELSE Senders[d]])
    <2>1. sendq' = [sendq EXCEPT ![c] = Append(@, p)]
      BY DEF SendBlock
    <2>2. DOMAIN sendq' = Chans /\ sendq'[c] = Append(sendq[c], p) /\ \A d \in Chans \ {c} : sendq'[d] = sendq[d]
      BY <2>1, <1>1
    <2>3. Holds(sendq'[c], Senders[c] \cup {p})
      BY <2>2, <1>1, <1>3, HoldsAppend
    <2>4. \A d \in Chans \ {c} : Holds(sendq'[d], Senders[d])
      BY <2>2 DEF Exact, HoldAll
    <2>. QED
      BY <2>2, <2>3, <2>4 DEF HoldAll
  <1>5. HoldAll(recvq', [d \in Chans |-> IF d \in {} THEN Receivers[d] \cup {p} ELSE Receivers[d]])
    <2>1. recvq' = recvq
      BY DEF SendBlock
    <2>2. [d \in Chans |-> IF d \in {} THEN Receivers[d] \cup {p} ELSE Receivers[d]] = Receivers
      BY DEF Receivers
    <2>. QED
      BY <2>1, <2>2 DEF Exact
  <1>6. \E s \in Waiting, x \in Chans \cup {NoChan}, a \in Alts \cup {NoAlt}, n \in Fresh \cup {NoMsg} :
           /\ pstate' = [pstate EXCEPT ![p] = s]
           /\ chan' = [chan EXCEPT ![p] = x]
           /\ alt' = [alt EXCEPT ![p] = a]
           /\ msg' = [msg EXCEPT ![p] = n]
           /\ n # NoMsg => s \in {"send", "alt"}
           /\ {c} # {} => n \in Msgs
           /\ \A d \in Chans :
                /\ d \in {c} <=> (s = "send" /\ x = d) \/ (s = "alt" /\ d \in ToSet(a.send))
                /\ d \in {} <=> (s = "recv" /\ x = d) \/ (s = "alt" /\ d \in ToSet(a.recv))
    <2>1. alt[p] \in Alts \cup {NoAlt} /\ alt' = [alt EXCEPT ![p] = alt[p]]
      BY DEF Fields, SendBlock
    <2>2. "send" \in Waiting /\ m \in Msgs
      BY DEF Waiting, Fresh
    <2>3. /\ pstate' = [pstate EXCEPT ![p] = "send"] /\ chan' = [chan EXCEPT ![p] = c]
          /\ msg' = [msg EXCEPT ![p] = m]
      BY DEF SendBlock
    <2>. QED
      BY <2>1, <2>2, <2>3
  <1>7. fault' = "none" /\ on' = NoChan /\ UNCHANGED <<bvars, got>>
    BY DEF SendBlock
  <1>8. {c} \cap {} = {} /\ (\A d \in {c} : Receivers[d] = {} /\ ~CANPUT(d)) /\ (\A d \in {} : Senders[d] = {} /\ ~CANGET(d))
    BY <1>2
  <1>. QED
    BY <1>4, <1>5, <1>6, <1>7, <1>8, Zenon DEF Blocks

\* and so does a receiver.
LEMMA RecvBlockEffect ==
  ASSUME NEW p \in Progs, NEW c \in Chans, Fields, Exact, pstate[p] = "ready",
         fault = "none", RecvBlock(p, c)
  PROVE  Blocks(p, {}, {c})
  <1>1. Holds(sendq[c], Senders[c]) /\ Holds(recvq[c], Receivers[c]) /\ DOMAIN recvq = Chans
    BY DEF Exact, HoldAll
  <1>2. Senders[c] = {} /\ ~CANGET(c)
    BY <1>1, HoldsEmpty DEF RecvBlock
  <1>3. p \notin Receivers[c]
    BY OnQueues DEF Waiting
  <1>4. HoldAll(recvq', [d \in Chans |-> IF d \in {c} THEN Receivers[d] \cup {p} ELSE Receivers[d]])
    <2>1. recvq' = [recvq EXCEPT ![c] = Append(@, p)]
      BY DEF RecvBlock
    <2>2. DOMAIN recvq' = Chans /\ recvq'[c] = Append(recvq[c], p) /\ \A d \in Chans \ {c} : recvq'[d] = recvq[d]
      BY <2>1, <1>1
    <2>3. Holds(recvq'[c], Receivers[c] \cup {p})
      BY <2>2, <1>1, <1>3, HoldsAppend
    <2>4. \A d \in Chans \ {c} : Holds(recvq'[d], Receivers[d])
      BY <2>2 DEF Exact, HoldAll
    <2>. QED
      BY <2>2, <2>3, <2>4 DEF HoldAll
  <1>5. HoldAll(sendq', [d \in Chans |-> IF d \in {} THEN Senders[d] \cup {p} ELSE Senders[d]])
    <2>1. sendq' = sendq
      BY DEF RecvBlock
    <2>2. [d \in Chans |-> IF d \in {} THEN Senders[d] \cup {p} ELSE Senders[d]] = Senders
      BY DEF Senders
    <2>. QED
      BY <2>1, <2>2 DEF Exact
  <1>6. \E s \in Waiting, x \in Chans \cup {NoChan}, a \in Alts \cup {NoAlt}, n \in Fresh \cup {NoMsg} :
           /\ pstate' = [pstate EXCEPT ![p] = s]
           /\ chan' = [chan EXCEPT ![p] = x]
           /\ alt' = [alt EXCEPT ![p] = a]
           /\ msg' = [msg EXCEPT ![p] = n]
           /\ n # NoMsg => s \in {"send", "alt"}
           /\ {} # {} => n \in Msgs
           /\ \A d \in Chans :
                /\ d \in {} <=> (s = "send" /\ x = d) \/ (s = "alt" /\ d \in ToSet(a.send))
                /\ d \in {c} <=> (s = "recv" /\ x = d) \/ (s = "alt" /\ d \in ToSet(a.recv))
    <2>1. alt[p] \in Alts \cup {NoAlt} /\ alt' = [alt EXCEPT ![p] = alt[p]]
      BY DEF Fields, RecvBlock
    <2>2. "recv" \in Waiting /\ msg[p] = NoMsg /\ msg' = [msg EXCEPT ![p] = NoMsg]
      BY DEF Waiting, Fields, RecvBlock
    <2>3. pstate' = [pstate EXCEPT ![p] = "recv"] /\ chan' = [chan EXCEPT ![p] = c]
      BY DEF RecvBlock
    <2>. QED
      BY <2>1, <2>2, <2>3
  <1>7. fault' = "none" /\ on' = NoChan /\ UNCHANGED <<bvars, got>>
    BY DEF RecvBlock
  <1>8. {} \cap {c} = {} /\ (\A d \in {} : Receivers[d] = {} /\ ~CANPUT(d)) /\ (\A d \in {c} : Senders[d] = {} /\ ~CANGET(d))
    BY <1>2
  <1>. QED
    BY <1>4, <1>5, <1>6, <1>7, <1>8, Zenon DEF Blocks

\* A prog that waits is killed or gets an exception.
LEMMA InterruptEffect ==
  ASSUME NEW p \in Progs, NEW s \in {"ready", "exited"}, Fields, Exact, Interrupt(p, s)
  PROVE  Interrupted(p, s)
  <1>1. \A d \in Chans : (p \in Senders[d] => WaitsToSend(p, d)) /\ (p \in Receivers[d] => WaitsToRecv(p, d))
    BY OnQueues
  <1>2. /\ HoldAll(SendWithout(sendq, p), [d \in Chans |-> Senders[d] \ {p}])
        /\ pstate[p] = "alt" => ~AltLoses(sendq, alt[p].send, p)
    BY <1>1, SendWithoutHolds DEF Exact
  <1>3. /\ HoldAll(RecvWithout(recvq, p), [d \in Chans |-> Receivers[d] \ {p}])
        /\ pstate[p] = "alt" => ~AltLoses(recvq, alt[p].recv, p)
    BY <1>1, RecvWithoutHolds DEF Exact
  <1>4. ~Breaks(sendq, recvq, p)
    BY <1>2, <1>3 DEF Breaks
  <1>. QED
    BY <1>2, <1>3, <1>4 DEF Interrupt, Interrupted, Leave

\* Each step of the specification has one of the effects.
LEMMA StepEffect ==
  ASSUME PlainAlts, Fields, Exact, NoneMissed, Next
  PROVE  Effect
  <1>1. fault = "none"
    BY DEF Next
  <1>2. PICK p \in Progs : Instruction(p) \/ killprog(p) \/ exprog(p)
    BY DEF Next
  <1>3. CASE killprog(p) \/ exprog(p)
    <2>1. PICK s \in {"ready", "exited"} : Interrupt(p, s)
      BY <1>3 DEF killprog, exprog
    <2>2. Interrupted(p, s)
      BY <2>1, InterruptEffect
    <2>. QED
      BY <2>2 DEF Effect
  <1>4. CASE Instruction(p)
    <2>1. pstate[p] = "ready"
      BY <1>4 DEF Instruction
    <2>2. \A d \in Chans : p \notin Senders[d] /\ p \notin Receivers[d]
      BY <2>1, OnQueues DEF Waiting
    <2>3. ASSUME NEW c \in Chans, Recv(p, c) PROVE Effect
      <3>1. irecv(p, c, NoAlt, sendq, recvq)
        BY <2>3 DEF Recv
      <3>2. c \notin ToSet(NoAlt.send)
        BY DEF NoAlt, ToSet
      <3>3. RecvGets(c) \/ \E s \in Progs : RecvMeets(c, s)
        BY <2>1, <3>1, <3>2, NoAltStaged, RecvEffect
      <3>. QED
        BY <3>3 DEF Effect
    <2>4. ASSUME NEW c \in Chans, RecvBlock(p, c) PROVE Effect
      <3>1. Blocks(p, {}, {c})
        BY <1>1, <2>1, <2>4, RecvBlockEffect
      <3>2. {} \in SUBSET Chans /\ {c} \in SUBSET Chans
        OBVIOUS
      <3>. QED
        BY <3>1, <3>2, Zenon DEF Effect
    <2>5. ASSUME NEW c \in Chans, NEW m \in Fresh, Send(p, c, m) PROVE Effect
      <3>1. isend(p, c, m, NoAlt, sendq, recvq)
        BY <2>5 DEF Send
      <3>2. recvq[c] # <<>> => Head(recvq[c]) # p
        <4>1. Holds(recvq[c], Receivers[c])
          BY DEF Exact, HoldAll
        <4>. QED
          BY <2>2, <4>1, HoldsTail
      <3>3. SendPuts(c, m) \/ \E r \in Progs : SendMeets(c, m, r)
        BY <2>1, <3>1, <3>2, NoAltStaged, SendEffect
      <3>. QED
        BY <3>3 DEF Effect
    <2>6. ASSUME NEW c \in Chans, NEW m \in Fresh, SendBlock(p, c, m) PROVE Effect
      <3>1. Blocks(p, {c}, {})
        BY <1>1, <2>1, <2>6, SendBlockEffect
      <3>2. {} \in SUBSET Chans /\ {c} \in SUBSET Chans
        OBVIOUS
      <3>. QED
        BY <3>1, <3>2, Zenon DEF Effect
    <2>7. ASSUME NEW a \in Alts, NEW m \in IF a.send = <<>> THEN {NoMsg} ELSE Fresh, Alt(p, a, m) PROVE Effect
      <3>1. CASE AltNone(p, a)
        <4>1. Staged(p, a, altadd(sendq, a.send, p), altadd(recvq, a.recv, p))
          BY <2>1, AltStaged
        <4>2. Stay
          BY <2>1, <3>1, <4>1, AloneStays DEF AltNone
        <4>3. NothingDone
          BY <3>1, <4>2 DEF AltNone, NothingDone
        <4>. QED
          BY <4>3 DEF Effect
      <3>2. CASE AltBlock(p, a, m)
        <4>1. Blocks(p, ToSet(a.send), ToSet(a.recv)) /\ ToSet(a.send) \subseteq Chans /\ ToSet(a.recv) \subseteq Chans
          BY <1>1, <2>1, <3>2, AltBlockEffect
        <4>. QED
          BY <4>1, Zenon DEF Effect
      <3>3. CASE ~SameChan(a, altadd(recvq, a.recv, p), p) /\ AltComm(p, a, m)
        <4>1. \E c \in Chans : \/ a.send # <<>> /\ (SendPuts(c, m) \/ \E r \in Progs : SendMeets(c, m, r))
                               \/ RecvGets(c) \/ \E s \in Progs : RecvMeets(c, s)
          BY <2>1, <3>3, AltCommEffect
        <4>2. a.send # <<>> => m \in Fresh
          OBVIOUS
        <4>. QED
          BY <4>1, <4>2, Zenon DEF Effect
      <3>. QED
        BY <2>7, <3>1, <3>2, <3>3 DEF Alt
    <2>. QED
      BY <1>4, <2>3, <2>4, <2>5, <2>6, <2>7, Zenon DEF Instruction
  <1>. QED
    BY <1>2, <1>3, <1>4

-----------------------------------------------------------------------------
(* The effects keep the invariant.                                         *)

\* r leaves: the others wait for what they waited for.
LEMMA LeaveKeeps ==
  ASSUME NEW r, NEW s, Fields, Leave(r, s)
  PROVE  /\ Senders' = [d \in Chans |-> Senders[d] \ {r}] /\ Receivers' = [d \in Chans |-> Receivers[d] \ {r}]
         /\ Fields' /\ Exact' /\ fault' = "none"
         /\ r \in Progs /\ msg' = [msg EXCEPT ![r] = NoMsg]
  <1>1. \A q \in Progs \ {r} : pstate'[q] = pstate[q] /\ chan'[q] = chan[q] /\ alt'[q] = alt[q] /\ msg'[q] = msg[q]
    BY DEF Leave, Fields
  <1>2. pstate'[r] = s /\ s \notin Waiting /\ r \in Progs /\ msg'[r] = NoMsg
    BY DEF Leave, Fields, Waiting
  <1>3. ASSUME NEW q \in Progs, NEW d \in Chans
        PROVE  /\ WaitsToSend(q, d)' <=> q # r /\ WaitsToSend(q, d)
               /\ WaitsToRecv(q, d)' <=> q # r /\ WaitsToRecv(q, d)
    <2>1. CASE q = r
      BY <2>1, <1>2 DEF WaitsToSend, WaitsToRecv, Waiting
    <2>2. CASE q # r
      BY <2>2, <1>1 DEF WaitsToSend, WaitsToRecv
    <2>. QED
      BY <2>1, <2>2
  <1>4. Senders' = [d \in Chans |-> Senders[d] \ {r}] /\ Receivers' = [d \in Chans |-> Receivers[d] \ {r}]
    BY <1>3 DEF Senders, Receivers
  <1>5. Exact'
    BY <1>4 DEF Leave, Exact
  <1>6. /\ pstate' \in [Progs -> {"ready", "exited"} \cup Waiting]
        /\ chan' \in [Progs -> Chans \cup {NoChan}]
        /\ alt' \in [Progs -> Alts \cup {NoAlt}]
        /\ msg' \in [Progs -> Msgs \cup {NoMsg}]
    BY DEF Leave, Fields
  <1>7. \A q \in Progs : msg'[q] # NoMsg => pstate'[q] \in {"send", "alt"}
    BY <1>1, <1>2 DEF Fields
  <1>8. \A q \in Progs, c \in Chans : WaitsToSend(q, c)' => msg'[q] \in Msgs
    BY <1>1, <1>3 DEF Fields
  <1>. QED
    BY <1>2, <1>4, <1>5, <1>6, <1>7, <1>8 DEF Fields, Leave

\* Nobody leaves or joins.
LEMMA StayKeeps ==
  ASSUME Fields, Stay
  PROVE  Senders' = Senders /\ Receivers' = Receivers /\ Fields' /\ Exact' /\ fault' = "none" /\ msg' = msg
  <1>1. Senders' = Senders /\ Receivers' = Receivers
    BY DEF Stay, Senders, Receivers, WaitsToSend, WaitsToRecv
  <1>. QED
    BY <1>1 DEF Stay, Fields, Exact, WaitsToSend, WaitsToRecv

\* p joins those who wait.
LEMMA BlocksKeeps ==
  ASSUME NEW p, NEW S, NEW R, Fields, Blocks(p, S, R)
  PROVE  /\ Senders' = [d \in Chans |-> IF d \in S THEN Senders[d] \cup {p} ELSE Senders[d]]
         /\ Receivers' = [d \in Chans |-> IF d \in R THEN Receivers[d] \cup {p} ELSE Receivers[d]]
         /\ Fields' /\ Exact' /\ fault' = "none"
         /\ p \in Progs /\ msg[p] = NoMsg
         /\ \E m \in Fresh \cup {NoMsg} : msg' = [msg EXCEPT ![p] = m]
  <1>1. PICK s \in Waiting, x \in Chans \cup {NoChan}, a \in Alts \cup {NoAlt}, m \in Fresh \cup {NoMsg} :
       /\ pstate' = [pstate EXCEPT ![p] = s]
       /\ chan' = [chan EXCEPT ![p] = x]
       /\ alt' = [alt EXCEPT ![p] = a]
       /\ msg' = [msg EXCEPT ![p] = m]
       /\ m # NoMsg => s \in {"send", "alt"}
       /\ S # {} => m \in Msgs
       /\ \A d \in Chans :
            /\ d \in S <=> (s = "send" /\ x = d) \/ (s = "alt" /\ d \in ToSet(a.send))
            /\ d \in R <=> (s = "recv" /\ x = d) \/ (s = "alt" /\ d \in ToSet(a.recv))
    BY Zenon DEF Blocks
  <1>2. p \in Progs /\ pstate[p] = "ready"
    BY DEF Blocks
  <1>3. \A q \in Progs \ {p} : pstate'[q] = pstate[q] /\ chan'[q] = chan[q] /\ alt'[q] = alt[q] /\ msg'[q] = msg[q]
    BY <1>1, <1>2 DEF Fields
  <1>4. pstate'[p] = s /\ chan'[p] = x /\ alt'[p] = a /\ msg'[p] = m
    BY <1>1, <1>2 DEF Fields
  <1>5. ASSUME NEW q \in Progs, NEW d \in Chans
        PROVE  /\ WaitsToSend(q, d)' <=> WaitsToSend(q, d) \/ (q = p /\ d \in S)
               /\ WaitsToRecv(q, d)' <=> WaitsToRecv(q, d) \/ (q = p /\ d \in R)
    <2>1. CASE q = p
      <3>1. ~WaitsToSend(q, d) /\ ~WaitsToRecv(q, d)
        BY <2>1, <1>2 DEF WaitsToSend, WaitsToRecv
      <3>2. /\ WaitsToSend(q, d)' <=> (s = "send" /\ x = d) \/ (s = "alt" /\ d \in ToSet(a.send))
            /\ WaitsToRecv(q, d)' <=> (s = "recv" /\ x = d) \/ (s = "alt" /\ d \in ToSet(a.recv))
        BY <2>1, <1>4 DEF WaitsToSend, WaitsToRecv
      <3>. QED
        BY <2>1, <3>1, <3>2, <1>1
    <2>2. CASE q # p
      BY <2>2, <1>3 DEF WaitsToSend, WaitsToRecv
    <2>. QED
      BY <2>1, <2>2
  <1>6. Senders' = [d \in Chans |-> IF d \in S THEN Senders[d] \cup {p} ELSE Senders[d]]
    BY <1>2, <1>5 DEF Senders
  <1>7. Receivers' = [d \in Chans |-> IF d \in R THEN Receivers[d] \cup {p} ELSE Receivers[d]]
    BY <1>2, <1>5 DEF Receivers
  <1>8. Exact' /\ fault' = "none"
    BY <1>6, <1>7 DEF Blocks, Exact
  <1>9. /\ pstate' \in [Progs -> {"ready", "exited"} \cup Waiting]
        /\ chan' \in [Progs -> Chans \cup {NoChan}]
        /\ alt' \in [Progs -> Alts \cup {NoAlt}]
        /\ msg' \in [Progs -> Msgs \cup {NoMsg}]
    BY <1>1 DEF Fields, Fresh
  <1>10. \A q \in Progs : msg'[q] # NoMsg => pstate'[q] \in {"send", "alt"}
    BY <1>1, <1>3, <1>4 DEF Fields
  <1>11. ASSUME NEW q \in Progs, NEW c \in Chans, WaitsToSend(q, c)' PROVE msg'[q] \in Msgs
    <2>1. CASE q = p
      <3>1. c \in S
        BY <2>1, <1>2, <1>5, <1>11 DEF WaitsToSend
      <3>. QED
        BY <2>1, <3>1, <1>1, <1>4
    <2>2. CASE q # p
      BY <2>2, <1>3, <1>5, <1>11 DEF Fields
    <2>. QED
      BY <2>1, <2>2
  <1>12. msg[p] = NoMsg
    BY <1>2 DEF Fields
  <1>13. \E n \in Fresh \cup {NoMsg} : msg' = [msg EXCEPT ![p] = n]
    BY <1>1
  <1>. QED
    BY <1>2, <1>6, <1>7, <1>8, <1>9, <1>10, <1>11, <1>12, <1>13 DEF Fields

\* NoneMissed in terms of who waits.
NobodyMissed ==
  \A c \in Chans :
    /\ Receivers[c] # {} => size[c] = 0 /\ Senders[c] = {}
    /\ Senders[c] # {} => size[c] = Cap[c]

\* The two say the same of exact queues,
LEMMA MissedSets == Exact => (NoneMissed <=> NobodyMissed)
  <1>1. ASSUME Exact, NEW c \in Chans
        PROVE  (sendq[c] = <<>> <=> Senders[c] = {}) /\ (recvq[c] = <<>> <=> Receivers[c] = {})
    <2>1. Holds(sendq[c], Senders[c]) /\ Holds(recvq[c], Receivers[c])
      BY <1>1 DEF Exact, HoldAll
    <2>. QED
      BY <2>1, HoldsEmpty
  <1>. QED
    BY <1>1 DEF NoneMissed, NobodyMissed

\* in the next state too.
LEMMA MissedSets2 == Exact' => (NoneMissed' <=> NobodyMissed')
  BY MissedSets, PTL

-----------------------------------------------------------------------------
(* The buffers.                                                            *)

\* The slot f of the buffer of c gets x, the others are as they were.
SlotSet(c, f, x) ==
  \A k \in Msgs : \A d, i : InSlot(k, d, i)' <=> IF d = c /\ i = f THEN k = x ELSE InSlot(k, d, i)

\* One slot of one buffer is written.
LEMMA WriteSlot ==
  ASSUME NEW c \in Chans, NEW f \in 0..(Cap[c] - 1), NEW x, Buffers,
         DOMAIN ring' = Chans, ring'[c] = [ring[c] EXCEPT ![f] = x],
         \A d \in Chans \ {c} : ring'[d] = ring[d]
  PROVE  SlotSet(c, f, x)
  <1>1. ring[c] \in [0..(Cap[c] - 1) -> Msgs \cup {NoMsg}]
    BY DEF Buffers, Buffer
  <1>2. ring'[c][f] = x /\ \A i \in 0..(Cap[c] - 1) : i # f => ring'[c][i] = ring[c][i]
    BY <1>1
  <1>3. SUFFICES ASSUME NEW k \in Msgs, NEW d, NEW i
                 PROVE  InSlot(k, d, i)' <=> IF d = c /\ i = f THEN k = x ELSE InSlot(k, d, i)
    BY DEF SlotSet
  <1>4. CASE d = c /\ i = f
    BY <1>2, <1>4 DEF InSlot
  <1>5. CASE d = c /\ i # f
    BY <1>2, <1>5 DEF InSlot
  <1>6. CASE d # c
    BY <1>6 DEF InSlot
  <1>. QED
    BY <1>4, <1>5, <1>6

\* The other buffers are as they were.
LEMMA OtherBuffers ==
  ASSUME NEW c \in Chans, Buffers, Buffer(c)',
         DOMAIN ring' = Chans, size' \in [Chans -> Int], front' \in [Chans -> Int],
         \A d \in Chans \ {c} : ring'[d] = ring[d] /\ front'[d] = front[d] /\ size'[d] = size[d]
  PROVE  Buffers'
  <1>1. ASSUME NEW d \in Chans PROVE Buffer(d)'
    <2>1. CASE d = c
      BY <2>1
    <2>2. CASE d # c
      <3>1. Buffer(d) /\ ring'[d] = ring[d] /\ front'[d] = front[d] /\ size'[d] = size[d]
        BY <2>2 DEF Buffers
      <3>2. ASSUME NEW i PROVE InUse(d, i)' <=> InUse(d, i)
        BY <3>1 DEF InUse
      <3>. QED
        BY <3>1, <3>2 DEF Buffer
    <2>. QED
      BY <2>1, <2>2
  <1>2. \A d \in Chans : size'[d] \in Nat /\ front'[d] \in Nat
    BY <1>1, ChanAssumption DEF Buffer
  <1>3. size' \in [Chans -> Nat] /\ front' \in [Chans -> Nat]
    BY <1>2
  <1>. QED
    BY <1>1, <1>2, <1>3 DEF Buffers

\* cgetb takes the oldest message out.
LEMMA GetKeeps ==
  ASSUME NEW c \in Chans, Buffers, CANGET(c), Get(c)
  PROVE  /\ Buffers' /\ size'[c] = size[c] - 1 /\ \A d \in Chans \ {c} : size'[d] = size[d]
         /\ SlotSet(c, front[c], NoMsg) /\ InSlot(cgetb(c), c, front[c]) /\ cgetb(c) \in Msgs
  <1>1. PICK n \in Nat, z \in Nat, f \in Nat : n = Cap[c] /\ z = size[c] /\ f = front[c]
    BY ChanAssumption DEF Buffers
  <1>2. /\ z <= n /\ z > 0 /\ f < n
        /\ ring[c] \in [0..(n - 1) -> Msgs \cup {NoMsg}]
        /\ \A i \in 0..(n - 1) : ring[c][i] # NoMsg <=> InUse(c, i)
    <2>1. Buffer(c)
      BY DEF Buffers
    <2>. QED
      BY <2>1, <1>1 DEF Buffer, CANGET
  <1>3. DOMAIN ring = Chans /\ size \in [Chans -> Nat] /\ front \in [Chans -> Nat]
    BY DEF Buffers
  <1>4. /\ ring' = [ring EXCEPT ![c][f] = NoMsg]
        /\ front' = [front EXCEPT ![c] = Advance(c)]
        /\ size' = [size EXCEPT ![c] = @ - 1]
    BY <1>1 DEF Get
  <1>5. /\ ring'[c] = [ring[c] EXCEPT ![f] = NoMsg]
        /\ size'[c] = z - 1 /\ front'[c] = IF f + 1 = n THEN 0 ELSE f + 1
        /\ DOMAIN ring' = Chans /\ size' \in [Chans -> Int] /\ front' \in [Chans -> Int]
        /\ \A d \in Chans \ {c} : ring'[d] = ring[d] /\ front'[d] = front[d] /\ size'[d] = size[d]
    BY <1>1, <1>3, <1>4 DEF Advance
  <1>6. \A i \in 0..(n - 1) : InUse(c, i) <=> IF f + z <= n THEN f <= i /\ i < f + z ELSE f <= i \/ i < f + z - n
    BY <1>1 DEF InUse
  <1>7. f \in 0..(n - 1) /\ InUse(c, f)
    BY <1>2, <1>6
  <1>8. \A i \in 0..(n - 1) : InUse(c, i)' <=> InUse(c, i) /\ i # f
    <2>1. ASSUME NEW i \in 0..(n - 1)
          PROVE InUse(c, i)' <=> IF front'[c] + size'[c] <= n THEN front'[c] <= i /\ i < front'[c] + size'[c]
                                 ELSE front'[c] <= i \/ i < front'[c] + size'[c] - n
      BY <1>1 DEF InUse
    <2>2. CASE f + 1 = n
      <3>1. front'[c] = 0 /\ size'[c] = z - 1
        BY <2>2, <1>5
      <3>2. ASSUME NEW i \in 0..(n - 1)
            PROVE  InUse(c, i)' <=> i < z - 1
        <4>1. InUse(c, i)' <=> IF 0 + (z - 1) <= n THEN 0 <= i /\ i < 0 + (z - 1) ELSE 0 <= i \/ i < 0 + (z - 1) - n
          BY <2>1, <3>1
        <4>. QED
          BY <4>1, <1>2
      <3>. QED
        BY <3>2, <2>2, <1>2, <1>6
    <2>3. CASE f + 1 # n
      <3>1. front'[c] = f + 1 /\ size'[c] = z - 1
        BY <2>3, <1>5
      <3>2. ASSUME NEW i \in 0..(n - 1)
            PROVE  InUse(c, i)' <=> IF f + z <= n THEN f + 1 <= i /\ i < f + z ELSE f + 1 <= i \/ i < f + z - n
        <4>1. InUse(c, i)' <=> IF (f + 1) + (z - 1) <= n THEN f + 1 <= i /\ i < (f + 1) + (z - 1)
                               ELSE f + 1 <= i \/ i < (f + 1) + (z - 1) - n
          BY <2>1, <3>1
        <4>. QED
          BY <4>1, <1>2
      <3>3. CASE f + z <= n
        BY <3>2, <3>3, <1>2, <1>6
      <3>4. CASE ~(f + z <= n)
        BY <3>2, <3>4, <1>2, <1>6
      <3>. QED
        BY <3>3, <3>4
    <2>. QED
      BY <2>2, <2>3
  <1>9. ring[c][f] # NoMsg /\ cgetb(c) = ring[c][f] /\ cgetb(c) \in Msgs
    BY <1>1, <1>2, <1>7 DEF cgetb
  <1>10. Buffer(c)'
    <2>1. size'[c] \in 0..n /\ front'[c] \in Nat /\ front'[c] < n
      BY <1>2, <1>5
    <2>2. ring'[c] \in [0..(n - 1) -> Msgs \cup {NoMsg}]
      BY <1>2, <1>5
    <2>3. \A i \in 0..(n - 1) : ring'[c][i] # NoMsg <=> InUse(c, i)'
      BY <1>2, <1>5, <1>8
    <2>. QED
      BY <2>1, <2>2, <2>3, <1>1 DEF Buffer
  <1>11. Buffers'
    BY <1>5, <1>10, OtherBuffers
  <1>12. SlotSet(c, front[c], NoMsg)
    BY <1>1, <1>5, <1>7, WriteSlot
  <1>. QED
    BY <1>1, <1>5, <1>7, <1>9, <1>11, <1>12 DEF InSlot

\* cputb puts a message into the first free slot.
LEMMA PutKeeps ==
  ASSUME NEW c \in Chans, NEW m \in Msgs, Buffers, CANPUT(c), Put(c, m)
  PROVE  /\ Buffers' /\ size'[c] = size[c] + 1 /\ \A d \in Chans \ {c} : size'[d] = size[d]
         /\ \E f \in 0..(Cap[c] - 1) : SlotSet(c, f, m) /\ \A k \in Msgs : ~InSlot(k, c, f)
  <1>1. PICK n \in Nat, z \in Nat, f \in Nat : n = Cap[c] /\ z = size[c] /\ f = front[c]
    BY ChanAssumption DEF Buffers
  <1>2. /\ z < n /\ f < n
        /\ ring[c] \in [0..(n - 1) -> Msgs \cup {NoMsg}]
        /\ \A i \in 0..(n - 1) : ring[c][i] # NoMsg <=> InUse(c, i)
    <2>1. Buffer(c)
      BY DEF Buffers
    <2>. QED
      BY <2>1, <1>1 DEF Buffer, CANPUT
  <1>3. DOMAIN ring = Chans /\ size \in [Chans -> Nat] /\ front \in [Chans -> Nat]
    BY DEF Buffers
  <1>4. PICK g \in 0..(n - 1) : g = IF f + z >= n THEN f + z - n ELSE f + z
    <2>1. (IF f + z >= n THEN f + z - n ELSE f + z) \in 0..(n - 1)
      BY <1>2
    <2>. QED
      BY <2>1
  <1>5. ring' = [ring EXCEPT ![c][g] = m] /\ front' = front /\ size' = [size EXCEPT ![c] = @ + 1]
    BY <1>1, <1>4 DEF Put, Slot
  <1>6. /\ ring'[c] = [ring[c] EXCEPT ![g] = m]
        /\ size'[c] = z + 1 /\ front'[c] = f
        /\ DOMAIN ring' = Chans /\ size' \in [Chans -> Int] /\ front' \in [Chans -> Int]
        /\ \A d \in Chans \ {c} : ring'[d] = ring[d] /\ front'[d] = front[d] /\ size'[d] = size[d]
    BY <1>1, <1>3, <1>5
  <1>7. \A i \in 0..(n - 1) : InUse(c, i) <=> IF f + z <= n THEN f <= i /\ i < f + z ELSE f <= i \/ i < f + z - n
    BY <1>1 DEF InUse
  <1>8. ~InUse(c, g)
    BY <1>2, <1>4, <1>7
  <1>9. \A i \in 0..(n - 1) : InUse(c, i)' <=> InUse(c, i) \/ i = g
    <2>1. ASSUME NEW i \in 0..(n - 1)
          PROVE InUse(c, i)' <=> IF front'[c] + size'[c] <= n THEN front'[c] <= i /\ i < front'[c] + size'[c]
                                 ELSE front'[c] <= i \/ i < front'[c] + size'[c] - n
      BY <1>1 DEF InUse
    <2>. QED
      BY <2>1, <1>2, <1>4, <1>6, <1>7
  <1>10. \A k \in Msgs : ~InSlot(k, c, g)
    BY <1>2, <1>8, ChanAssumption DEF InSlot
  <1>11. Buffer(c)'
    <2>1. size'[c] \in 0..n /\ front'[c] \in Nat /\ front'[c] < n
      BY <1>2, <1>6
    <2>2. ring'[c] \in [0..(n - 1) -> Msgs \cup {NoMsg}]
      BY <1>2, <1>6
    <2>3. \A i \in 0..(n - 1) : ring'[c][i] # NoMsg <=> InUse(c, i)'
      BY <1>2, <1>6, <1>9, ChanAssumption
    <2>. QED
      BY <2>1, <2>2, <2>3, <1>1 DEF Buffer
  <1>12. Buffers'
    BY <1>6, <1>11, OtherBuffers
  <1>13. SlotSet(c, g, m)
    BY <1>1, <1>6, WriteSlot
  <1>. QED
    BY <1>1, <1>6, <1>10, <1>12, <1>13

\* Of a full buffer the oldest message is taken, and the sender's goes into its slot.
LEMMA GetPutKeeps ==
  ASSUME NEW c \in Chans, NEW m \in Msgs, Buffers, Cap[c] > 0, size[c] = Cap[c], GetPut(c, m)
  PROVE  /\ Buffers' /\ size' = size
         /\ SlotSet(c, front[c], m) /\ InSlot(cgetb(c), c, front[c]) /\ cgetb(c) \in Msgs
  <1>1. PICK n \in Nat, f \in Nat : n = Cap[c] /\ n = size[c] /\ f = front[c]
    BY ChanAssumption DEF Buffers
  <1>2. /\ n > 0 /\ f < n
        /\ ring[c] \in [0..(n - 1) -> Msgs \cup {NoMsg}]
        /\ \A i \in 0..(n - 1) : ring[c][i] # NoMsg <=> InUse(c, i)
    <2>1. Buffer(c)
      BY DEF Buffers
    <2>. QED
      BY <2>1, <1>1 DEF Buffer
  <1>3. DOMAIN ring = Chans /\ size \in [Chans -> Nat] /\ front \in [Chans -> Nat]
    BY DEF Buffers
  <1>4. PICK g \in 0..(n - 1) : g = IF f + 1 = n THEN 0 ELSE f + 1
    BY <1>2
  <1>5. Advance(c) = g
    BY <1>1, <1>4 DEF Advance
  <1>6. (IF g + (n - 1) >= n THEN g + (n - 1) - n ELSE g + (n - 1)) = f
    BY <1>2, <1>4
  <1>7. Slot(c, Advance(c), size[c] - 1) = f
    BY <1>1, <1>5, <1>6 DEF Slot
  <1>8. /\ front' = [front EXCEPT ![c] = g]
        /\ ring' = [ring EXCEPT ![c] = [[@ EXCEPT ![f] = NoMsg] EXCEPT ![f] = m]]
        /\ size' = size
    BY <1>1, <1>5, <1>7 DEF GetPut
  <1>9. /\ ring'[c] = [ring[c] EXCEPT ![f] = m]
        /\ size'[c] = n /\ front'[c] = g
        /\ DOMAIN ring' = Chans /\ size' \in [Chans -> Int] /\ front' \in [Chans -> Int]
        /\ \A d \in Chans \ {c} : ring'[d] = ring[d] /\ front'[d] = front[d] /\ size'[d] = size[d]
    <2>1. ring'[c] = [[ring[c] EXCEPT ![f] = NoMsg] EXCEPT ![f] = m]
      BY <1>3, <1>8
    <2>2. [[ring[c] EXCEPT ![f] = NoMsg] EXCEPT ![f] = m] = [ring[c] EXCEPT ![f] = m]
      BY <1>2
    <2>3. DOMAIN ring' = Chans /\ \A d \in Chans \ {c} : ring'[d] = ring[d]
      BY <1>3, <1>8
    <2>4. size'[c] = n /\ front'[c] = g /\ size' \in [Chans -> Int] /\ front' \in [Chans -> Int]
      BY <1>1, <1>3, <1>8
    <2>5. \A d \in Chans \ {c} : front'[d] = front[d] /\ size'[d] = size[d]
      BY <1>3, <1>8
    <2>. QED
      BY <2>1, <2>2, <2>3, <2>4, <2>5
  <1>10. f \in 0..(n - 1) /\ \A i \in 0..(n - 1) : InUse(c, i) /\ InUse(c, i)'
    <2>1. f \in 0..(n - 1)
      BY <1>2
    <2>2. \A i \in 0..(n - 1) : InUse(c, i) <=> IF f + n <= n THEN f <= i /\ i < f + n ELSE f <= i \/ i < f + n - n
      BY <1>1 DEF InUse
    <2>3. \A i \in 0..(n - 1) : InUse(c, i)
      BY <2>1, <2>2
    <2>4. \A i \in 0..(n - 1) : InUse(c, i)' <=> IF g + n <= n THEN g <= i /\ i < g + n ELSE g <= i \/ i < g + n - n
      BY <1>1, <1>9 DEF InUse
    <2>5. \A i \in 0..(n - 1) : InUse(c, i)'
      BY <2>4
    <2>. QED
      BY <2>1, <2>3, <2>5
  <1>11. ring[c][f] # NoMsg /\ cgetb(c) = ring[c][f] /\ cgetb(c) \in Msgs
    BY <1>1, <1>2, <1>10 DEF cgetb
  <1>12. Buffer(c)'
    <2>1. size'[c] \in 0..n /\ front'[c] \in Nat /\ front'[c] < n
      BY <1>2, <1>9
    <2>2. ring'[c] \in [0..(n - 1) -> Msgs \cup {NoMsg}]
      BY <1>2, <1>9
    <2>3. \A i \in 0..(n - 1) : ring'[c][i] # NoMsg <=> InUse(c, i)'
      BY <1>2, <1>9, <1>10, ChanAssumption
    <2>. QED
      BY <2>1, <2>2, <2>3, <1>1 DEF Buffer
  <1>13. Buffers'
    BY <1>9, <1>12, OtherBuffers
  <1>14. SlotSet(c, front[c], m)
    BY <1>1, <1>9, <1>10, WriteSlot
  <1>. QED
    BY <1>1, <1>8, <1>10, <1>11, <1>13, <1>14 DEF InSlot

-----------------------------------------------------------------------------
(* Every effect keeps NoneMissed, the buffers, and each message single.    *)

\* A fresh message is nowhere.
LEMMA FreshNowhere ==
  ASSUME NEW m \in Fresh
  PROVE  /\ m \in Msgs /\ m # NoMsg /\ got[m] = 0
         /\ \A p : ~With(m, p)
         /\ \A c, i : ~InSlot(m, c, i)
  <1>1. m \in Msgs /\ got[m] = 0 /\ (\A p \in Progs : msg[p] # m) /\ \A c \in Chans : m \notin InBuf(c)
    BY DEF Fresh
  <1>2. m # NoMsg
    BY <1>1, ChanAssumption
  <1>3. \A c, i : ~InSlot(m, c, i)
    BY <1>1, <1>2 DEF InSlot, InBuf
  <1>. QED
    BY <1>1, <1>2, <1>3 DEF With

\* The state predicates that every effect is shown to keep.
Kept == Fields' /\ Buffers' /\ Exact' /\ NobodyMissed' /\ fault' = "none" /\ Singles'

\* Where a message can be found.
Somewhere(m) == (\E p : With(m, p)) \/ (\E c, i : InSlot(m, c, i)) \/ got[m] # 0

\* No message is lost, but for those that are withdrawn.
NoneLost == \A m \in Msgs : Somewhere(m) => Somewhere(m)' \/ Withdrawn(m)

\* The buffers stay as they are.
LEMMA SameBuffers ==
  ASSUME Buffers, UNCHANGED bvars
  PROVE  Buffers' /\ size' = size /\ \A k, d, i : InSlot(k, d, i)' <=> InSlot(k, d, i)
  BY DEF bvars, Buffers, Buffer, InUse, InSlot

\* The messages of progs.
LEMMA WithSet ==
  ASSUME NEW r \in Progs, NEW x, Fields, msg' = [msg EXCEPT ![r] = x]
  PROVE  \A k, q : With(k, q)' <=> IF q = r THEN k = x ELSE With(k, q)
  BY DEF With, Fields

\* A message is received.
LEMMA GotOne ==
  ASSUME Singles, NEW m \in Msgs, got[m] = 0, Received(m)
  PROVE  DOMAIN got' = Msgs /\ got'[m] = 1 /\ \A k \in Msgs : k # m => got'[k] = got[k]
  BY DEF Singles, Single, Received

\* A sender meets a receiver.
LEMMA SendMeetsKeeps ==
  ASSUME NEW c \in Chans, NEW m \in Fresh, NEW r \in Progs, IInv, SendMeets(c, m, r)
  PROVE  Kept /\ NoneLost
  <1>1. /\ Senders' = [d \in Chans |-> Senders[d] \ {r}] /\ Receivers' = [d \in Chans |-> Receivers[d] \ {r}]
        /\ Fields' /\ Exact' /\ fault' = "none" /\ msg' = [msg EXCEPT ![r] = NoMsg]
    BY LeaveKeeps DEF IInv, SendMeets
  <1>2. Buffers' /\ size' = size /\ \A k, d, i : InSlot(k, d, i)' <=> InSlot(k, d, i)
    BY SameBuffers DEF IInv, SendMeets
  <1>3. NobodyMissed'
    <2>1. NobodyMissed
      BY MissedSets DEF IInv
    <2>. QED
      BY <1>1, <1>2, <2>1 DEF NobodyMissed
  <1>4. /\ m \in Msgs /\ m # NoMsg /\ got[m] = 0
        /\ \A p : ~With(m, p)
        /\ \A d, i : ~InSlot(m, d, i)
    BY FreshNowhere
  <1>5. \A k, q : With(k, q)' <=> IF q = r THEN k = NoMsg ELSE With(k, q)
    BY <1>1, WithSet DEF IInv
  <1>6. DOMAIN got' = Msgs /\ got'[m] = 1 /\ \A k \in Msgs : k # m => got'[k] = got[k]
    BY <1>4, GotOne DEF IInv, SendMeets
  <1>7. ASSUME NEW k \in Msgs PROVE Single(k)'
    <2>1. Single(k) /\ k # NoMsg
      BY ChanAssumption DEF IInv, Singles
    <2>2. CASE k = m
      BY <2>1, <2>2, <1>2, <1>4, <1>5, <1>6 DEF Single
    <2>3. CASE k # m
      BY <2>1, <2>3, <1>2, <1>5, <1>6 DEF Single
    <2>. QED
      BY <2>2, <2>3
  <1>8. ASSUME NEW k \in Msgs, Somewhere(k) PROVE Somewhere(k)' \/ Withdrawn(k)
    <2>1. CASE With(k, r)
      <3>1. msg[r] = k /\ msg'[r] = NoMsg /\ on' = c /\ WaitsToRecv(r, c)
        BY <2>1, <1>1, OnQueues DEF With, SendMeets, IInv, Fields
      <3>2. m \in Msgs \ {k} /\ got'[m] > got[m]
        BY <2>1, <1>4, <1>6
      <3>. QED
        BY <3>1, <3>2 DEF Withdrawn
    <2>2. CASE ~With(k, r)
      <3>1. (\E q : With(k, q)) => \E q : With(k, q)'
        BY <2>2, <1>5
      <3>2. (\E d, i : InSlot(k, d, i)) => \E d, i : InSlot(k, d, i)'
        BY <1>2
      <3>3. got[k] # 0 => got'[k] # 0
        BY <1>4, <1>6
      <3>. QED
        BY <1>8, <3>1, <3>2, <3>3 DEF Somewhere
    <2>. QED
      BY <2>1, <2>2
  <1>. QED
    BY <1>1, <1>2, <1>3, <1>6, <1>7, <1>8 DEF Kept, Singles, NoneLost

\* A sender finds room in the buffer.
LEMMA SendPutsKeeps ==
  ASSUME NEW c \in Chans, NEW m \in Fresh, IInv, SendPuts(c, m)
  PROVE  Kept /\ NoneLost
  <1>1. Senders' = Senders /\ Receivers' = Receivers /\ Fields' /\ Exact' /\ fault' = "none" /\ msg' = msg
    BY StayKeeps DEF IInv, SendPuts
  <1>2. /\ m \in Msgs /\ m # NoMsg /\ got[m] = 0
        /\ \A p : ~With(m, p)
        /\ \A d, i : ~InSlot(m, d, i)
    BY FreshNowhere
  <1>3. /\ Buffers' /\ size'[c] = size[c] + 1 /\ \A d \in Chans \ {c} : size'[d] = size[d]
        /\ \E f \in 0..(Cap[c] - 1) : SlotSet(c, f, m) /\ \A k \in Msgs : ~InSlot(k, c, f)
    BY <1>2, PutKeeps DEF IInv, SendPuts
  <1>4. PICK f \in 0..(Cap[c] - 1) : SlotSet(c, f, m) /\ \A k \in Msgs : ~InSlot(k, c, f)
    BY <1>3
  <1>5. NobodyMissed'
    <2>1. NobodyMissed
      BY MissedSets DEF IInv
    <2>2. Receivers[c] = {} /\ Senders[c] = {}
      <3>1. Receivers[c] = {} /\ size[c] < Cap[c] /\ size[c] \in Nat /\ Cap[c] \in Nat
        BY ChanAssumption DEF SendPuts, CANPUT, IInv, Buffers
      <3>. QED
        BY <3>1, <2>1 DEF NobodyMissed
    <2>. QED
      BY <1>1, <1>3, <2>1, <2>2 DEF NobodyMissed
  <1>6. \A k, q : With(k, q)' <=> With(k, q)
    BY <1>1 DEF With
  <1>7. got' = got /\ DOMAIN got = Msgs
    BY DEF SendPuts, IInv, Singles
  <1>8. ASSUME NEW k \in Msgs PROVE Single(k)'
    <2>1. Single(k) /\ k # NoMsg
      BY ChanAssumption DEF IInv, Singles
    <2>2. \A d, i : InSlot(k, d, i)' <=> IF d = c /\ i = f THEN k = m ELSE InSlot(k, d, i)
      BY <1>4 DEF SlotSet
    <2>3. CASE k = m
      BY <2>1, <2>2, <2>3, <1>2, <1>6, <1>7 DEF Single
    <2>4. CASE k # m
      BY <2>1, <2>2, <2>4, <1>6, <1>7 DEF Single
    <2>. QED
      BY <2>3, <2>4
  <1>9. ASSUME NEW k \in Msgs, Somewhere(k) PROVE Somewhere(k)'
    <2>1. (\E d, i : InSlot(k, d, i)) => \E d, i : InSlot(k, d, i)'
      BY <1>4 DEF SlotSet
    <2>2. (\E q : With(k, q)) => \E q : With(k, q)'
      BY <1>6
    <2>. QED
      BY <1>9, <2>1, <2>2, <1>7 DEF Somewhere
  <1>. QED
    BY <1>1, <1>3, <1>5, <1>7, <1>8, <1>9 DEF Kept, Singles, NoneLost

\* A receiver takes the oldest message of the buffer.
LEMMA RecvGetsKeeps ==
  ASSUME NEW c \in Chans, IInv, RecvGets(c)
  PROVE  Kept /\ NoneLost
  <1>1. Senders' = Senders /\ Receivers' = Receivers /\ Fields' /\ Exact' /\ fault' = "none" /\ msg' = msg
    BY StayKeeps DEF IInv, RecvGets
  <1>2. PICK f \in {front[c]}, x \in Msgs : f = front[c] /\ x = cgetb(c) /\ SlotSet(c, f, NoMsg) /\ InSlot(x, c, f)
    BY GetKeeps DEF IInv, RecvGets
  <1>3. Buffers' /\ size'[c] = size[c] - 1 /\ \A d \in Chans \ {c} : size'[d] = size[d]
    BY GetKeeps DEF IInv, RecvGets
  <1>4. NobodyMissed'
    <2>1. NobodyMissed
      BY MissedSets DEF IInv
    <2>2. Senders[c] = {} /\ Receivers[c] = {}
      <3>1. Senders[c] = {} /\ size[c] # 0
        BY DEF RecvGets, CANGET
      <3>. QED
        BY <3>1, <2>1 DEF NobodyMissed
    <2>. QED
      BY <1>1, <1>3, <2>1, <2>2 DEF NobodyMissed
  <1>5. \A k, q : With(k, q)' <=> With(k, q)
    BY <1>1 DEF With
  <1>6. got[x] = 0 /\ Single(x) /\ \A q : ~With(x, q)
    BY <1>2 DEF IInv, Singles, Single
  <1>7. DOMAIN got' = Msgs /\ got'[x] = 1 /\ \A k \in Msgs : k # x => got'[k] = got[k]
    BY <1>2, <1>6, GotOne DEF IInv, RecvGets
  <1>8. ASSUME NEW k \in Msgs
        PROVE  Single(k) /\ \A d, i : InSlot(k, d, i)' <=> ~(d = c /\ i = f) /\ InSlot(k, d, i)
    BY <1>2, ChanAssumption DEF SlotSet, IInv, Singles
  <1>9. ASSUME NEW k \in Msgs PROVE Single(k)'
    <2>1. CASE k = x
      <3>1. \A d, i : ~InSlot(k, d, i)'
        BY <2>1, <1>2, <1>8 DEF Single
      <3>. QED
        BY <2>1, <3>1, <1>5, <1>6, <1>7 DEF Single
    <2>2. CASE k # x
      BY <2>2, <1>5, <1>7, <1>8 DEF Single
    <2>. QED
      BY <2>1, <2>2
  <1>10. ASSUME NEW k \in Msgs, Somewhere(k) PROVE Somewhere(k)'
    <2>1. CASE k = x
      BY <2>1, <1>7 DEF Somewhere
    <2>2. CASE k # x
      <3>1. ASSUME NEW d, NEW i, InSlot(k, d, i) PROVE ~(d = c /\ i = f)
        BY <3>1, <2>2, <1>2 DEF InSlot
      <3>2. (\E d, i : InSlot(k, d, i)) => \E d, i : InSlot(k, d, i)'
        BY <3>1, <1>8
      <3>3. (\E q : With(k, q)) => \E q : With(k, q)'
        BY <1>5
      <3>. QED
        BY <1>10, <2>2, <3>2, <3>3, <1>7 DEF Somewhere
    <2>. QED
      BY <2>1, <2>2
  <1>. QED
    BY <1>1, <1>3, <1>4, <1>7, <1>9, <1>10 DEF Kept, Singles, NoneLost

\* A receiver meets a sender, whose message goes into the buffer if there is one.
LEMMA RecvMeetsKeeps ==
  ASSUME NEW c \in Chans, NEW s \in Progs, IInv, RecvMeets(c, s)
  PROVE  Kept /\ NoneLost
  <1>1. /\ Senders' = [d \in Chans |-> Senders[d] \ {s}] /\ Receivers' = [d \in Chans |-> Receivers[d] \ {s}]
        /\ Fields' /\ Exact' /\ fault' = "none" /\ msg' = [msg EXCEPT ![s] = NoMsg]
    BY LeaveKeeps DEF IInv, RecvMeets
  <1>2. \A k, q : With(k, q)' <=> IF q = s THEN k = NoMsg ELSE With(k, q)
    BY <1>1, WithSet DEF IInv
  <1>3. sendq[c] # <<>> /\ s \in Senders[c]
    <2>1. Holds(sendq[c], Senders[c])
      BY DEF IInv, Exact, HoldAll
    <2>. QED
      BY <2>1, HoldsTail DEF RecvMeets
  <1>4. PICK y \in Msgs : y = msg[s]
    BY <1>3, OnQueues DEF IInv, Fields
  <1>5. size[c] = Cap[c]
    BY <1>3 DEF IInv, NoneMissed
  <1>6. y # NoMsg /\ With(y, s) /\ Single(y) /\ got[y] = 0 /\ \A d, i : ~InSlot(y, d, i)
    BY <1>4, ChanAssumption DEF With, IInv, Singles, Single
  <1>7. NobodyMissed /\ (size' = size => NobodyMissed')
    <2>1. NobodyMissed
      BY MissedSets DEF IInv
    <2>. QED
      BY <1>1, <2>1 DEF NobodyMissed
  <1>8. CASE Cap[c] > 0
    <2>1. Received(cgetb(c)) /\ GetPut(c, y)
      BY <1>4, <1>8 DEF RecvMeets
    <2>2. /\ Buffers' /\ size' = size
          /\ SlotSet(c, front[c], y) /\ InSlot(cgetb(c), c, front[c]) /\ cgetb(c) \in Msgs
      BY <1>5, <1>8, <2>1, GetPutKeeps DEF IInv
    <2>3. PICK f \in {front[c]}, x \in Msgs : f = front[c] /\ x = cgetb(c) /\ SlotSet(c, f, y) /\ InSlot(x, c, f)
      BY <2>2
    <2>4. x # y /\ Single(x) /\ got[x] = 0 /\ (\A q : ~With(x, q)) /\ \A d, i : InSlot(x, d, i) => d = c /\ i = f
      BY <2>3, <1>6 DEF IInv, Singles, Single
    <2>5. DOMAIN got' = Msgs /\ got'[x] = 1 /\ \A k \in Msgs : k # x => got'[k] = got[k]
      BY <2>1, <2>3, <2>4, GotOne DEF IInv
    <2>6. ASSUME NEW k \in Msgs
          PROVE  /\ Single(k) /\ k # NoMsg
                 /\ \A d, i : InSlot(k, d, i)' <=> IF d = c /\ i = f THEN k = y ELSE InSlot(k, d, i)
      BY <2>3, ChanAssumption DEF SlotSet, IInv, Singles
    <2>7. ASSUME NEW k \in Msgs PROVE Single(k)'
      <3>1. CASE k = x
        <4>1. (\A d, i : ~InSlot(k, d, i)') /\ \A q : ~With(k, q)'
          BY <3>1, <1>2, <2>4, <2>6
        <4>. QED
          BY <3>1, <4>1, <2>5 DEF Single
      <3>2. CASE k = y
        <4>1. \A d, i : InSlot(k, d, i)' <=> d = c /\ i = f
          BY <3>2, <1>6, <2>6
        <4>2. \A q : ~With(k, q)'
          BY <3>2, <1>2, <1>6 DEF Single
        <4>3. got'[k] = 0
          BY <3>2, <1>6, <2>4, <2>5
        <4>. QED
          BY <4>1, <4>2, <4>3 DEF Single
      <3>3. CASE k # x /\ k # y
        BY <3>3, <1>2, <2>5, <2>6 DEF Single
      <3>. QED
        BY <3>1, <3>2, <3>3
    <2>8. ASSUME NEW k \in Msgs, Somewhere(k) PROVE Somewhere(k)'
      <3>1. CASE k = x
        BY <3>1, <2>5 DEF Somewhere
      <3>2. CASE k = y
        BY <3>2, <2>6 DEF Somewhere
      <3>3. CASE k # x /\ k # y
        <4>1. ASSUME NEW d, NEW i, InSlot(k, d, i) PROVE ~(d = c /\ i = f)
          BY <4>1, <3>3, <2>3 DEF InSlot
        <4>2. (\E d, i : InSlot(k, d, i)) => \E d, i : InSlot(k, d, i)'
          BY <4>1, <2>6
        <4>3. ~With(k, s)
          BY <3>3, <1>4 DEF With
        <4>4. (\E q : With(k, q)) => \E q : With(k, q)'
          BY <4>3, <1>2
        <4>. QED
          BY <2>8, <3>3, <4>2, <4>4, <2>5 DEF Somewhere
      <3>. QED
        BY <3>1, <3>2, <3>3
    <2>. QED
      BY <1>1, <1>7, <2>2, <2>5, <2>7, <2>8 DEF Kept, Singles, NoneLost
  <1>9. CASE ~(Cap[c] > 0)
    <2>1. Received(y) /\ UNCHANGED bvars
      BY <1>4, <1>9 DEF RecvMeets
    <2>2. Buffers' /\ size' = size /\ \A k, d, i : InSlot(k, d, i)' <=> InSlot(k, d, i)
      BY <2>1, SameBuffers DEF IInv
    <2>3. DOMAIN got' = Msgs /\ got'[y] = 1 /\ \A k \in Msgs : k # y => got'[k] = got[k]
      BY <2>1, <1>6, GotOne DEF IInv
    <2>4. ASSUME NEW k \in Msgs PROVE Single(k)'
      <3>1. Single(k) /\ k # NoMsg
        BY ChanAssumption DEF IInv, Singles
      <3>2. CASE k = y
        <4>1. (\A d, i : ~InSlot(k, d, i)') /\ \A q : ~With(k, q)'
          BY <3>2, <1>2, <1>6, <2>2 DEF Single
        <4>. QED
          BY <3>2, <4>1, <2>3 DEF Single
      <3>3. CASE k # y
        BY <3>1, <3>3, <1>2, <2>2, <2>3 DEF Single
      <3>. QED
        BY <3>2, <3>3
    <2>5. ASSUME NEW k \in Msgs, Somewhere(k) PROVE Somewhere(k)'
      <3>1. CASE k = y
        BY <3>1, <2>3 DEF Somewhere
      <3>2. CASE k # y
        <4>1. ~With(k, s)
          BY <3>2, <1>4 DEF With
        <4>2. (\E q : With(k, q)) => \E q : With(k, q)'
          BY <4>1, <1>2
        <4>3. (\E d, i : InSlot(k, d, i)) => \E d, i : InSlot(k, d, i)'
          BY <2>2
        <4>. QED
          BY <2>5, <3>2, <4>2, <4>3, <2>3 DEF Somewhere
      <3>. QED
        BY <3>1, <3>2
    <2>. QED
      BY <1>1, <1>7, <2>2, <2>3, <2>4, <2>5 DEF Kept, Singles, NoneLost
  <1>. QED
    BY <1>8, <1>9

\* A prog starts to wait.
LEMMA BlocksKeep ==
  ASSUME NEW p \in Progs, NEW S \in SUBSET Chans, NEW R \in SUBSET Chans, IInv, Blocks(p, S, R)
  PROVE  Kept /\ NoneLost
  <1>1. /\ Senders' = [d \in Chans |-> IF d \in S THEN Senders[d] \cup {p} ELSE Senders[d]]
        /\ Receivers' = [d \in Chans |-> IF d \in R THEN Receivers[d] \cup {p} ELSE Receivers[d]]
        /\ Fields' /\ Exact' /\ fault' = "none" /\ msg[p] = NoMsg
        /\ \E m \in Fresh \cup {NoMsg} : msg' = [msg EXCEPT ![p] = m]
    BY BlocksKeeps DEF IInv
  <1>2. Buffers' /\ size' = size /\ \A k, d, i : InSlot(k, d, i)' <=> InSlot(k, d, i)
    BY SameBuffers DEF IInv, Blocks
  <1>3. NobodyMissed'
    <2>1. NobodyMissed
      BY MissedSets DEF IInv
    <2>2. \A d \in S : Receivers[d] = {} /\ size[d] = Cap[d] /\ d \notin R
      <3>1. ASSUME NEW d \in S PROVE size[d] = Cap[d]
        <4>1. size[d] \in 0..Cap[d] /\ Cap[d] \in Nat /\ ~(size[d] < Cap[d])
          BY ChanAssumption DEF IInv, Buffers, Buffer, Blocks, CANPUT
        <4>. QED
          BY <4>1
      <3>. QED
        BY <3>1 DEF Blocks
    <2>3. \A d \in R : Senders[d] = {} /\ size[d] = 0
      <3>1. ASSUME NEW d \in R PROVE size[d] = 0
        <4>1. size[d] \in Nat /\ ~(size[d] > 0)
          BY DEF IInv, Buffers, Blocks, CANGET
        <4>. QED
          BY <4>1
      <3>. QED
        BY <3>1 DEF Blocks
    <2>4. ASSUME NEW d \in Chans
          PROVE  /\ Receivers'[d] # {} => size'[d] = 0 /\ Senders'[d] = {}
                 /\ Senders'[d] # {} => size'[d] = Cap[d]
      <3>1. /\ Receivers[d] # {} => size[d] = 0 /\ Senders[d] = {}
            /\ Senders[d] # {} => size[d] = Cap[d]
        BY <2>1 DEF NobodyMissed
      <3>2. CASE d \in S
        BY <3>1, <3>2, <1>1, <1>2, <2>2
      <3>3. CASE d \in R
        BY <3>1, <3>3, <1>1, <1>2, <2>2, <2>3
      <3>4. CASE d \notin S /\ d \notin R
        BY <3>1, <3>4, <1>1, <1>2
      <3>. QED
        BY <3>2, <3>3, <3>4
    <2>. QED
      BY <2>4 DEF NobodyMissed
  <1>4. PICK m \in Fresh \cup {NoMsg} : msg' = [msg EXCEPT ![p] = m]
    BY <1>1
  <1>5. \A k, q : With(k, q)' <=> IF q = p THEN k = m ELSE With(k, q)
    BY <1>4, WithSet DEF IInv
  <1>6. got' = got /\ DOMAIN got = Msgs
    BY DEF Blocks, IInv, Singles
  <1>7. ASSUME NEW k \in Msgs PROVE Single(k)'
    <2>1. Single(k) /\ k # NoMsg
      BY ChanAssumption DEF IInv, Singles
    <2>2. CASE k = m
      <3>1. got[k] = 0 /\ (\A q : ~With(k, q)) /\ \A d, i : ~InSlot(k, d, i)
        BY <2>1, <2>2, FreshNowhere
      <3>. QED
        BY <2>1, <2>2, <3>1, <1>2, <1>5, <1>6 DEF Single
    <2>3. CASE k # m
      BY <2>1, <2>3, <1>2, <1>5, <1>6 DEF Single
    <2>. QED
      BY <2>2, <2>3
  <1>8. ASSUME NEW k \in Msgs, Somewhere(k) PROVE Somewhere(k)'
    <2>1. ~With(k, p)
      BY <1>1, ChanAssumption DEF With
    <2>2. (\E q : With(k, q)) => \E q : With(k, q)'
      BY <2>1, <1>5
    <2>3. (\E d, i : InSlot(k, d, i)) => \E d, i : InSlot(k, d, i)'
      BY <1>2
    <2>. QED
      BY <1>8, <2>2, <2>3, <1>6 DEF Somewhere
  <1>. QED
    BY <1>1, <1>2, <1>3, <1>6, <1>7, <1>8 DEF Kept, Singles, NoneLost

\* A prog is interrupted, and takes its message with it.
LEMMA InterruptedKeeps ==
  ASSUME NEW r \in Progs, NEW s, IInv, Interrupted(r, s)
  PROVE  Kept /\ NoneLost
  <1>1. /\ Senders' = [d \in Chans |-> Senders[d] \ {r}] /\ Receivers' = [d \in Chans |-> Receivers[d] \ {r}]
        /\ Fields' /\ Exact' /\ fault' = "none" /\ msg' = [msg EXCEPT ![r] = NoMsg]
    BY LeaveKeeps DEF IInv, Interrupted
  <1>2. Buffers' /\ size' = size /\ \A k, d, i : InSlot(k, d, i)' <=> InSlot(k, d, i)
    BY SameBuffers DEF IInv, Interrupted
  <1>3. NobodyMissed'
    <2>1. NobodyMissed
      BY MissedSets DEF IInv
    <2>. QED
      BY <1>1, <1>2, <2>1 DEF NobodyMissed
  <1>4. \A k, q : With(k, q)' <=> IF q = r THEN k = NoMsg ELSE With(k, q)
    BY <1>1, WithSet DEF IInv
  <1>5. got' = got /\ DOMAIN got = Msgs /\ on' = NoChan
    BY DEF Interrupted, IInv, Singles
  <1>6. ASSUME NEW k \in Msgs PROVE Single(k)'
    <2>1. Single(k) /\ k # NoMsg
      BY ChanAssumption DEF IInv, Singles
    <2>. QED
      BY <2>1, <1>2, <1>4, <1>5 DEF Single
  <1>7. ASSUME NEW k \in Msgs, Somewhere(k) PROVE Somewhere(k)' \/ Withdrawn(k)
    <2>1. CASE With(k, r)
      <3>1. msg[r] = k /\ msg'[r] = NoMsg
        BY <2>1, <1>1 DEF With, IInv, Fields
      <3>. QED
        BY <3>1, <1>5 DEF Withdrawn
    <2>2. CASE ~With(k, r)
      <3>1. (\E q : With(k, q)) => \E q : With(k, q)'
        BY <2>2, <1>4
      <3>2. (\E d, i : InSlot(k, d, i)) => \E d, i : InSlot(k, d, i)'
        BY <1>2
      <3>. QED
        BY <1>7, <3>1, <3>2, <1>5 DEF Somewhere
    <2>. QED
      BY <2>1, <2>2
  <1>. QED
    BY <1>1, <1>2, <1>3, <1>5, <1>6, <1>7 DEF Kept, Singles, NoneLost

\* An alt that does nothing leaves all as it was.
LEMMA NothingKeeps ==
  ASSUME IInv, NothingDone
  PROVE  Kept /\ NoneLost
  <1>1. Senders' = Senders /\ Receivers' = Receivers /\ Fields' /\ Exact' /\ fault' = "none" /\ msg' = msg
    BY StayKeeps DEF IInv, NothingDone
  <1>2. Buffers' /\ size' = size /\ \A k, d, i : InSlot(k, d, i)' <=> InSlot(k, d, i)
    BY SameBuffers DEF IInv, NothingDone
  <1>3. NobodyMissed'
    <2>1. NobodyMissed
      BY MissedSets DEF IInv
    <2>. QED
      BY <1>1, <1>2, <2>1 DEF NobodyMissed
  <1>4. got' = got /\ DOMAIN got = Msgs /\ \A k, q : With(k, q)' <=> With(k, q)
    BY <1>1 DEF NothingDone, IInv, Singles, With
  <1>5. \A k \in Msgs : Single(k)'
    BY <1>2, <1>4 DEF IInv, Singles, Single
  <1>6. \A k \in Msgs : Somewhere(k) => Somewhere(k)'
    BY <1>2, <1>4 DEF Somewhere
  <1>. QED
    BY <1>1, <1>2, <1>3, <1>4, <1>5, <1>6 DEF Kept, Singles, NoneLost

-----------------------------------------------------------------------------
(* The theorems.                                                           *)

\* Every effect, and so every step, keeps the invariant and loses no message.
LEMMA EffectKeeps ==
  ASSUME IInv, Effect
  PROVE  Kept /\ NoneLost
  <1>1. CASE \E c \in Chans, m \in Fresh : SendPuts(c, m) \/ \E r \in Progs : SendMeets(c, m, r)
    BY <1>1, SendPutsKeeps, SendMeetsKeeps
  <1>2. CASE \E c \in Chans : RecvGets(c) \/ \E s \in Progs : RecvMeets(c, s)
    BY <1>2, RecvGetsKeeps, RecvMeetsKeeps
  <1>3. CASE \E p \in Progs, S, R \in SUBSET Chans : Blocks(p, S, R)
    BY <1>3, BlocksKeep
  <1>4. CASE \E r \in Progs, s \in {"ready", "exited"} : Interrupted(r, s)
    BY <1>4, InterruptedKeeps
  <1>5. CASE NothingDone
    BY <1>5, NothingKeeps
  <1>. QED
    BY <1>1, <1>2, <1>3, <1>4, <1>5 DEF Effect

\* Every step keeps the invariant.
LEMMA Inductive == PlainAlts /\ IInv /\ [Next]_vars => IInv'
  <1>1. ASSUME PlainAlts, IInv, Next PROVE IInv'
    <2>1. Kept
      BY <1>1, StepEffect, EffectKeeps DEF IInv
    <2>2. NoneMissed'
      BY <2>1, MissedSets2 DEF Kept
    <2>. QED
      BY <2>1, <2>2 DEF Kept, IInv
  <1>2. ASSUME IInv, UNCHANGED vars PROVE IInv'
    <2>1. /\ UNCHANGED <<sendq, recvq, pstate, chan, alt, msg, got, fault>> /\ UNCHANGED bvars
      BY <1>2 DEF vars, bvars
    <2>2. Senders' = Senders /\ Receivers' = Receivers
      BY <2>1 DEF Senders, Receivers, WaitsToSend, WaitsToRecv
    <2>3. Fields' /\ Exact'
      BY <1>2, <2>1, <2>2 DEF IInv, Fields, Exact, WaitsToSend, WaitsToRecv
    <2>4. Buffers' /\ size' = size /\ \A k, d, i : InSlot(k, d, i)' <=> InSlot(k, d, i)
      BY <1>2, <2>1, SameBuffers DEF IInv
    <2>5. NoneMissed' /\ fault' = "none"
      BY <1>2, <2>1, <2>4 DEF IInv, NoneMissed
    <2>6. Singles'
      BY <1>2, <2>1, <2>4 DEF IInv, Singles, Single, With
    <2>. QED
      BY <2>3, <2>4, <2>5, <2>6 DEF IInv
  <1>. QED
    BY <1>1, <1>2

\* It holds at the start: nobody waits and nothing has been sent.
LEMMA InitIInv == Init => IInv
  <1>1. ASSUME Init PROVE IInv
    <2>1. \A p \in Progs, c \in Chans : ~WaitsToSend(p, c) /\ ~WaitsToRecv(p, c)
      BY <1>1 DEF Init, WaitsToSend, WaitsToRecv
    <2>2. Fields
      BY <1>1, <2>1 DEF Init, Fields, Waiting
    <2>3. Buffers
      <3>1. size \in [Chans -> Nat] /\ front \in [Chans -> Nat] /\ DOMAIN ring = Chans
        BY <1>1 DEF Init
      <3>2. ASSUME NEW c \in Chans PROVE Buffer(c)
        <4>1. PICK n \in Nat : n = Cap[c]
          BY ChanAssumption
        <4>2. size[c] = 0 /\ front[c] = 0 /\ ring[c] = [i \in 0..(n - 1) |-> NoMsg]
          BY <1>1, <4>1 DEF Init
        <4>3. \A i \in 0..(n - 1) : ~InUse(c, i)
          BY <4>1, <4>2 DEF InUse
        <4>. QED
          BY <4>1, <4>2, <4>3 DEF Buffer
      <3>. QED
        BY <3>1, <3>2 DEF Buffers
    <2>4. Exact
      <3>1. Senders = [c \in Chans |-> {}] /\ Receivers = [c \in Chans |-> {}]
        BY <2>1 DEF Senders, Receivers
      <3>2. Holds(<<>>, {})
        BY EmptyIn DEF Holds, Distinct
      <3>. QED
        BY <1>1, <3>1, <3>2 DEF Init, Exact, HoldAll
    <2>5. NoneMissed /\ fault = "none"
      BY <1>1 DEF Init, NoneMissed
    <2>6. Singles
      <3>1. ASSUME NEW m \in Msgs PROVE got[m] = 0 /\ (\A p : ~With(m, p)) /\ \A c, i : ~InSlot(m, c, i)
        <4>1. got[m] = 0 /\ m # NoMsg
          BY <1>1, ChanAssumption DEF Init
        <4>2. \A p : ~With(m, p)
          BY <1>1, <4>1 DEF Init, With
        <4>3. \A c, i : ~InSlot(m, c, i)
          BY <1>1, <4>1 DEF Init, InSlot
        <4>. QED
          BY <4>1, <4>2, <4>3
      <3>2. DOMAIN got = Msgs
        BY <1>1 DEF Init
      <3>. QED
        BY <3>1, <3>2 DEF Singles, Single
    <2>. QED
      BY <2>2, <2>3, <2>4, <2>5, <2>6 DEF IInv
  <1>. QED
    BY <1>1

\* The invariant holds in every state; no alt breaks the VM.
THEOREM Invariance == PlainAlts => (Spec => []IInv)
  <1>1. ASSUME PlainAlts PROVE Spec => []IInv
    <2>1. IInv /\ [Next]_vars => IInv'
      BY <1>1, Inductive
    <2>. QED
      BY <2>1, InitIInv, PTL DEF Spec
  <1>. QED
    BY <1>1

\* On the queue of a channel are those who wait for it.
LEMMA ExactQueues == IInv => QueuesExact
  <1>1. ASSUME IInv, NEW c \in Chans
        PROVE  /\ Distinct(sendq[c]) /\ Distinct(recvq[c])
               /\ \A p \in Progs : (p \in ToSet(sendq[c]) <=> WaitsToSend(p, c)) /\ (p \in ToSet(recvq[c]) <=> WaitsToRecv(p, c))
    <2>1. Holds(sendq[c], Senders[c]) /\ Holds(recvq[c], Receivers[c])
      BY <1>1 DEF IInv, Exact, HoldAll
    <2>2. Distinct(sendq[c]) /\ Distinct(recvq[c]) /\ sendq[c] \in Seq(Progs) /\ recvq[c] \in Seq(Progs)
      BY <2>1 DEF Holds
    <2>3. ASSUME NEW p \in Progs
          PROVE  (p \in ToSet(sendq[c]) <=> WaitsToSend(p, c)) /\ (p \in ToSet(recvq[c]) <=> WaitsToRecv(p, c))
      <3>1. (p \in ToSet(sendq[c]) <=> In(p, sendq[c])) /\ (p \in ToSet(recvq[c]) <=> In(p, recvq[c]))
        BY <2>2, InToSet
      <3>2. (In(p, sendq[c]) <=> p \in Senders[c]) /\ (In(p, recvq[c]) <=> p \in Receivers[c])
        BY <2>1 DEF Holds
      <3>. QED
        BY <3>1, <3>2, OnQueues
    <2>. QED
      BY <2>2, <2>3
  <1>. QED
    BY <1>1 DEF QueuesExact

\* A prog is on the queues of the channels it waits for, once on each, and on no
\* others: neither a completed alt, a kill nor an exception leaves it behind.
THEOREM QueuesExactTheorem == PlainAlts => (Spec => []QueuesExact)
  <1>1. ASSUME PlainAlts PROVE Spec => []QueuesExact
    BY <1>1, Invariance, ExactQueues, PTL
  <1>. QED
    BY <1>1

\* No receiver waits on a channel that has a message or a sender, and no sender on
\* one whose buffer has room.
THEOREM NoneMissedTheorem == PlainAlts => (Spec => []NoneMissed)
  <1>1. IInv => NoneMissed
    BY DEF IInv
  <1>2. ASSUME PlainAlts PROVE Spec => []NoneMissed
    BY <1>1, <1>2, Invariance, PTL
  <1>. QED
    BY <1>2

\* altcomm always finds the ready channel that altrdy counted, and taking an alt
\* off its queues never loses a queue.
THEOREM AltSoundTheorem == PlainAlts => (Spec => []AltSound)
  <1>1. IInv => AltSound
    BY DEF IInv, AltSound, PicksReady, QueuesIntact
  <1>2. ASSUME PlainAlts PROVE Spec => []AltSound
    BY <1>1, <1>2, Invariance, PTL
  <1>. QED
    BY <1>2

-----------------------------------------------------------------------------
(* Where the messages are.                                                 *)

\* Places counts a message once, if it is somewhere.
PlacesRight == \A m \in Msgs : Places(m) = IF Somewhere(m) THEN 1 ELSE 0

\* It does, when each message is single.
LEMMA PlacesCount == IInv => PlacesRight
  <1>1. SUFFICES ASSUME IInv, NEW m \in Msgs PROVE Places(m) = IF Somewhere(m) THEN 1 ELSE 0
    BY DEF PlacesRight
  <1>. DEFINE W == {p \in Progs : msg[p] = m}
              U == UNION {{c} \X {i \in DOMAIN ring[c] : ring[c][i] = m} : c \in Chans}
  <1>2. \A p : p \in W <=> With(m, p)
    BY DEF With
  <1>3. \A c \in Chans : DOMAIN ring[c] = 0..(Cap[c] - 1)
    BY <1>1 DEF IInv, Buffers, Buffer
  <1>4. \A x : x \in U <=> \E c, i : x = <<c, i>> /\ InSlot(m, c, i)
    <2>1. ASSUME NEW x \in U PROVE \E c, i : x = <<c, i>> /\ InSlot(m, c, i)
      <3>1. PICK c \in Chans : x \in {c} \X {i \in DOMAIN ring[c] : ring[c][i] = m}
        BY <2>1
      <3>2. PICK i \in DOMAIN ring[c] : x = <<c, i>> /\ ring[c][i] = m
        BY <3>1
      <3>. QED
        BY <3>2, <1>3 DEF InSlot
    <2>2. ASSUME NEW c, NEW i, InSlot(m, c, i) PROVE <<c, i>> \in U
      <3>1. c \in Chans /\ i \in DOMAIN ring[c] /\ ring[c][i] = m
        BY <2>2, <1>3 DEF InSlot
      <3>2. <<c, i>> \in {c} \X {j \in DOMAIN ring[c] : ring[c][j] = m}
        BY <3>1
      <3>. QED
        BY <3>1, <3>2
    <2>. QED
      BY <2>1, <2>2
  <1>5. Places(m) = Cardinality(W) + Cardinality(U) + got[m]
    BY DEF Places
  <1>6. Single(m)
    BY <1>1 DEF IInv, Singles
  <1>. HIDE DEF W, U
  <1>7. CASE \E p : With(m, p)
    <2>1. PICK p : With(m, p)
      BY <1>7
    <2>2. W = {p} /\ U = {} /\ got[m] = 0
      BY <2>1, <1>2, <1>4, <1>6 DEF Single
    <2>3. Cardinality(W) = 1 /\ Cardinality(U) = 0
      BY <2>2, FS_Singleton, FS_EmptySet
    <2>. QED
      BY <2>2, <2>3, <1>5, <1>7 DEF Somewhere
  <1>8. CASE \E c, i : InSlot(m, c, i)
    <2>1. PICK c, i : InSlot(m, c, i)
      BY <1>8
    <2>2. W = {} /\ got[m] = 0
      BY <2>1, <1>2, <1>6 DEF Single
    <2>3. U = {<<c, i>>}
      <3>1. \A d, j : InSlot(m, d, j) => d = c /\ j = i
        BY <2>1, <1>6 DEF Single
      <3>. QED
        BY <2>1, <3>1, <1>4
    <2>4. Cardinality(W) = 0 /\ Cardinality(U) = 1
      BY <2>2, <2>3, FS_Singleton, FS_EmptySet
    <2>. QED
      BY <2>2, <2>4, <1>5, <1>8 DEF Somewhere
  <1>9. CASE ~(\E p : With(m, p)) /\ ~(\E c, i : InSlot(m, c, i))
    <2>1. W = {} /\ U = {}
      BY <1>2, <1>4, <1>9
    <2>2. Cardinality(W) = 0 /\ Cardinality(U) = 0
      BY <2>1, FS_EmptySet
    <2>3. got[m] \in {0, 1}
      BY <1>6 DEF Single
    <2>. QED
      BY <2>2, <2>3, <1>5, <1>9 DEF Somewhere
  <1>. QED
    BY <1>7, <1>8, <1>9

\* A message is never in two places, and leaves the system only with a sender that
\* is killed or gets an exception.
THEOREM ConservedTheorem == PlainAlts => (Spec => Conserved)
  <1>. DEFINE Step == \A m \in Msgs : Places(m)' <= 1 /\ (Places(m) > 0 => Places(m)' > 0 \/ Withdrawn(m))
  <1>1. ASSUME PlainAlts, IInv, PlacesRight, PlacesRight', Next PROVE Step
    <2>1. NoneLost
      BY <1>1, StepEffect, EffectKeeps DEF IInv
    <2>2. ASSUME NEW m \in Msgs
          PROVE  Places(m)' <= 1 /\ (Places(m) > 0 => Places(m)' > 0 \/ Withdrawn(m))
      <3>1. Places(m) = IF Somewhere(m) THEN 1 ELSE 0
        BY <1>1 DEF PlacesRight
      <3>2. Places(m)' = IF Somewhere(m)' THEN 1 ELSE 0
        BY <1>1 DEF PlacesRight
      <3>3. Somewhere(m) => Somewhere(m)' \/ Withdrawn(m)
        BY <2>1 DEF NoneLost
      <3>. QED
        BY <3>1, <3>2, <3>3
    <2>. QED
      BY <2>2
  <1>2. ASSUME PlainAlts PROVE Spec => Conserved
    <2>. HIDE DEF Step
    <2>1. IInv /\ PlacesRight /\ PlacesRight' /\ [Next]_vars => [Step]_vars
      BY <1>1, <1>2
    <2>2. Spec => [][Step]_vars
      BY <2>1, <1>2, Invariance, PlacesCount, PTL DEF Spec
    <2>. QED
      BY <2>2 DEF Step, Conserved
  <1>. QED
    BY <1>2

-----------------------------------------------------------------------------
(* The order of the messages.                                              *)

\* A list given by its elements.
LEMMA ListOf ==
  ASSUME NEW n \in Nat, NEW S, NEW F \in [1..n -> S]
  PROVE  F \in Seq(S) /\ Len(F) = n
  OBVIOUS

\* The first element of two lists joined.
LEMMA HeadOfTwo ==
  ASSUME NEW S, NEW s \in Seq(S), NEW t \in Seq(S)
  PROVE  /\ s # <<>> => s \o t # <<>> /\ Head(s \o t) = s[1]
         /\ s = <<>> => s \o t = t
         /\ t # <<>> => Head(t) = t[1]
  <1>1. ASSUME s # <<>> PROVE s \o t # <<>> /\ Head(s \o t) = s[1]
    <2>1. 1 \in 1..Len(s) /\ Len(s) \in Nat /\ Len(t) \in Nat
      BY <1>1
    <2>2. s \o t \in Seq(S) /\ Len(s \o t) = Len(s) + Len(t) /\ (s \o t)[1] = s[1]
      BY <2>1, ConcatAt
    <2>3. s \o t # <<>>
      BY <2>1, <2>2, Len(<<>>) = 0
    <2>. QED
      BY <2>2, <2>3
  <1>2. (s = <<>> => s \o t = t) /\ (t # <<>> => Head(t) = t[1])
    OBVIOUS
  <1>. QED
    BY <1>1, <1>2

\* The head of the line of a channel: the oldest message of its buffer, or that of
\* the first sender.
LEMMA LineHead ==
  ASSUME NEW c \in Chans, IInv
  PROVE  /\ size[c] > 0 => Line(c) # <<>> /\ Head(Line(c)) = cgetb(c)
         /\ size[c] = 0 /\ sendq[c] # <<>> => Line(c) # <<>> /\ Head(Line(c)) = msg[Head(sendq[c])]
         /\ size[c] = 0 /\ sendq[c] = <<>> => Line(c) = <<>>
  <1>1. PICK n \in Nat, z \in Nat, f \in Nat : n = Cap[c] /\ z = size[c] /\ f = front[c]
    BY ChanAssumption DEF IInv, Buffers
  <1>2. sendq[c] \in Seq(Progs)
    BY DEF IInv, Exact, HoldAll, Holds
  <1>3. PICK k \in Nat : k = Len(sendq[c])
    BY <1>2
  <1>. DEFINE s == [i \in 1..z |-> ring[c][Slot(c, front[c], i - 1)]]
              t == [i \in 1..k |-> msg[sendq[c][i]]]
              S == {s[i] : i \in 1..z} \cup {t[i] : i \in 1..k}
  <1>4. Line(c) = s \o t
    BY <1>1, <1>3 DEF Line
  <1>5. s \in Seq(S) /\ Len(s) = z
    <2>1. s \in [1..z -> S]
      OBVIOUS
    <2>. HIDE DEF s, S
    <2>. QED
      BY <2>1, ListOf
  <1>6. t \in Seq(S) /\ Len(t) = k
    <2>1. t \in [1..k -> S]
      OBVIOUS
    <2>. HIDE DEF t, S
    <2>. QED
      BY <2>1, ListOf
  <1>7. /\ s # <<>> => s \o t # <<>> /\ Head(s \o t) = s[1]
        /\ s = <<>> => s \o t = t
        /\ t # <<>> => Head(t) = t[1]
    <2>. HIDE DEF s, t, S
    <2>. QED
      BY <1>5, <1>6, HeadOfTwo
  <1>8. (s = <<>> <=> z = 0) /\ (t = <<>> <=> k = 0) /\ (sendq[c] = <<>> <=> k = 0)
    <2>. HIDE DEF s, t, S
    <2>. QED
      BY <1>2, <1>3, <1>5, <1>6
  <1>9. z > 0 => s[1] = cgetb(c)
    <2>1. SUFFICES ASSUME z > 0 PROVE s[1] = cgetb(c)
      OBVIOUS
    <2>2. s[1] = ring[c][Slot(c, front[c], 1 - 1)]
      BY <2>1
    <2>3. z <= n /\ f < n
      <3>1. Buffer(c)
        BY DEF IInv, Buffers
      <3>. QED
        BY <2>1, <3>1, <1>1 DEF Buffer
    <2>4. Slot(c, front[c], 0) = front[c]
      BY <1>1, <2>3 DEF Slot
    <2>. QED
      BY <2>2, <2>4 DEF cgetb
  <1>10. k # 0 => t[1] = msg[Head(sendq[c])]
    <2>1. SUFFICES ASSUME k # 0 PROVE t[1] = msg[Head(sendq[c])]
      OBVIOUS
    <2>2. t[1] = msg[sendq[c][1]]
      BY <2>1
    <2>3. Head(sendq[c]) = sendq[c][1]
      BY <2>1, <1>2, <1>3
    <2>. QED
      BY <2>2, <2>3
  <1>. HIDE DEF s, t, S
  <1>. QED
    BY <1>1, <1>4, <1>7, <1>8, <1>9, <1>10

\* Only the message that is received is received.
LEMMA OnlyOne ==
  ASSUME NEW m \in Msgs, NEW k, Singles, Received(k), got'[m] > got[m]
  PROVE  m = k
  <1>1. got[m] \in {0, 1} /\ (m # k => got'[m] = got[m])
    BY DEF Singles, Single, Received
  <1>. QED
    BY <1>1

\* and none when the history is as it was.
LEMMA SameGot ==
  ASSUME NEW m \in Msgs, Singles, got' = got
  PROVE  ~(got'[m] > got[m])
  <1>1. got[m] \in {0, 1}
    BY DEF Singles, Single
  <1>. QED
    BY <1>1

\* What is received on a channel is the first of its line: the buffer from the
\* front, then the senders in their order.
THEOREM InOrderTheorem == PlainAlts => (Spec => InOrder)
  <1>. DEFINE Step == \A c \in Chans, m \in Msgs :
                        on' = c /\ got'[m] > got[m] =>
                          IF Line(c) # <<>> THEN m = Head(Line(c)) ELSE recvq[c] # <<>>
  <1>1. ASSUME IInv, Effect, NEW c \in Chans, NEW m \in Msgs, on' = c, got'[m] > got[m]
        PROVE  IF Line(c) # <<>> THEN m = Head(Line(c)) ELSE recvq[c] # <<>>
    <2>1. NoChan # c /\ Singles /\ got' # got
      BY <1>1, ChanAssumption, SameGot DEF IInv
    <2>2. \/ \E k \in Fresh, r \in Progs : SendMeets(c, k, r)
          \/ RecvGets(c)
          \/ \E s \in Progs : RecvMeets(c, s)
      <3>1. CASE \E d \in Chans, k \in Fresh : SendPuts(d, k) \/ \E r \in Progs : SendMeets(d, k, r)
        BY <3>1, <2>1, <1>1 DEF SendPuts, SendMeets
      <3>2. CASE \E d \in Chans : RecvGets(d) \/ \E s \in Progs : RecvMeets(d, s)
        BY <3>2, <1>1 DEF RecvGets, RecvMeets
      <3>3. CASE \E p \in Progs, S, R \in SUBSET Chans : Blocks(p, S, R)
        BY <3>3, <2>1, <1>1 DEF Blocks
      <3>4. CASE \E r \in Progs, s \in {"ready", "exited"} : Interrupted(r, s)
        BY <3>4, <2>1, <1>1 DEF Interrupted
      <3>5. CASE NothingDone
        BY <3>5, <2>1, <1>1 DEF NothingDone
      <3>. QED
        BY <1>1, <3>1, <3>2, <3>3, <3>4, <3>5 DEF Effect
    <2>3. /\ size[c] > 0 => Line(c) # <<>> /\ Head(Line(c)) = cgetb(c)
          /\ size[c] = 0 /\ sendq[c] # <<>> => Line(c) # <<>> /\ Head(Line(c)) = msg[Head(sendq[c])]
          /\ size[c] = 0 /\ sendq[c] = <<>> => Line(c) = <<>>
      BY <1>1, LineHead
    <2>4. size[c] \in Nat /\ Cap[c] \in Nat
      BY <1>1, ChanAssumption DEF IInv, Buffers
    <2>5. CASE \E k \in Fresh, r \in Progs : SendMeets(c, k, r)
      <3>1. Receivers[c] # {}
        BY <2>5 DEF SendMeets
      <3>2. Holds(recvq[c], Receivers[c])
        BY <1>1 DEF IInv, Exact, HoldAll
      <3>3. recvq[c] # <<>>
        BY <3>1, <3>2, HoldsEmpty
      <3>4. size[c] = 0 /\ sendq[c] = <<>>
        BY <3>3, <1>1 DEF IInv, NoneMissed
      <3>. QED
        BY <3>3, <3>4, <2>3
    <2>6. CASE RecvGets(c)
      <3>1. size[c] > 0 /\ m = cgetb(c)
        BY <2>6, <2>1, <1>1, OnlyOne DEF RecvGets, CANGET
      <3>. QED
        BY <3>1, <2>3
    <2>7. CASE \E s \in Progs : RecvMeets(c, s)
      <3>1. PICK s \in Progs : RecvMeets(c, s)
        BY <2>7
      <3>2. sendq[c] # <<>> /\ s = Head(sendq[c])
        BY <3>1 DEF RecvMeets
      <3>3. size[c] = Cap[c]
        BY <3>2, <1>1 DEF IInv, NoneMissed
      <3>4. CASE Cap[c] > 0
        <4>1. m = cgetb(c)
          BY <3>1, <3>4, <2>1, <1>1, OnlyOne DEF RecvMeets
        <4>. QED
          BY <4>1, <3>3, <3>4, <2>3
      <3>5. CASE ~(Cap[c] > 0)
        <4>1. m = msg[s]
          BY <3>1, <3>5, <2>1, <1>1, OnlyOne DEF RecvMeets
        <4>2. size[c] = 0
          BY <3>3, <3>5, <2>4
        <4>. QED
          BY <4>1, <4>2, <3>2, <2>3
      <3>. QED
        BY <3>4, <3>5
    <2>. QED
      BY <2>2, <2>5, <2>6, <2>7
  <1>2. ASSUME PlainAlts, IInv, Next PROVE Step
    <2>1. Effect
      BY <1>2, StepEffect DEF IInv
    <2>. QED
      BY <1>1, <1>2, <2>1
  <1>3. ASSUME PlainAlts PROVE Spec => InOrder
    <2>. HIDE DEF Step
    <2>1. IInv /\ [Next]_vars => [Step]_vars
      BY <1>2, <1>3
    <2>2. Spec => [][Step]_vars
      BY <2>1, <1>3, Invariance, PTL DEF Spec
    <2>. QED
      BY <2>2 DEF Step, InOrder
  <1>. QED
    BY <1>3
=============================================================================
