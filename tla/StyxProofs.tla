----------------------------- MODULE StyxProofs -----------------------------
(***************************************************************************)
(* Proofs about a mount and an export joined by a connection, for any      *)
(* number of clients, slaves, calls, tags and interrupts.                  *)
(*                                                                         *)
(* Sides is what each side keeps whatever happens; it is inductive, and    *)
(* Findable, KillHitsItsRequest and GateIsWatched follow from it.  Tagged  *)
(* is what holds of the tags in addition while the connection stands: a    *)
(* tag is in one of six places at most, and of two tags of a call the one  *)
(* sent first is ahead.  Every step moves at most one tag from its place   *)
(* to a further one.  Last, the two sides are shown to implement           *)
(* RpcService, whether the connection breaks or not.                       *)
(***************************************************************************)
EXTENDS Styx, QueueFacts, FiniteSetTheorems

-----------------------------------------------------------------------------
(* The invariant of the server.                                            *)

\* What an Exq holds.
ExqRecs ==
  [tag : Tags, slave : Slaves \cup {NoOne}, busy : BOOLEAN, finished : BOOLEAN,
   shut : BOOLEAN, flush : Seq(TMessages), err : BOOLEAN]

\* The variables of the connection and of the server have their types.
ServerTypes ==
  /\ toSrv \in Seq(TMessages) /\ toMnt \in Seq(RMessages)
  /\ exq \in Seq(Calls) /\ work \in Seq(Calls)
  /\ rec \in [Calls -> ExqRecs]
  /\ spc \in [Slaves -> SPC] /\ job \in [Slaves -> Calls \cup {NoCall}]
  /\ killed \in [Clients \cup Slaves -> BOOLEAN]
  /\ epc \in EPC
  /\ IF epc = "flush" THEN ereq \in TMessages /\ ereq.type = "Tflush" ELSE ereq = NoMsg

\* The call k has been made.
Made(k) == k[2] <= ncalls[k[1]]
\* A slave has the request k.
HasJob(k) == \E s \in Slaves : job[s] = k

\* A call is on the connection, on the queue or with a slave, and there once.
CallInv ==
  /\ \A i \in 1..Len(toSrv) : toSrv[i].type = "T" =>
       /\ Made(toSrv[i].call) /\ ~In(toSrv[i].call, exq) /\ ~HasJob(toSrv[i].call)
       /\ \A j \in 1..Len(toSrv) : toSrv[j].type = "T" /\ toSrv[j].call = toSrv[i].call => i = j
  /\ Distinct(exq) /\ \A k : In(k, exq) => Made(k) /\ ~HasJob(k)
  /\ \A s \in Slaves : job[s] # NoCall => Made(job[s]) /\ \A r \in Slaves : job[r] = job[s] => r = s

\* The slave s has the request k and has come to one of the control points C.
At(s, k, C) == job[s] = k /\ spc[s] \in C
\* A slave has the request k and is at one of the points C.
SomeAt(k, C) == \E s \in Slaves : At(s, k, C)
\* The request is being done: Exq.busy.
Busy == {"fcall", "complete"}
\* The request is with its slave, from the work list to exfree.
Working == {"fcall", "complete", "flushes", "remove"}

\* A slave has a request when it is not waiting for one, holds exq.l when it
\* is to put it on the work list, and is named by it from there on.
SlaveInv ==
  \A s \in Slaves :
    /\ spc[s] = "wait" <=> job[s] = NoCall
    /\ spc[s] = "dispatch" <=> exql = s
    /\ spc[s] \in Working => rec[job[s]].slave = s /\ (In(job[s], work) \/ rec[job[s]].shut)

\* The work list has requests that are with a slave; busy and finished say how
\* far the slave is; flushes wait for a request only while it is with one; and
\* what is shut down is so because the connection is.
RecInv ==
  /\ Distinct(work) /\ \A k : In(k, work) => SomeAt(k, Working)
  /\ \A k \in Calls :
       /\ rec[k].busy <=> SomeAt(k, Busy)
       /\ rec[k].finished <=> SomeAt(k, {"remove"})
       /\ rec[k].flush # <<>> => SomeAt(k, Working)
       /\ rec[k].flush # <<>> /\ rec[k].finished => rec[k].shut
       /\ rec[k].shut => hung
  /\ epc \in {"shut", "gone"} => hung

\* All of it.
ServerInv == ServerTypes /\ CallInv /\ SlaveInv /\ RecInv /\ KillHitsItsRequest
-----------------------------------------------------------------------------
(* The invariant of the mount driver.                                      *)

\* The variables of the mount driver have their types.
MountTypes ==
  /\ cpc \in [Clients -> CPC]
  /\ chain \in [Clients -> Seq(Tags)]
  /\ target \in [Clients -> Tags]
  /\ reply \in [Tags -> RMessages \cup {NoReply}]
  /\ mqueue \in Seq(Tags)
  /\ rip \in Clients \cup {NoOne}
  /\ rpcfree \in Seq(Tags) /\ Len(rpcfree) <= MaxFree
  /\ tagmask \subseteq Tags

\* Calls are counted, so that the bound on them is one on each client's.
CountInv ==
  /\ ncalls \in [Clients -> 0..MaxCalls] /\ DOMAIN outcome = Calls
  /\ \A c \in Clients : \A n \in 1..ncalls[c] : outcome[<<c, n>>] # "none"

\* A tag is with one call, or on rpcfree, or not in use.
TagInv ==
  /\ \A c \in Clients : Distinct(chain[c]) /\ (chain[c] = <<>> <=> cpc[c] = "idle")
  /\ \A c, d \in Clients : \A t : In(t, chain[c]) /\ In(t, chain[d]) => c = d
  /\ Distinct(rpcfree)
  /\ \A c \in Clients : \A t : In(t, chain[c]) => ~In(t, rpcfree) /\ t \in tagmask
  /\ \A t : In(t, rpcfree) => t \in tagmask

\* Mnt.queue has the tags in use that have no reply.
QueueInv ==
  \A t \in Tags :
    /\ In(t, mqueue) <=> ~Done(t) /\ \E c \in Clients : In(t, chain[c])
    /\ Done(t) => \E c \in Clients : In(t, chain[c])

\* The reader is the one Mnt.rip names; who is to return has its reply, and a
\* call fails only when the connection has broken.
RipInv ==
  \A c \in Clients :
    /\ cpc[c] \in {"read", "wake"} => rip = c
    /\ rip = c => cpc[c] \in {"read", "wake", "eintr", "fail"}
    /\ cpc[c] = "return" => Done(Rpc(c))
    /\ cpc[c] = "fail" => hung

\* Who sleeps has no reply, or the reader is about to wake it.
SleepInv ==
  \A d \in Clients : cpc[d] = "asleep" =>
    ~Done(Rpc(d)) \/ \E c \in Clients : cpc[c] = "wake" /\ target[c] = Rpc(d)

\* When nobody reads and some sleep, one is on its way to the gate: who is awake
\* and has its reply leaves without a word to the others.
WatchInv ==
  ~hung /\ rip = NoOne /\ (\E d \in Clients : cpc[d] = "asleep") =>
    \E c \in Clients : cpc[c] \in {"gate", "eintr"} \/ (cpc[c] = "awake" /\ ~Done(Rpc(c)))

\* All of it.
MountInv == MountTypes /\ CountInv /\ TagInv /\ QueueInv /\ RipInv /\ SleepInv /\ WatchInv
-----------------------------------------------------------------------------
(* The invariant of the tags.                                              *)

\* t is the tag of the i-th message on the way to the server,
OnSrv(t, i) == i \in 1..Len(toSrv) /\ toSrv[i].tag = t
\* of a request k that is queued, or taken and not yet on the work list,
OnExq(t, k) == k \in Calls /\ (In(k, exq) \/ SomeAt(k, {"dispatch"})) /\ rec[k].tag = t
\* of the flush exportproc has read,
OnReq(t) == epc = "flush" /\ ereq.tag = t
\* of the request k that a slave is doing or has done,
OnJob(t, k) == k \in Calls /\ SomeAt(k, Busy) /\ rec[k].tag = t
\* of the i-th flush that waits for the request k,
OnList(t, k, i) == k \in Calls /\ i \in 1..Len(rec[k].flush) /\ rec[k].flush[i].tag = t
\* of the i-th message on the way back.
OnMnt(t, i) == i \in 1..Len(toMnt) /\ toMnt[i].tag = t

\* How far along it is, and its place there.
Place(t, m, a) ==
  \/ m = 0 /\ OnSrv(t, a)
  \/ m = 1 /\ a = 0 /\ \E k : OnExq(t, k)
  \/ m = 2 /\ a = 0 /\ OnReq(t)
  \/ m = 3 /\ a = 0 /\ \E k : OnJob(t, k)
  \/ m = 3 /\ \E k : OnList(t, k, a)
  \/ m = 4 /\ OnMnt(t, a)
  \/ m = 5 /\ a = 0 /\ Done(t)

\* A tag is in one place.
Once ==
  \A t \in Tags : \A m, n, a, b : Place(t, m, a) /\ Place(t, n, b) => m = n /\ a = b
\* One queued request has it.
OneExq == \A t, k, l : OnExq(t, k) /\ OnExq(t, l) => k = l

\* t is the tag of a request.
Heads(t) == \E c \in Clients : chain[c] # <<>> /\ chain[c][1] = t
\* t is the tag of a flush of the request with the tag o.
Follows(t, o) == \E c \in Clients : \E i \in 2..Len(chain[c]) : chain[c][i] = t /\ chain[c][1] = o
\* t is in use by a call.
Used(t) == Heads(t) \/ \E o : Follows(t, o)
\* The message m is the request, or a flush of the request, of a call.
Names(m) == IF m.type = "T" THEN Heads(m.tag) ELSE Follows(m.tag, m.oldtag)

\* All that carries a tag carries one in use, and the flushes on a request's
\* list are flushes of it.
Carriers ==
  /\ \A i \in 1..Len(toSrv) : Names(toSrv[i])
  /\ epc = "flush" => Names(ereq)
  /\ \A t, k : OnExq(t, k) \/ OnJob(t, k) => Heads(t)
  /\ \A t, k, i : OnList(t, k, i) => Follows(t, rec[k].tag)
  /\ \A t, i : OnMnt(t, i) => Used(t)

\* t and u are tags of a call, and t was allocated first.
Precedes(t, u) ==
  \E c \in Clients : \E i, j \in 1..Len(chain[c]) : i < j /\ chain[c][i] = t /\ chain[c][j] = u
\* The place (m, a) is ahead of (n, b).
Ahead(m, a, n, b) == m > n \/ (m = n /\ (a < b \/ m = 5))
\* A flush never overtakes its request, nor a flush that was sent before it.
InLine ==
  \A t, u : Precedes(t, u) =>
    \A m, n, a, b : Place(t, m, a) /\ Place(u, n, b) => Ahead(m, a, n, b)

\* x comes before y in s.
Before(x, y, s) == \E i, j \in 1..Len(s) : i < j /\ s[i] = x /\ s[j] = y
\* The request k is one that a flush can be for.
Live(k) == SomeAt(k, Busy) \/ rec[k].flush # <<>>
\* Such a request is the first on the work list with its tag.
LiveFirst ==
  \A k, l \in Calls : In(k, work) /\ In(l, work) /\ k # l /\ Live(k) /\ rec[k].tag = rec[l].tag =>
    Before(k, l, work)

\* All that holds of the tags while the connection stands.
Tagged == Once /\ OneExq /\ Carriers /\ InLine /\ LiveFirst
\* After a hangup replies are dropped, and tags are reused regardless.
FlushInv == ~hung => Tagged
-----------------------------------------------------------------------------
(* Queues.                                                                 *)

\* The elements of a queue by their places, when one is put on the end,
LEMMA AppendAt ==
  ASSUME NEW S, NEW s \in Seq(S), NEW e \in S
  PROVE  /\ Append(s, e) \in Seq(S) /\ Len(Append(s, e)) = Len(s) + 1 /\ Last(Append(s, e)) = e
         /\ \A i \in 1..Len(s) : Append(s, e)[i] = s[i]
         /\ Append(s, e)[Len(s) + 1] = e
  BY DEF Last

\* and when the head leaves.
LEMMA TailAt ==
  ASSUME NEW S, NEW s \in Seq(S), s # <<>>
  PROVE  /\ Tail(s) \in Seq(S) /\ Len(s) \in Nat \ {0} /\ Len(Tail(s)) = Len(s) - 1
         /\ Head(s) = s[1] /\ Head(s) \in S /\ 1 \in 1..Len(s)
         /\ \A i \in 1..(Len(s) - 1) : Tail(s)[i] = s[i + 1] /\ i + 1 \in 1..Len(s)
  OBVIOUS

\* The last element is one of them.
LEMMA LastIn ==
  ASSUME NEW S, NEW s \in Seq(S), s # <<>>
  PROVE  Last(s) \in S /\ In(Last(s), s) /\ Last(s) = s[Len(s)] /\ Len(s) \in 1..Len(s)
  <1>1. Len(s) \in Nat /\ Len(s) \in 1..Len(s)
    OBVIOUS
  <1>. QED
    BY <1>1 DEF Last, In

\* Range is the set of the elements.
LEMMA InRange ==
  ASSUME NEW S, NEW s \in Seq(S)
  PROVE  \A x : x \in Range(s) <=> In(x, s)
  BY DEF Range, In

\* An element is in the set that the queue is over.
LEMMA InSet ==
  ASSUME NEW S, NEW s \in Seq(S), NEW x, In(x, s)
  PROVE  x \in S
  BY DEF In

-----------------------------------------------------------------------------
(* mntralloc and mntfree.                                                  *)

\* The client c gets t, which nobody had.
Allocated(c, t) ==
  /\ t \in Tags /\ chain' = [chain EXCEPT ![c] = Append(@, t)]
  /\ ~Done(t) /\ ~In(t, mqueue) /\ \A d \in Clients : ~In(t, chain[d])
  /\ rpcfree' \in Seq(Tags) /\ Len(rpcfree') <= MaxFree /\ Distinct(rpcfree')
  /\ ~In(t, rpcfree') /\ \A u : In(u, rpcfree') => In(u, rpcfree)
  /\ tagmask' \subseteq Tags /\ tagmask \subseteq tagmask' /\ t \in tagmask'

\* mntralloc gives a call a tag that no call had.
LEMMA MntrallocEffect ==
  ASSUME MountTypes, TagInv, QueueInv, NEW c \in Clients, Mntralloc(c)
  PROVE  \E t : Allocated(c, t)
  <1>1. \A t \in Tags : (\A d \in Clients : ~In(t, chain[d])) => ~Done(t) /\ ~In(t, mqueue)
    BY DEF QueueInv
  <1>2. CASE /\ rpcfree # <<>>
             /\ chain' = [chain EXCEPT ![c] = Append(@, Head(rpcfree))]
             /\ rpcfree' = Tail(rpcfree)
             /\ UNCHANGED tagmask
    <2>1. rpcfree \in Seq(Tags) /\ Distinct(rpcfree) /\ Len(rpcfree) <= MaxFree /\ tagmask \subseteq Tags
      BY DEF MountTypes, TagInv
    <2>2. /\ rpcfree' \in Seq(Tags) /\ Head(rpcfree) \in Tags /\ In(Head(rpcfree), rpcfree)
          /\ \A x : In(x, rpcfree') <=> x # Head(rpcfree) /\ In(x, rpcfree)
          /\ Distinct(rpcfree')
      BY <1>2, <2>1, TailIn
    <2>3. Len(rpcfree') <= MaxFree
      <3>1. Len(rpcfree') = Len(rpcfree) - 1 /\ Len(rpcfree) \in Nat
        BY <1>2, <2>1, TailAt
      <3>. QED
        BY <3>1, <2>1, WireAssumption
    <2>4. Head(rpcfree) \in tagmask /\ \A d \in Clients : ~In(Head(rpcfree), chain[d])
      BY <2>2 DEF TagInv
    <2>. QED
      BY <1>1, <1>2, <2>1, <2>2, <2>3, <2>4 DEF Allocated
  <1>3. CASE /\ rpcfree = <<>> /\ UNCHANGED rpcfree
             /\ \E t \in Tags \ tagmask :
                  /\ chain' = [chain EXCEPT ![c] = Append(@, t)]
                  /\ tagmask' = tagmask \cup {t}
    <2>1. PICK t \in Tags \ tagmask : chain' = [chain EXCEPT ![c] = Append(@, t)] /\ tagmask' = tagmask \cup {t}
      BY <1>3
    <2>2. rpcfree' \in Seq(Tags) /\ Distinct(rpcfree') /\ Len(rpcfree') <= MaxFree /\ tagmask \subseteq Tags
      BY <1>3 DEF MountTypes, TagInv
    <2>3. \A d \in Clients : ~In(t, chain[d])
      BY <2>1 DEF TagInv
    <2>4. \A u : ~In(u, rpcfree')
      BY <1>3, EmptyIn
    <2>. QED
      BY <1>1, <2>1, <2>2, <2>3, <2>4 DEF Allocated
  <1>. QED
    BY <1>2, <1>3 DEF Mntralloc

\* The tags ts are given back: some stay on rpcfree.
Freed(ts) ==
  /\ rpcfree' \in Seq(Tags) /\ Len(rpcfree') <= MaxFree /\ Distinct(rpcfree')
  /\ \A u : In(u, rpcfree') => (In(u, rpcfree) \/ In(u, ts)) /\ u \in tagmask'
  /\ tagmask' \subseteq tagmask /\ \A u \in tagmask : ~In(u, ts) => u \in tagmask'
  /\ reply' = [t \in Tags |-> IF In(t, ts) THEN NoReply ELSE reply[t]]

\* The first k of a queue, backwards, and the others.
LEMMA FirstBack ==
  ASSUME NEW S, NEW s \in Seq(S), NEW k \in 0..Len(s), Distinct(s)
  PROVE  LET f == Reverse(SubSeq(s, 1, k))
             r == SubSeq(s, k + 1, Len(s))
         IN /\ f \in Seq(S) /\ Len(f) = k /\ Distinct(f)
            /\ \A x : In(x, f) => In(x, s) /\ x \notin Range(r)
            /\ \A x \in Range(r) : In(x, s)
  <1>. DEFINE g == SubSeq(s, 1, k)
              f == Reverse(g)
              r == SubSeq(s, k + 1, Len(s))
  <1>1. Len(s) \in Nat /\ k \in Nat /\ k <= Len(s)
    OBVIOUS
  <1>2. g \in Seq(S) /\ Len(g) = k /\ \A i \in 1..k : g[i] = s[i]
    BY <1>1
  <1>3. r \in Seq(S) /\ Len(r) = Len(s) - k /\ \A i \in 1..(Len(s) - k) : r[i] = s[k + i]
    BY <1>1
  <1>. HIDE DEF g, r
  <1>4. f = [i \in 1..k |-> g[k - i + 1]]
    BY <1>2 DEF Reverse
  <1>5. f \in Seq(S) /\ Len(f) = k
    <2>1. \A i \in 1..k : k - i + 1 \in 1..k
      BY <1>1
    <2>2. f \in [1..k -> S]
      BY <1>2, <1>4, <2>1
    <2>. HIDE DEF f
    <2>. QED
      BY <2>2, <1>1
  <1>6. \A i \in 1..k : k - i + 1 \in 1..Len(s) /\ f[i] = s[k - i + 1]
    BY <1>1, <1>2, <1>4
  <1>. HIDE DEF f
  <1>7. Distinct(f)
    <2>1. SUFFICES ASSUME NEW i \in 1..k, NEW j \in 1..k, f[i] = f[j] PROVE i = j
      BY <1>5 DEF Distinct
    <2>2. k - i + 1 = k - j + 1
      BY <2>1, <1>6 DEF Distinct
    <2>. QED
      BY <2>2, <1>1
  <1>8. \A x \in Range(r) : \E j \in 1..Len(s) : j > k /\ s[j] = x
    <2>1. ASSUME NEW i \in 1..(Len(s) - k) PROVE k + i \in 1..Len(s) /\ k + i > k
      BY <1>1
    <2>2. DOMAIN r = 1..(Len(s) - k)
      BY <1>3
    <2>. QED
      BY <2>1, <2>2, <1>3 DEF Range
  <1>9. ASSUME NEW x, In(x, f) PROVE In(x, s) /\ x \notin Range(r)
    <2>1. PICK i \in 1..k : f[i] = x
      BY <1>5, <1>9 DEF In
    <2>2. k - i + 1 \in 1..Len(s) /\ s[k - i + 1] = x /\ k - i + 1 <= k
      BY <1>1, <1>6, <2>1
    <2>3. x \in Range(r) => FALSE
      BY <1>8, <2>2, <1>1 DEF Distinct
    <2>. QED
      BY <2>2, <2>3 DEF In
  <1>10. \A x \in Range(r) : In(x, s)
    BY <1>8 DEF In
  <1>. QED
    BY <1>5, <1>7, <1>9, <1>10 DEF f, g, r

\* The order in which mntfree is called does not matter for which tags they are.
LEMMA ReverseIn ==
  ASSUME NEW S, NEW s \in Seq(S), Distinct(s)
  PROVE  /\ Reverse(s) \in Seq(S) /\ Len(Reverse(s)) = Len(s) /\ Distinct(Reverse(s))
         /\ \A x : In(x, Reverse(s)) => In(x, s)
  <1>. DEFINE f == Reverse(s)
              n == Len(s)
  <1>1. n \in Nat /\ \A i \in 1..n : n - i + 1 \in 1..n
    OBVIOUS
  <1>2. f = [i \in 1..n |-> s[n - i + 1]]
    BY DEF Reverse
  <1>3. f \in Seq(S) /\ Len(f) = n
    <2>1. f \in [1..n -> S]
      BY <1>1, <1>2
    <2>. HIDE DEF f
    <2>. QED
      BY <2>1, <1>1
  <1>4. \A i \in 1..n : f[i] = s[n - i + 1]
    BY <1>2
  <1>. HIDE DEF f
  <1>5. Distinct(f)
    <2>1. SUFFICES ASSUME NEW i \in 1..n, NEW j \in 1..n, f[i] = f[j] PROVE i = j
      BY <1>3 DEF Distinct
    <2>2. n - i + 1 = n - j + 1
      BY <2>1, <1>1, <1>4 DEF Distinct
    <2>. QED
      BY <2>2, <1>1
  <1>6. \A x : In(x, f) => In(x, s)
    BY <1>1, <1>3, <1>4 DEF In
  <1>. QED
    BY <1>3, <1>5, <1>6 DEF f

\* rpcfree has at most MaxFree.
LEMMA KeptBound ==
  ASSUME NEW n \in Nat, rpcfree \in Seq(Tags), Len(rpcfree) <= MaxFree
  PROVE  Kept(n) \in 0..n /\ Kept(n) + Len(rpcfree) <= MaxFree
  <1>. DEFINE r == MaxFree - Len(rpcfree)
  <1>1. r \in Nat /\ Len(rpcfree) \in Nat
    BY WireAssumption
  <1>2. \E x \in {n, r} : \A y \in {n, r} : x <= y
    <2>1. CASE n <= r
      BY <1>1, <2>1
    <2>2. CASE r <= n
      BY <1>1, <2>2
    <2>. QED
      BY <1>1, <2>1, <2>2
  <1>3. Kept(n) = Min({n, r})
    BY DEF Kept
  <1>. HIDE DEF r
  <1>4. Min({n, r}) \in {n, r} /\ \A y \in {n, r} : Min({n, r}) <= y
    BY <1>2, Zenon DEF Min
  <1>5. Kept(n) \in 0..n /\ Kept(n) <= r
    BY <1>1, <1>3, <1>4
  <1>. QED
    BY <1>1, <1>5, WireAssumption DEF r

\* mntfree of all the tags of a call gives them back.
LEMMA MntfreeEffect ==
  ASSUME MountTypes, NEW ts \in Seq(Tags), Distinct(ts), Distinct(rpcfree), Mntfree(ts),
         \A t : In(t, ts) => ~In(t, rpcfree) /\ t \in tagmask,
         \A t : In(t, rpcfree) => t \in tagmask
  PROVE  Freed(ts)
  <1>. DEFINE o == Reverse(ts)
              k == Kept(Len(ts))
              f == Reverse(SubSeq(o, 1, k))
              r == SubSeq(o, k + 1, Len(ts))
  <1>1. o \in Seq(Tags) /\ Len(o) = Len(ts) /\ Distinct(o) /\ \A x : In(x, o) => In(x, ts)
    BY ReverseIn
  <1>2. rpcfree \in Seq(Tags) /\ Len(rpcfree) <= MaxFree /\ Len(ts) \in Nat
    BY DEF MountTypes
  <1>3. k \in 0..Len(ts) /\ k + Len(rpcfree) <= MaxFree
    BY <1>2, KeptBound
  <1>4. /\ rpcfree' = f \o rpcfree /\ tagmask' = tagmask \ Range(r)
        /\ reply' = [t \in Tags |-> IF t \in Range(ts) THEN NoReply ELSE reply[t]]
    BY Zenon DEF Mntfree
  <1>. HIDE DEF o, k
  <1>5. /\ f \in Seq(Tags) /\ Len(f) = k /\ Distinct(f)
        /\ \A x : In(x, f) => In(x, o) /\ x \notin Range(r)
        /\ \A x \in Range(r) : In(x, o)
    BY <1>1, <1>3, FirstBack
  <1>. HIDE DEF f, r
  <1>6. /\ f \o rpcfree \in Seq(Tags) /\ Len(f \o rpcfree) = k + Len(rpcfree)
        /\ \A i \in 1..k : (f \o rpcfree)[i] = f[i]
        /\ \A i \in 1..Len(rpcfree) : (f \o rpcfree)[k + i] = rpcfree[i]
    <2>1. /\ f \o rpcfree \in Seq(Tags) /\ Len(f \o rpcfree) = Len(f) + Len(rpcfree)
          /\ \A i \in 1..Len(f) : (f \o rpcfree)[i] = f[i]
          /\ \A i \in 1..Len(rpcfree) : (f \o rpcfree)[Len(f) + i] = rpcfree[i]
      <3>1. f \in Seq(Tags) /\ rpcfree \in Seq(Tags)
        BY <1>2, <1>5
      <3>. QED
        BY <3>1, ConcatAt
    <2>. QED
      BY <2>1, <1>5
  <1>7. ASSUME NEW i \in 1..(k + Len(rpcfree)), ~(i \in 1..k)
        PROVE  i - k \in 1..Len(rpcfree) /\ (f \o rpcfree)[i] = rpcfree[i - k]
    <2>1. i - k \in 1..Len(rpcfree) /\ k + (i - k) = i
      BY <1>2, <1>3, <1>7
    <2>. QED
      BY <2>1, <1>6
  <1>8. \A u : In(u, f \o rpcfree) => In(u, f) \/ In(u, rpcfree)
    BY <1>5, <1>6, <1>7 DEF In
  <1>9. \A u : In(u, f) => ~In(u, rpcfree)
    BY <1>1, <1>5
  <1>10. Distinct(f \o rpcfree)
    <2>1. SUFFICES ASSUME NEW i \in 1..(k + Len(rpcfree)), NEW j \in 1..(k + Len(rpcfree)),
                          (f \o rpcfree)[i] = (f \o rpcfree)[j]
                   PROVE  i = j
      BY <1>6 DEF Distinct
    <2>2. CASE i \in 1..k /\ j \in 1..k
      BY <2>1, <2>2, <1>5, <1>6 DEF Distinct
    <2>3. CASE ~(i \in 1..k) /\ ~(j \in 1..k)
      <3>1. i - k = j - k
        BY <2>1, <2>3, <1>7 DEF Distinct
      <3>. QED
        BY <3>1, <1>2, <1>3
    <2>4. CASE i \in 1..k /\ ~(j \in 1..k)
      <3>1. In(f[i], f) /\ In(rpcfree[j - k], rpcfree) /\ f[i] = rpcfree[j - k]
        BY <2>1, <2>4, <1>5, <1>6, <1>7 DEF In
      <3>. QED
        BY <3>1, <1>9
    <2>5. CASE ~(i \in 1..k) /\ j \in 1..k
      <3>1. In(f[j], f) /\ In(rpcfree[i - k], rpcfree) /\ f[j] = rpcfree[i - k]
        BY <2>1, <2>5, <1>5, <1>6, <1>7 DEF In
      <3>. QED
        BY <3>1, <1>9
    <2>. QED
      BY <2>2, <2>3, <2>4, <2>5
  <1>11. \A t : t \in Range(ts) <=> In(t, ts)
    BY InRange
  <1>12. reply' = [t \in Tags |-> IF In(t, ts) THEN NoReply ELSE reply[t]]
    BY <1>4, <1>11
  <1>13. \A u : In(u, f \o rpcfree) => u \notin Range(r)
    BY <1>1, <1>5, <1>8
  <1>14. \A u : In(u, f \o rpcfree) => u \in tagmask
    BY <1>1, <1>5, <1>8
  <1>15. k + Len(rpcfree) <= MaxFree
    BY <1>3
  <1>16. \A u : In(u, f \o rpcfree) => In(u, rpcfree) \/ In(u, ts)
    BY <1>1, <1>5, <1>8
  <1>17. \A u : u \in Range(r) => In(u, ts)
    BY <1>1, <1>5
  <1>. QED
    BY <1>4, <1>6, <1>10, <1>12, <1>13, <1>14, <1>15, <1>16, <1>17 DEF Freed

-----------------------------------------------------------------------------
(* Steps that give or take tags.                                           *)

\* mqueue' of Transmit: the new tag is on the queue too.
LEMMA AllocatedTags ==
  ASSUME MountTypes, TagInv, QueueInv, NEW c \in Clients, NEW t, Allocated(c, t),
         mqueue' = <<Last(chain'[c])>> \o mqueue, UNCHANGED reply,
         cpc' \in [Clients -> CPC], cpc'[c] # "idle", \A d \in Clients \ {c} : cpc'[d] = cpc[d]
  PROVE  /\ TagInv' /\ QueueInv' /\ chain' \in [Clients -> Seq(Tags)] /\ mqueue' \in Seq(Tags)
         /\ chain'[c] = Append(chain[c], t) /\ Rpc(c)' = t /\ \A d \in Clients \ {c} : chain'[d] = chain[d]
         /\ mqueue' = <<t>> \o mqueue
         /\ chain'[c] # <<>> /\ \A d \in Clients : \A u : In(u, chain'[d]) <=> In(u, chain[d]) \/ (d = c /\ u = t)
  <1>1. chain \in [Clients -> Seq(Tags)] /\ chain[c] \in Seq(Tags) /\ t \in Tags /\ mqueue \in Seq(Tags)
    BY DEF MountTypes, Allocated
  <1>2. chain'[c] = Append(chain[c], t) /\ chain' \in [Clients -> Seq(Tags)]
        /\ \A d \in Clients \ {c} : chain'[d] = chain[d]
    BY <1>1 DEF Allocated
  <1>3. /\ chain'[c] # <<>> /\ \A u : In(u, chain'[c]) <=> u = t \/ In(u, chain[c])
        /\ Distinct(chain[c]) /\ ~In(t, chain[c]) => Distinct(chain'[c])
    BY <1>1, <1>2, AppendIn
  <1>4. Last(chain'[c]) = t
    BY <1>1, <1>2, AppendAt
  <1>5. /\ mqueue' = <<t>> \o mqueue /\ mqueue' \in Seq(Tags)
        /\ \A u : In(u, mqueue') <=> u = t \/ In(u, mqueue)
    BY <1>1, <1>4, ConsIn
  <1>6. \A d \in Clients : \A u : In(u, chain'[d]) <=> In(u, chain[d]) \/ (d = c /\ u = t)
    BY <1>2, <1>3
  <1>7. QueueInv'
    <2>1. ASSUME NEW u \in Tags
          PROVE  /\ In(u, mqueue') <=> ~Done(u)' /\ \E d \in Clients : In(u, chain'[d])
                 /\ Done(u)' => \E d \in Clients : In(u, chain'[d])
      <3>1. Done(u)' <=> Done(u)
        BY DEF Done
      <3>2. CASE u = t
        BY <3>1, <3>2, <1>5, <1>6 DEF Allocated
      <3>3. CASE u # t
        BY <3>1, <3>3, <1>5, <1>6 DEF QueueInv
      <3>. QED
        BY <3>2, <3>3
    <2>. QED
      BY <2>1 DEF QueueInv
  <1>8. TagInv'
    <2>1. \A d \in Clients : Distinct(chain'[d]) /\ (chain'[d] = <<>> <=> cpc'[d] = "idle")
      BY <1>2, <1>3 DEF TagInv, Allocated
    <2>2. ASSUME NEW d \in Clients, NEW e \in Clients, NEW u, In(u, chain'[d]), In(u, chain'[e]) PROVE d = e
      <3>1. (In(u, chain[d]) \/ (d = c /\ u = t)) /\ (In(u, chain[e]) \/ (e = c /\ u = t))
        BY <2>2, <1>6
      <3>2. ~In(t, chain[d]) /\ ~In(t, chain[e])
        BY DEF Allocated
      <3>. QED
        BY <3>1, <3>2 DEF TagInv
    <2>3. \A d \in Clients : \A u : In(u, chain'[d]) => ~In(u, rpcfree') /\ u \in tagmask'
      BY <1>6 DEF TagInv, Allocated
    <2>4. \A u : In(u, rpcfree') => u \in tagmask'
      BY DEF TagInv, Allocated
    <2>. QED
      BY <2>1, <2>2, <2>3, <2>4 DEF TagInv, Allocated
  <1>. QED
    BY <1>2, <1>3, <1>4, <1>5, <1>6, <1>7, <1>8 DEF Rpc

\* Return: the tags of c's chain are given back.
LEMMA ReturnTags ==
  ASSUME MountTypes, TagInv, QueueInv, NEW c \in Clients, Return(c)
  PROVE  /\ TagInv' /\ QueueInv' /\ Freed(chain[c])
         /\ chain' \in [Clients -> Seq(Tags)] /\ mqueue' \in Seq(Tags)
         /\ chain'[c] = <<>> /\ \A d \in Clients \ {c} : chain'[d] = chain[d]
         /\ cpc'[c] = "idle" /\ cpc' \in [Clients -> CPC] /\ \A d \in Clients \ {c} : cpc'[d] = cpc[d]
  <1>1. chain \in [Clients -> Seq(Tags)] /\ chain[c] \in Seq(Tags) /\ mqueue \in Seq(Tags) /\ Distinct(chain[c])
    BY DEF MountTypes, TagInv
  <1>2. Mntfree(chain[c]) /\ mqueue' = Without(mqueue, Range(chain[c])) /\ chain' = [chain EXCEPT ![c] = <<>>]
    BY DEF Return
  <1>3. Freed(chain[c])
    BY <1>1, <1>2, MntfreeEffect DEF TagInv
  <1>4. chain' \in [Clients -> Seq(Tags)] /\ chain'[c] = <<>> /\ \A d \in Clients \ {c} : chain'[d] = chain[d]
    BY <1>1, <1>2
  <1>5. cpc'[c] = "idle" /\ cpc' \in [Clients -> CPC] /\ \A d \in Clients \ {c} : cpc'[d] = cpc[d]
    BY DEF Return, CStep, MountTypes, CPC
  <1>6. mqueue' \in Seq(Tags) /\ \A u : In(u, mqueue') <=> u \notin Range(chain[c]) /\ In(u, mqueue)
    BY <1>1, <1>2, WithoutIn
  <1>7. \A u : In(u, mqueue') <=> ~In(u, chain[c]) /\ In(u, mqueue)
    BY <1>1, <1>6, InRange
  <1>8. \A d \in Clients : \A u : In(u, chain'[d]) <=> d # c /\ In(u, chain[d])
    BY <1>4, EmptyIn
  <1>9. QueueInv'
    <2>1. ASSUME NEW u \in Tags
          PROVE  /\ In(u, mqueue') <=> ~Done(u)' /\ \E d \in Clients : In(u, chain'[d])
                 /\ Done(u)' => \E d \in Clients : In(u, chain'[d])
      <3>1. Done(u)' <=> Done(u) /\ ~In(u, chain[c])
        BY <1>3 DEF Done, Freed
      <3>2. CASE In(u, chain[c])
        BY <3>1, <3>2, <1>7, <1>8 DEF TagInv
      <3>3. CASE ~In(u, chain[c])
        BY <3>1, <3>3, <1>7, <1>8 DEF QueueInv
      <3>. QED
        BY <3>2, <3>3
    <2>. QED
      BY <2>1 DEF QueueInv
  <1>10. TagInv'
    <2>1. \A d \in Clients : Distinct(chain'[d]) /\ (chain'[d] = <<>> <=> cpc'[d] = "idle")
      BY <1>4, <1>5 DEF TagInv, Distinct
    <2>2. \A d, e \in Clients : \A u : In(u, chain'[d]) /\ In(u, chain'[e]) => d = e
      BY <1>8 DEF TagInv
    <2>3. \A d \in Clients : \A u : In(u, chain'[d]) => ~In(u, rpcfree') /\ u \in tagmask'
      BY <1>3, <1>8 DEF TagInv, Freed
    <2>4. \A u : In(u, rpcfree') => u \in tagmask'
      BY <1>3 DEF Freed
    <2>. QED
      BY <2>1, <2>2, <2>3, <2>4, <1>3 DEF TagInv, Freed
  <1>. QED
    BY <1>3, <1>4, <1>5, <1>6, <1>9, <1>10

-----------------------------------------------------------------------------
(* Every step keeps the mount driver's invariant.                          *)

\* MountInv without the count of calls.
MountRest == MountTypes /\ TagInv /\ QueueInv /\ RipInv /\ SleepInv /\ WatchInv

\* A client has made less calls than may be made.
LEMMA CallBound ==
  ASSUME CountInv, NEW c \in Clients,
         Cardinality({k \in Calls : outcome[k] # "none"}) < MaxCalls
  PROVE  ncalls[c] < MaxCalls /\ ncalls[c] \in Nat /\ <<c, ncalls[c] + 1>> \in Calls
  <1>. DEFINE U == {k \in Calls : outcome[k] # "none"}
              V == {c} \X (1..MaxCalls)
  <1>1. MaxCalls \in Nat /\ ncalls[c] \in 0..MaxCalls
    BY WireAssumption DEF CountInv
  <1>2. IsFiniteSet(Calls)
    <2>1. IsFiniteSet(1..MaxCalls) /\ IsFiniteSet(Clients)
      BY <1>1, FS_Interval, WireAssumption
    <2>. QED
      BY <2>1, FS_Product DEF Calls
  <1>3. Cardinality(V) = MaxCalls
    <2>1. IsFiniteSet({c}) /\ Cardinality({c}) = 1
      BY FS_Singleton
    <2>2. IsFiniteSet(1..MaxCalls) /\ Cardinality(1..MaxCalls) = MaxCalls
      BY <1>1, FS_Interval
    <2>3. Cardinality(V) = Cardinality({c}) * Cardinality(1..MaxCalls)
      BY <2>1, <2>2, FS_Product
    <2>. QED
      BY <2>1, <2>2, <2>3, <1>1
  <1>4. ASSUME ncalls[c] = MaxCalls PROVE FALSE
    <2>1. \A n \in 1..MaxCalls : <<c, n>> \in Calls /\ outcome[<<c, n>>] # "none"
      BY <1>4 DEF CountInv, Calls
    <2>2. V \subseteq U
      BY <2>1
    <2>3. IsFiniteSet(U) /\ Cardinality(U) \in Nat
      BY <1>2, FS_Subset, FS_CardinalityType
    <2>4. Cardinality(V) <= Cardinality(U)
      BY <2>2, <2>3, FS_Subset
    <2>. QED
      BY <2>3, <2>4, <1>1, <1>3
  <1>5. ncalls[c] < MaxCalls /\ ncalls[c] \in Nat
    BY <1>1, <1>4
  <1>. QED
    BY <1>1, <1>5 DEF Calls

\* A request or a flush is allocated and written.
LEMMA TransmitKeeps ==
  ASSUME MountRest, NEW c \in Clients, NEW k, NEW from \in {"idle", "eintr"}, Transmit(c, k, from), rip # c
  PROVE  MountRest' /\ \E t : Allocated(c, t) /\ chain'[c] = Append(chain[c], t)
  <1>1. PICK t : Allocated(c, t)
    BY MntrallocEffect DEF MountRest, Transmit
  <1>2. /\ mqueue' = <<Last(chain'[c])>> \o mqueue /\ UNCHANGED <<target, reply, rip, toMnt, hung>>
        /\ cpc[c] = from
        /\ CStep(c, from, "gate") \/ (hung /\ CStep(c, from, "fail")) \/ CStep(c, from, "eintr")
    BY DEF Transmit
  <1>3. PICK to \in {"gate", "fail", "eintr"} : cpc' = [cpc EXCEPT ![c] = to] /\ (to = "fail" => hung)
    BY <1>2 DEF CStep
  <1>4. cpc \in [Clients -> CPC]
    BY DEF MountRest, MountTypes
  <1>5. cpc' \in [Clients -> CPC] /\ cpc'[c] = to /\ \A d \in Clients \ {c} : cpc'[d] = cpc[d]
    BY <1>3, <1>4 DEF CPC
  <1>6. /\ TagInv' /\ QueueInv' /\ chain' \in [Clients -> Seq(Tags)] /\ mqueue' \in Seq(Tags)
        /\ chain'[c] = Append(chain[c], t) /\ \A d \in Clients \ {c} : chain'[d] = chain[d]
    BY <1>1, <1>2, <1>5, AllocatedTags DEF MountRest
  <1>7. MountTypes'
    BY <1>1, <1>2, <1>5, <1>6 DEF MountTypes, MountRest, Allocated
  <1>8. \A d \in Clients \ {c} : Rpc(d)' = Rpc(d)
    BY <1>6 DEF Rpc
  <1>9. \A u : Done(u)' <=> Done(u)
    BY <1>2 DEF Done
  <1>10. RipInv'
    BY <1>2, <1>3, <1>5, <1>8, <1>9 DEF RipInv, MountRest
  <1>11. SleepInv'
    <2>1. SUFFICES ASSUME NEW d \in Clients, cpc'[d] = "asleep"
                   PROVE  ~Done(Rpc(d))' \/ \E e \in Clients : cpc'[e] = "wake" /\ target'[e] = Rpc(d)'
      BY DEF SleepInv
    <2>2. d # c /\ cpc[d] = "asleep" /\ Rpc(d)' = Rpc(d)
      BY <2>1, <1>5, <1>8
    <2>3. ~Done(Rpc(d)) \/ \E e \in Clients : cpc[e] = "wake" /\ target[e] = Rpc(d)
      BY <2>2 DEF MountRest, SleepInv
    <2>4. \A e \in Clients : cpc[e] = "wake" => cpc'[e] = "wake" /\ target'[e] = target[e]
      BY <1>2, <1>5
    <2>. QED
      BY <2>2, <2>3, <2>4, <1>2 DEF Done
  <1>12. WatchInv'
    BY <1>2, <1>3, <1>5 DEF WatchInv
  <1>. QED
    BY <1>1, <1>6, <1>7, <1>10, <1>11, <1>12 DEF MountRest

\* Tags and queue are left as they are.
LEMMA SameTags ==
  ASSUME MountRest, UNCHANGED <<chain, reply, mqueue, rpcfree, tagmask>>,
         cpc' \in [Clients -> CPC], \A d \in Clients : cpc'[d] = "idle" <=> cpc[d] = "idle",
         target' \in [Clients -> Tags], rip' \in Clients \cup {NoOne}
  PROVE  /\ MountTypes' /\ TagInv' /\ QueueInv'
         /\ \A d \in Clients : Rpc(d)' = Rpc(d) /\ (Done(Rpc(d))' <=> Done(Rpc(d)))
  BY DEF MountRest, MountTypes, TagInv, QueueInv, Done, Rpc

\* The reader, and nobody else, reads or is about to wake.
LEMMA OneReader ==
  ASSUME MountRest, NEW c \in Clients, rip \in {c, NoOne}
  PROVE  \A e \in Clients : cpc[e] \in {"read", "wake"} => rip = e /\ e = c
  BY WireAssumption DEF MountRest, RipInv

\* A client at the gate reads, sleeps or is interrupted.
LEMMA GateKeeps ==
  ASSUME MountRest, NEW c \in Clients, Gate(c)
  PROVE  MountRest'
  <1>1. cpc \in [Clients -> CPC] /\ rip \in Clients \cup {NoOne} /\ target \in [Clients -> Tags]
    BY DEF MountRest, MountTypes
  <1>2. UNCHANGED <<chain, target, reply, mqueue, rpcfree, tagmask, hung>>
    BY DEF Gate, wirevars
  <1>3. PICK to \in {"read", "eintr", "awake", "asleep"} :
          /\ cpc[c] = "gate" /\ cpc' = [cpc EXCEPT ![c] = to]
          /\ to = "read" => rip = NoOne /\ rip' = c
          /\ to # "read" => rip # NoOne /\ rip' = rip
          /\ to = "asleep" => ~Done(Rpc(c))
    BY DEF Gate, CStep, Rpcattn
  <1>4. cpc' \in [Clients -> CPC] /\ cpc'[c] = to /\ \A d \in Clients \ {c} : cpc'[d] = cpc[d]
    BY <1>1, <1>3 DEF CPC
  <1>5. rip' \in Clients \cup {NoOne} /\ rip' # NoOne
    BY <1>1, <1>3, WireAssumption
  <1>6. /\ MountTypes' /\ TagInv' /\ QueueInv'
        /\ \A d \in Clients : Rpc(d)' = Rpc(d) /\ (Done(Rpc(d))' <=> Done(Rpc(d)))
    BY <1>1, <1>2, <1>3, <1>4, <1>5, SameTags
  <1>7. RipInv'
    <2>1. ASSUME NEW d \in Clients
          PROVE  /\ cpc'[d] \in {"read", "wake"} => rip' = d
                 /\ rip' = d => cpc'[d] \in {"read", "wake", "eintr", "fail"}
                 /\ cpc'[d] = "return" => Done(Rpc(d))'
                 /\ cpc'[d] = "fail" => hung'
      <3>1. CASE d = c
        BY <3>1, <1>3, <1>4 DEF MountRest, RipInv
      <3>2. CASE d # c
        BY <3>2, <1>2, <1>3, <1>4, <1>6, WireAssumption DEF MountRest, RipInv
      <3>. QED
        BY <3>1, <3>2
    <2>. QED
      BY <2>1 DEF RipInv
  <1>8. SleepInv'
    <2>1. \A e \in Clients : cpc[e] = "wake" => cpc'[e] = "wake" /\ target'[e] = target[e]
      BY <1>2, <1>3, <1>4
    <2>. QED
      BY <2>1, <1>3, <1>4, <1>6 DEF MountRest, SleepInv
  <1>9. WatchInv'
    BY <1>5 DEF WatchInv
  <1>. QED
    BY <1>6, <1>7, <1>8, <1>9 DEF MountRest

\* One that wakes returns, goes back to the gate or is interrupted.
LEMMA AttendKeeps ==
  ASSUME MountRest, NEW c \in Clients, Attend(c)
  PROVE  MountRest'
  <1>1. cpc \in [Clients -> CPC] /\ rip \in Clients \cup {NoOne} /\ target \in [Clients -> Tags]
    BY DEF MountRest, MountTypes
  <1>2. UNCHANGED <<chain, target, reply, mqueue, rip, rpcfree, tagmask, hung>>
    BY DEF Attend, wirevars
  <1>3. PICK to \in {"eintr", "return", "gate"} :
          /\ cpc[c] = "awake" /\ cpc' = [cpc EXCEPT ![c] = to]
          /\ to = "return" => Done(Rpc(c))
    BY DEF Attend, CStep
  <1>4. cpc' \in [Clients -> CPC] /\ cpc'[c] = to /\ \A d \in Clients \ {c} : cpc'[d] = cpc[d]
    BY <1>1, <1>3 DEF CPC
  <1>5. /\ MountTypes' /\ TagInv' /\ QueueInv'
        /\ \A d \in Clients : Rpc(d)' = Rpc(d) /\ (Done(Rpc(d))' <=> Done(Rpc(d)))
    BY <1>1, <1>2, <1>3, <1>4, SameTags
  <1>6. RipInv'
    BY <1>2, <1>3, <1>4, <1>5 DEF MountRest, RipInv
  <1>7. SleepInv'
    <2>1. \A e \in Clients : cpc[e] = "wake" => cpc'[e] = "wake" /\ target'[e] = target[e]
      BY <1>2, <1>3, <1>4
    <2>. QED
      BY <2>1, <1>3, <1>4, <1>5 DEF MountRest, SleepInv
  <1>8. WatchInv'
    <2>1. SUFFICES ASSUME ~hung, rip = NoOne, NEW d \in Clients, cpc'[d] = "asleep"
                   PROVE  \E e \in Clients : cpc'[e] \in {"gate", "eintr"} \/ (cpc'[e] = "awake" /\ ~Done(Rpc(e))')
      BY <1>2 DEF WatchInv
    <2>2. cpc[d] = "asleep"
      BY <2>1, <1>3, <1>4
    <2>3. PICK e \in Clients : cpc[e] \in {"gate", "eintr"} \/ (cpc[e] = "awake" /\ ~Done(Rpc(e)))
      BY <2>1, <2>2 DEF MountRest, WatchInv
    <2>. QED
      BY <2>3, <1>3, <1>4, <1>5
  <1>. QED
    BY <1>5, <1>6, <1>7, <1>8 DEF MountRest

\* The reader wakes the process whose reply it has read.
LEMMA WakeTargetKeeps ==
  ASSUME MountRest, NEW c \in Clients, WakeTarget(c)
  PROVE  MountRest'
  <1>1. cpc \in [Clients -> CPC] /\ rip \in Clients \cup {NoOne} /\ target \in [Clients -> Tags]
    BY DEF MountRest, MountTypes
  <1>2. UNCHANGED <<chain, reply, mqueue, rip, rpcfree, tagmask, hung>> /\ cpc[c] = "wake"
        /\ target' = [target EXCEPT ![c] = MaxTag]
    BY DEF WakeTarget, wirevars
  <1>3. rip = c /\ rip # NoOne
    BY <1>2, WireAssumption DEF MountRest, RipInv
  <1>4. \A d \in Clients : cpc'[d] = IF d = c THEN "read" ELSE IF cpc[d] = "asleep" /\ Rpc(d) = target[c] THEN "awake" ELSE cpc[d]
    BY DEF WakeTarget, Sleeper
  <1>5. cpc' \in [Clients -> CPC]
    BY <1>1 DEF WakeTarget, CPC
  <1>6. target' \in [Clients -> Tags]
    BY <1>1, <1>2, WireAssumption DEF Tags
  <1>7. /\ MountTypes' /\ TagInv' /\ QueueInv'
        /\ \A d \in Clients : Rpc(d)' = Rpc(d) /\ (Done(Rpc(d))' <=> Done(Rpc(d)))
    BY <1>1, <1>2, <1>4, <1>5, <1>6, SameTags
  <1>8. RipInv'
    BY <1>2, <1>3, <1>4, <1>7 DEF MountRest, RipInv
  <1>9. SleepInv'
    <2>1. \A e \in Clients : cpc[e] = "wake" => e = c
      BY <1>3, OneReader
    <2>2. \A d \in Clients : cpc'[d] = "asleep" => cpc[d] = "asleep" /\ Rpc(d) # target[c]
      BY <1>4
    <2>. QED
      BY <2>1, <2>2, <1>7 DEF MountRest, SleepInv
  <1>10. WatchInv'
    BY <1>2, <1>3 DEF WatchInv
  <1>. QED
    BY <1>7, <1>8, <1>9, <1>10 DEF MountRest

\* The tag of a client's last request is its own.
LEMMA RpcIn ==
  ASSUME MountRest, NEW c \in Clients, cpc[c] # "idle"
  PROVE  Rpc(c) \in Tags /\ In(Rpc(c), chain[c]) /\ \A d \in Clients : In(Rpc(c), chain[d]) => d = c
  <1>1. chain[c] \in Seq(Tags) /\ chain[c] # <<>>
    BY DEF MountRest, MountTypes, TagInv
  <1>2. Rpc(c) \in Tags /\ In(Rpc(c), chain[c])
    BY <1>1, LastIn DEF Rpc
  <1>. QED
    BY <1>2 DEF MountRest, TagInv

\* The reader leaves and wakes the next.
LEMMA MntGateKeeps ==
  ASSUME MountRest, NEW c \in Clients, MntGate(c)
  PROVE  MountRest'
  <1>1. cpc \in [Clients -> CPC] /\ rip \in Clients \cup {NoOne} /\ target \in [Clients -> Tags] /\ mqueue \in Seq(Tags)
    BY DEF MountRest, MountTypes
  <1>2. /\ UNCHANGED <<chain, target, reply, mqueue, rpcfree, tagmask, hung>> /\ rip = c /\ rip' = NoOne
        /\ cpc[c] \in {"eintr", "fail"} \/ (cpc[c] = "read" /\ Done(Rpc(c)))
    BY DEF MntGate, wirevars
  <1>3. \A d \in NextReader : d \in Clients /\ cpc[d] = "asleep"
    BY DEF NextReader, Sleeper
  <1>4. \A d \in Clients : cpc'[d] = IF d \in NextReader THEN "awake" ELSE IF d = c /\ cpc[c] = "read" THEN "return" ELSE cpc[d]
    BY DEF MntGate
  <1>5. cpc' \in [Clients -> CPC]
    BY <1>1 DEF MntGate, CPC
  <1>6. /\ MountTypes' /\ TagInv' /\ QueueInv'
        /\ \A d \in Clients : Rpc(d)' = Rpc(d) /\ (Done(Rpc(d))' <=> Done(Rpc(d)))
    BY <1>1, <1>2, <1>3, <1>4, <1>5, SameTags
  <1>7. \A e \in Clients : cpc[e] \in {"read", "wake"} => e = c
    BY <1>2, OneReader
  <1>8. RipInv'
    BY <1>2, <1>3, <1>4, <1>6, <1>7, WireAssumption DEF MountRest, RipInv
  <1>9. \A d \in Clients : cpc[d] = "asleep" => ~Done(Rpc(d))
    BY <1>2, <1>7 DEF MountRest, SleepInv
  <1>10. SleepInv'
    BY <1>4, <1>6, <1>9 DEF SleepInv
  <1>11. WatchInv'
    <2>1. SUFFICES ASSUME ~hung, NEW d \in Clients, cpc'[d] = "asleep"
                   PROVE  \E e \in Clients : cpc'[e] \in {"gate", "eintr"} \/ (cpc'[e] = "awake" /\ ~Done(Rpc(e))')
      BY <1>2 DEF WatchInv
    <2>2. CASE cpc[c] = "eintr"
      BY <2>2, <1>3, <1>4
    <2>3. CASE cpc[c] = "read"
      <3>. DEFINE D == {t \in Tags : Done(t) \/ Sleeper(t) = {}}
                  s == Without(mqueue, D)
      <3>1. cpc[d] = "asleep" /\ d \in Sleeper(Rpc(d)) /\ Rpc(d) \in Tags /\ ~Done(Rpc(d))
        <4>1. cpc[d] = "asleep"
          BY <2>1, <1>4
        <4>. QED
          BY <4>1, <1>9, RpcIn DEF Sleeper
      <3>2. In(Rpc(d), mqueue) /\ Rpc(d) \notin D
        BY <3>1, RpcIn DEF MountRest, QueueInv
      <3>3. s \in Seq(Tags) /\ \A x : In(x, s) <=> x \notin D /\ In(x, mqueue)
        BY <1>1, WithoutIn
      <3>4. NextReader = IF s = <<>> THEN {} ELSE Sleeper(Head(s))
        BY DEF NextReader
      <3>. HIDE DEF s
      <3>5. s # <<>>
        BY <3>2, <3>3, EmptyIn
      <3>6. Head(s) \in Tags /\ In(Head(s), s)
        <4>1. Head(s) = s[1] /\ 1 \in 1..Len(s) /\ Head(s) \in Tags
          BY <3>3, <3>5, TailAt
        <4>. QED
          BY <4>1 DEF In
      <3>7. ~Done(Head(s)) /\ Sleeper(Head(s)) # {}
        BY <3>3, <3>6
      <3>8. PICK e \in Clients : e \in Sleeper(Head(s)) /\ Rpc(e) = Head(s)
        BY <3>7 DEF Sleeper
      <3>. QED
        BY <3>4, <3>5, <3>7, <3>8, <1>4, <1>6
    <2>4. CASE cpc[c] = "fail"
      BY <2>1, <2>4 DEF MountRest, RipInv
    <2>. QED
      BY <2>2, <2>3, <2>4, <1>2
  <1>. QED
    BY <1>6, <1>8, <1>10, <1>11 DEF MountRest

\* The reader reads a reply, or is interrupted, or finds the connection gone.
LEMMA ReadKeeps ==
  ASSUME MountRest, toMnt \in Seq(RMessages), NEW c \in Clients, Read(c)
  PROVE  MountRest'
  <1>1. cpc \in [Clients -> CPC] /\ rip \in Clients \cup {NoOne} /\ target \in [Clients -> Tags] /\ mqueue \in Seq(Tags)
        /\ reply \in [Tags -> RMessages \cup {NoReply}]
    BY DEF MountRest, MountTypes
  <1>2. UNCHANGED <<chain, rip, rpcfree, tagmask, hung>> /\ cpc[c] = "read" /\ ~Done(Rpc(c))
    BY DEF Read
  <1>3. rip = c /\ rip # NoOne
    BY <1>2, WireAssumption DEF MountRest, RipInv
  <1>4. \A e \in Clients : cpc[e] \in {"read", "wake"} => e = c
    BY <1>3, OneReader
  <1>5. \A d \in Clients : cpc[d] = "asleep" => ~Done(Rpc(d))
    BY <1>2, <1>4 DEF MountRest, SleepInv
  <1>6. ASSUME UNCHANGED <<target, reply, mqueue>>, NEW to \in {"read", "eintr", "fail"},
               cpc' = [cpc EXCEPT ![c] = to], to = "fail" => hung
        PROVE  MountRest'
    <2>1. cpc' \in [Clients -> CPC] /\ cpc'[c] = to /\ \A d \in Clients \ {c} : cpc'[d] = cpc[d]
      BY <1>1, <1>6 DEF CPC
    <2>2. /\ MountTypes' /\ TagInv' /\ QueueInv'
          /\ \A d \in Clients : Rpc(d)' = Rpc(d) /\ (Done(Rpc(d))' <=> Done(Rpc(d)))
      BY <1>1, <1>2, <1>6, <2>1, SameTags
    <2>3. RipInv'
      BY <1>2, <1>3, <1>6, <2>1, <2>2 DEF MountRest, RipInv
    <2>4. SleepInv'
      BY <1>5, <2>1, <2>2, <1>6 DEF SleepInv
    <2>5. WatchInv'
      BY <1>2, <1>3 DEF WatchInv
    <2>. QED
      BY <2>2, <2>3, <2>4, <2>5 DEF MountRest
  <1>7. ASSUME NEW m \in RMessages, m.tag \in Range(mqueue), mqueue' = Without(mqueue, {m.tag}),
               reply' = [reply EXCEPT ![m.tag] = m],
               IF m.tag = Rpc(c) THEN UNCHANGED <<cpc, target>>
               ELSE CStep(c, "read", "wake") /\ target' = [target EXCEPT ![c] = m.tag]
        PROVE  MountRest'
    <2>1. m.tag \in Tags /\ m # NoReply
      BY DEF RMessages, NoReply
    <2>2. In(m.tag, mqueue)
      BY <1>1, <1>7, InRange
    <2>3. ~Done(m.tag) /\ \E d \in Clients : In(m.tag, chain[d])
      BY <2>1, <2>2 DEF MountRest, QueueInv
    <2>4. mqueue' \in Seq(Tags) /\ \A u : In(u, mqueue') <=> u # m.tag /\ In(u, mqueue)
      BY <1>1, <1>7, WithoutIn
    <2>5. reply' \in [Tags -> RMessages \cup {NoReply}] /\ \A u \in Tags : Done(u)' <=> u = m.tag \/ Done(u)
      BY <1>1, <1>7, <2>1 DEF Done
    <2>6. cpc' \in [Clients -> CPC] /\ target' \in [Clients -> Tags] /\ \A d \in Clients \ {c} : cpc'[d] = cpc[d]
      BY <1>1, <1>7, <2>1 DEF CStep, CPC
    <2>7. IF m.tag = Rpc(c) THEN cpc'[c] = "read" ELSE cpc'[c] = "wake" /\ target'[c] = m.tag
      BY <1>1, <1>2, <1>7 DEF CStep
    <2>8. \A d \in Clients : Rpc(d)' = Rpc(d) /\ (cpc[d] # "idle" => Rpc(d) \in Tags)
      BY <1>2, RpcIn DEF Rpc
    <2>9. MountTypes'
      BY <1>2, <2>4, <2>5, <2>6 DEF MountRest, MountTypes
    <2>10. TagInv'
      BY <1>2, <2>6, <2>7 DEF MountRest, TagInv
    <2>11. QueueInv'
      BY <1>2, <2>3, <2>4, <2>5 DEF MountRest, QueueInv
    <2>12. RipInv'
      BY <1>2, <1>3, <2>5, <2>6, <2>7, <2>8 DEF MountRest, RipInv
    <2>13. SleepInv'
      <3>1. SUFFICES ASSUME NEW d \in Clients, cpc'[d] = "asleep", Done(Rpc(d))'
                     PROVE  \E e \in Clients : cpc'[e] = "wake" /\ target'[e] = Rpc(d)'
        BY DEF SleepInv
      <3>2. d # c /\ cpc[d] = "asleep"
        BY <3>1, <2>6, <2>7
      <3>3. Rpc(d) = m.tag /\ Rpc(d)' = m.tag
        BY <3>1, <3>2, <1>5, <2>5, <2>8
      <3>4. m.tag # Rpc(c)
        BY <3>2, <3>3, <1>2, RpcIn
      <3>. QED
        BY <3>3, <3>4, <2>7
    <2>14. WatchInv'
      BY <1>2, <1>3 DEF WatchInv
    <2>. QED
      BY <2>9, <2>10, <2>11, <2>12, <2>13, <2>14 DEF MountRest
  <1>8. CASE toMnt # <<>> /\ Mountmux(c, Head(toMnt))
    <2>1. Head(toMnt) \in RMessages
      BY <1>8, TailAt
    <2>2. cpc' = cpc => cpc' = [cpc EXCEPT ![c] = "read"]
      BY <1>1, <1>2
    <2>. QED
      BY <1>6, <1>7, <1>8, <2>1, <2>2 DEF Mountmux
  <1>9. CASE CStep(c, "read", "eintr") /\ UNCHANGED <<target, reply, mqueue>>
    BY <1>6, <1>9 DEF CStep
  <1>10. CASE hung /\ CStep(c, "read", "fail") /\ UNCHANGED <<target, reply, mqueue>>
    BY <1>6, <1>10 DEF CStep
  <1>. QED
    BY <1>8, <1>9, <1>10 DEF Read

\* A call comes to its end.
LEMMA ReturnKeeps ==
  ASSUME MountRest, NEW c \in Clients, Return(c)
  PROVE  MountRest'
  <1>1. /\ TagInv' /\ QueueInv' /\ Freed(chain[c])
        /\ chain' \in [Clients -> Seq(Tags)] /\ mqueue' \in Seq(Tags)
        /\ chain'[c] = <<>> /\ \A d \in Clients \ {c} : chain'[d] = chain[d]
        /\ cpc'[c] = "idle" /\ cpc' \in [Clients -> CPC] /\ \A d \in Clients \ {c} : cpc'[d] = cpc[d]
    BY ReturnTags DEF MountRest
  <1>2. UNCHANGED <<target, rip, hung>> /\ cpc[c] \in {"return", "fail"} /\ (cpc[c] = "fail" => rip # c)
    BY DEF Return, wirevars, CStep
  <1>3. rip # c
    BY <1>2 DEF MountRest, RipInv
  <1>4. ASSUME NEW d \in Clients, d # c, cpc[d] # "idle" PROVE Rpc(d)' = Rpc(d) /\ (Done(Rpc(d))' <=> Done(Rpc(d)))
    <2>1. Rpc(d) \in Tags /\ ~In(Rpc(d), chain[c])
      BY <1>4, RpcIn
    <2>. QED
      BY <1>1, <1>4, <2>1 DEF Freed, Rpc, Done
  <1>5. MountTypes'
    <2>1. reply' \in [Tags -> RMessages \cup {NoReply}] /\ tagmask' \subseteq Tags
      BY <1>1 DEF MountRest, MountTypes, Freed
    <2>. QED
      BY <1>1, <1>2, <2>1 DEF MountRest, MountTypes, Freed
  <1>6. RipInv'
    BY <1>1, <1>2, <1>3, <1>4 DEF MountRest, RipInv
  <1>7. SleepInv'
    <2>1. SUFFICES ASSUME NEW d \in Clients, cpc'[d] = "asleep", Done(Rpc(d))'
                   PROVE  \E e \in Clients : cpc'[e] = "wake" /\ target'[e] = Rpc(d)'
      BY DEF SleepInv
    <2>2. d # c /\ cpc[d] = "asleep" /\ Rpc(d)' = Rpc(d) /\ Done(Rpc(d))
      BY <2>1, <1>1, <1>4
    <2>3. PICK e \in Clients : cpc[e] = "wake" /\ target[e] = Rpc(d)
      BY <2>2 DEF MountRest, SleepInv
    <2>. QED
      BY <2>2, <2>3, <1>1, <1>2
  <1>8. WatchInv'
    <2>1. SUFFICES ASSUME ~hung, rip = NoOne, NEW d \in Clients, cpc'[d] = "asleep"
                   PROVE  \E e \in Clients : cpc'[e] \in {"gate", "eintr"} \/ (cpc'[e] = "awake" /\ ~Done(Rpc(e))')
      BY <1>2 DEF WatchInv
    <2>2. d # c /\ cpc[d] = "asleep"
      BY <2>1, <1>1
    <2>3. PICK e \in Clients : cpc[e] \in {"gate", "eintr"} \/ (cpc[e] = "awake" /\ ~Done(Rpc(e)))
      BY <2>1, <2>2 DEF MountRest, WatchInv
    <2>4. e # c
      BY <2>3, <1>2
    <2>. QED
      BY <2>3, <2>4, <1>1, <1>4
  <1>. QED
    BY <1>1, <1>5, <1>6, <1>7, <1>8 DEF MountRest

\* The last call of c, when it has ended, is not counted twice.
LEMMA ReturnCounts ==
  ASSUME CountInv, NEW c \in Clients, Return(c)
  PROVE  CountInv'
  <1>1. PICK r : outcome' = [outcome EXCEPT ![ThisCall(c)] =
          IF cpc[c] = "fail" THEN "fail"
          ELSE CASE r.type = "R" -> IF r.call = ThisCall(c) THEN "ok" ELSE "other"
                 [] r.type = "Rerror" -> "rerror"
                 [] OTHER -> "eintr"]
    BY DEF Return
  <1>2. PICK v : outcome' = [outcome EXCEPT ![ThisCall(c)] = v] /\ v # "none"
    <2>. DEFINE v == IF cpc[c] = "fail" THEN "fail"
                     ELSE CASE r.type = "R" -> IF r.call = ThisCall(c) THEN "ok" ELSE "other"
                            [] r.type = "Rerror" -> "rerror"
                            [] OTHER -> "eintr"
    <2>1. v # "none"
      BY Zenon
    <2>. QED
      BY <1>1, <2>1
  <1>3. ASSUME NEW d \in Clients, NEW n \in 1..ncalls[d] PROVE <<d, n>> \in Calls
    <2>1. ncalls[d] \in 0..MaxCalls /\ MaxCalls \in Nat
      BY WireAssumption DEF CountInv
    <2>2. n \in 1..MaxCalls
      BY <2>1
    <2>. QED
      BY <2>2 DEF Calls
  <1>4. ncalls' = ncalls
    BY DEF Return
  <1>. QED
    BY <1>2, <1>3, <1>4 DEF CountInv

\* A call is made.
LEMMA CallKeeps ==
  ASSUME MountRest, CountInv, NEW c \in Clients, Call(c)
  PROVE  MountRest' /\ CountInv'
  <1>1. ncalls[c] < MaxCalls /\ ncalls[c] \in Nat /\ <<c, ncalls[c] + 1>> \in Calls
    BY CallBound DEF Call
  <1>2. Transmit(c, <<c, ncalls[c] + 1>>, "idle") /\ ncalls' = [ncalls EXCEPT ![c] = @ + 1]
        /\ outcome' = [outcome EXCEPT ![<<c, ncalls[c] + 1>>] = "called"]
    BY DEF Call
  <1>3. rip # c
    BY <1>2 DEF MountRest, RipInv, Transmit
  <1>4. MountRest'
    BY <1>2, <1>3, TransmitKeeps
  <1>5. CountInv'
    <2>1. ncalls' \in [Clients -> 0..MaxCalls] /\ DOMAIN outcome' = Calls
      BY <1>1, <1>2, WireAssumption DEF CountInv
    <2>2. ASSUME NEW d \in Clients, NEW n \in 1..ncalls'[d] PROVE outcome'[<<d, n>>] # "none"
      <3>1. <<d, n>> \in Calls
        BY <2>1, WireAssumption DEF Calls
      <3>2. CASE d = c /\ n = ncalls[c] + 1
        BY <3>1, <3>2, <1>2 DEF CountInv
      <3>3. CASE ~(d = c /\ n = ncalls[c] + 1)
        <4>1. n \in 1..ncalls[d]
          BY <3>3, <1>1, <1>2, <2>1 DEF CountInv
        <4>2. outcome'[<<d, n>>] = outcome[<<d, n>>]
          BY <3>1, <3>3, <1>2 DEF CountInv
        <4>. QED
          BY <4>1, <4>2 DEF CountInv
      <3>. QED
        BY <3>2, <3>3
    <2>. QED
      BY <2>1, <2>2 DEF CountInv
  <1>. QED
    BY <1>4, <1>5

\* A step of mountio.
LEMMA MountioKeeps ==
  ASSUME MountInv, toMnt \in Seq(RMessages), NEW c \in Clients, MountioStep(c)
  PROVE  MountInv'
  <1>1. MountRest /\ CountInv
    BY DEF MountInv, MountRest
  <1>2. MountRest'
    <2>1. CASE Flush(c)
      BY <1>1, <2>1, TransmitKeeps DEF Flush
    <2>. QED
      BY <1>1, <2>1, GateKeeps, AttendKeeps, ReadKeeps, WakeTargetKeeps, MntGateKeeps, ReturnKeeps DEF MountioStep
  <1>3. CountInv'
    <2>1. CASE Return(c)
      BY <1>1, <2>1, ReturnCounts
    <2>2. CASE UNCHANGED <<ncalls, outcome>>
      BY <1>1, <2>2 DEF CountInv
    <2>. QED
      BY <2>1, <2>2 DEF MountioStep, Flush, Gate, Attend, Read, WakeTarget, MntGate
  <1>. QED
    BY <1>2, <1>3 DEF MountInv, MountRest

\* An interrupt makes a sleeper runnable.
LEMMA InterruptClientKeeps ==
  ASSUME MountRest, NEW c \in Clients, InterruptClient(c)
  PROVE  MountRest'
  <1>1. cpc \in [Clients -> CPC] /\ rip \in Clients \cup {NoOne} /\ target \in [Clients -> Tags]
    BY DEF MountRest, MountTypes
  <1>2. UNCHANGED <<chain, target, reply, mqueue, rip, rpcfree, tagmask, hung>>
    BY DEF InterruptClient, wirevars
  <1>3. /\ cpc' \in [Clients -> CPC] /\ \A d \in Clients \ {c} : cpc'[d] = cpc[d]
        /\ cpc'[c] = IF cpc[c] = "asleep" THEN "awake" ELSE cpc[c]
    BY <1>1 DEF InterruptClient, CPC
  <1>4. /\ MountTypes' /\ TagInv' /\ QueueInv'
        /\ \A d \in Clients : Rpc(d)' = Rpc(d) /\ (Done(Rpc(d))' <=> Done(Rpc(d)))
    BY <1>1, <1>2, <1>3, SameTags
  <1>5. RipInv'
    BY <1>2, <1>3, <1>4 DEF MountRest, RipInv
  <1>6. SleepInv'
    BY <1>2, <1>3, <1>4 DEF MountRest, SleepInv
  <1>7. WatchInv'
    BY <1>2, <1>3, <1>4 DEF MountRest, WatchInv
  <1>. QED
    BY <1>4, <1>5, <1>6, <1>7 DEF MountRest

\* What leaves the mount driver's variables alone keeps its invariant.
LEMMA OthersKeep ==
  ASSUME MountInv, UNCHANGED mvars, hung => hung'
  PROVE  MountInv'
  BY DEF MountInv, MountTypes, CountInv, TagInv, QueueInv, RipInv, SleepInv, WatchInv, mvars, Rpc, Done

-----------------------------------------------------------------------------
(* Every step keeps the server's invariant.                                *)

\* The slave s goes from one control point to another.
Moves(s, a, b) ==
  /\ spc[s] = a /\ spc'[s] = b /\ spc' \in [Slaves -> SPC]
  /\ \A r \in Slaves : r # s => spc'[r] = spc[r]

\* A step of a slave from one control point to another.
LEMMA SlaveMoves ==
  ASSUME ServerTypes, NEW s \in Slaves, NEW a, NEW b \in SPC, SStep(s, a, b)
  PROVE  Moves(s, a, b)
  BY DEF ServerTypes, SStep, Moves

\* The request k keeps what the invariant needs but for its tag and its error.
SameExq(k) ==
  /\ rec'[k].slave = rec[k].slave /\ rec'[k].busy = rec[k].busy
  /\ rec'[k].finished = rec[k].finished /\ rec'[k].shut = rec[k].shut
  /\ rec'[k].flush = rec[k].flush

\* Every message of the connection that stands for a request, by its place.
LEMMA OneAtATime ==
  ASSUME ServerTypes, CallInv, toSrv # <<>>, toSrv' = Tail(toSrv)
  PROVE  /\ toSrv' \in Seq(TMessages) /\ Head(toSrv) \in TMessages
         /\ \A i \in 1..Len(toSrv') :
              /\ i + 1 \in 1..Len(toSrv) /\ toSrv'[i] = toSrv[i + 1]
              /\ Head(toSrv).type = "T" /\ toSrv'[i].type = "T" => toSrv'[i].call # Head(toSrv).call
         /\ Head(toSrv).type = "T" =>
              LET k == Head(toSrv).call
              IN k \in Calls /\ Made(k) /\ ~In(k, exq) /\ ~HasJob(k)
         /\ \A i \in 1..Len(toSrv') : toSrv'[i].type = "T" =>
              /\ Made(toSrv'[i].call) /\ ~In(toSrv'[i].call, exq) /\ ~HasJob(toSrv'[i].call)
              /\ \A j \in 1..Len(toSrv') : toSrv'[j].type = "T" /\ toSrv'[j].call = toSrv'[i].call => i = j
  <1>1. toSrv \in Seq(TMessages)
    BY DEF ServerTypes
  <1>2. /\ Tail(toSrv) \in Seq(TMessages) /\ Len(toSrv) \in Nat \ {0} /\ Len(Tail(toSrv)) = Len(toSrv) - 1
        /\ Head(toSrv) = toSrv[1] /\ Head(toSrv) \in TMessages /\ 1 \in 1..Len(toSrv)
        /\ \A i \in 1..(Len(toSrv) - 1) : Tail(toSrv)[i] = toSrv[i + 1] /\ i + 1 \in 1..Len(toSrv)
    BY <1>1, TailAt
  <1>3. Head(toSrv).type = "T" => Head(toSrv).call \in Calls
    BY <1>2 DEF TMessages
  <1>4. \A i \in 1..Len(toSrv') : i + 1 \in 1..Len(toSrv) /\ toSrv'[i] = toSrv[i + 1] /\ i + 1 # 1
    BY <1>2
  <1>5. \A i \in 1..Len(toSrv') : \A j \in 1..Len(toSrv') : i + 1 = j + 1 => i = j
    BY <1>2
  <1>. QED
    BY <1>2, <1>3, <1>4, <1>5 DEF CallInv

\* No call is NoCall.
LEMMA CallsAre == \A k \in Calls : k # NoCall
  BY WireAssumption DEF Calls, NoCall

\* A request with a slave, and the only one.
LEMMA OneSlave ==
  ASSUME ServerTypes, CallInv, SlaveInv, NEW s \in Slaves, spc[s] # "wait"
  PROVE  /\ job[s] \in Calls /\ job[s] # NoCall /\ ~In(job[s], exq) /\ HasJob(job[s])
         /\ \A r \in Slaves : job[r] = job[s] => r = s
         /\ \A C : SomeAt(job[s], C) <=> spc[s] \in C
  BY DEF ServerTypes, CallInv, SlaveInv, SomeAt, At, HasJob

\* A reply is put on the connection, unless it has hung up.
LEMMA Replies ==
  ASSUME toMnt \in Seq(RMessages), NEW m \in RMessages, Exreply(m)
  PROVE  toMnt' \in Seq(RMessages)
  BY AppendAt DEF Exreply

\* exportproc reads a request and queues it, or loses it at the end of exq.
LEMMA EnqueueServes ==
  ASSUME ServerInv, Enqueue, UNCHANGED ncalls
  PROVE  ServerInv'
  <1>. DEFINE m == Head(toSrv)
              k == m.call
  <1>1. /\ toSrv # <<>> /\ toSrv' = Tail(toSrv) /\ m.type = "T"
        /\ UNCHANGED <<epc, ereq, exql, fsl, work, spc, job, performed, done, toMnt, hung, killed>>
        /\ exq' = Append(exq, k) \/ exq' = exq
        /\ rec' = [rec EXCEPT ![k].tag = m.tag]
    BY DEF Enqueue
  <1>2. ServerTypes /\ CallInv /\ SlaveInv /\ RecInv /\ KillHitsItsRequest
    BY DEF ServerInv
  <1>3. /\ toSrv' \in Seq(TMessages) /\ m \in TMessages
        /\ \A i \in 1..Len(toSrv') : toSrv'[i].type = "T" => toSrv'[i].call # k
        /\ k \in Calls /\ Made(k) /\ ~In(k, exq) /\ ~HasJob(k)
        /\ \A i \in 1..Len(toSrv') : toSrv'[i].type = "T" =>
             /\ Made(toSrv'[i].call) /\ ~In(toSrv'[i].call, exq) /\ ~HasJob(toSrv'[i].call)
             /\ \A j \in 1..Len(toSrv') : toSrv'[j].type = "T" /\ toSrv'[j].call = toSrv'[i].call => i = j
    BY <1>1, <1>2, OneAtATime
  <1>. HIDE DEF m
  <1>4. exq \in Seq(Calls) /\ Distinct(exq)
    BY <1>2 DEF ServerTypes, CallInv
  <1>5. exq' \in Seq(Calls) /\ Distinct(exq') /\ \A x : In(x, exq') => x = k \/ In(x, exq)
    <2>1. k \in Calls /\ ~In(k, exq)
      BY <1>3
    <2>2. /\ Append(exq, k) \in Seq(Calls) /\ Distinct(Append(exq, k))
          /\ \A x : In(x, Append(exq, k)) <=> x = k \/ In(x, exq)
      BY <1>4, <2>1, AppendIn
    <2>. QED
      BY <1>1, <1>4, <2>2
  <1>6. rec' \in [Calls -> ExqRecs] /\ \A x \in Calls : SameExq(x)
    <2>1. m.tag \in Tags
      BY <1>3 DEF TMessages
    <2>2. rec \in [Calls -> ExqRecs]
      BY <1>2 DEF ServerTypes
    <2>3. PICK r : r = [rec[k] EXCEPT !.tag = m.tag]
      OBVIOUS
    <2>4. /\ r \in ExqRecs /\ r.slave = rec[k].slave /\ r.busy = rec[k].busy /\ r.finished = rec[k].finished
          /\ r.shut = rec[k].shut /\ r.flush = rec[k].flush
      BY <1>3, <2>1, <2>2, <2>3 DEF ExqRecs
    <2>5. /\ rec' \in [Calls -> ExqRecs] /\ rec'[k] = r
          /\ \A x \in Calls \ {k} : rec'[x] = rec[x]
      BY <1>1, <1>3, <2>2, <2>3, <2>4
    <2>. QED
      BY <2>4, <2>5 DEF SameExq
  <1>7. \A x : (Made(x)' <=> Made(x)) /\ (HasJob(x)' <=> HasJob(x)) /\ \A C : SomeAt(x, C)' <=> SomeAt(x, C)
    BY <1>1 DEF Made, HasJob, SomeAt, At
  <1>8. ServerTypes'
    BY <1>1, <1>2, <1>3, <1>5, <1>6 DEF ServerTypes
  <1>9. CallInv'
    <2>1. \A s \in Slaves : (job[s] # NoCall => Made(job[s]) /\ \A r \in Slaves : job[r] = job[s] => r = s)'
      BY <1>1, <1>2, <1>7 DEF CallInv
    <2>2. \A x : (In(x, exq) => Made(x) /\ ~HasJob(x))'
      BY <1>2, <1>3, <1>5, <1>7 DEF CallInv
    <2>3. ASSUME NEW i \in 1..Len(toSrv'), toSrv'[i].type = "T"
          PROVE  /\ Made(toSrv[i].call)' /\ ~In(toSrv'[i].call, exq') /\ ~HasJob(toSrv[i].call)'
                 /\ \A j \in 1..Len(toSrv') : toSrv'[j].type = "T" /\ toSrv'[j].call = toSrv'[i].call => i = j
      <3>1. PICK x : x = toSrv'[i].call
        OBVIOUS
      <3>2. Made(x)' /\ ~In(x, exq') /\ ~HasJob(x)'
        BY <2>3, <3>1, <1>3, <1>5, <1>7
      <3>. QED
        BY <2>3, <3>1, <3>2, <1>3
    <2>. QED
      BY <1>5, <2>1, <2>2, <2>3 DEF CallInv
  <1>10. \A s \in Slaves : job[s] # NoCall => job[s] \in Calls
    BY <1>2 DEF ServerTypes
  <1>11. SlaveInv'
    <2>1. \A s \in Slaves : spc[s] \in Working => rec'[job[s]].slave = rec[job[s]].slave /\ (rec'[job[s]].shut <=> rec[job[s]].shut)
      BY <1>2, <1>6, <1>10 DEF SlaveInv, SameExq, Working
    <2>. QED
      BY <1>1, <1>2, <2>1 DEF SlaveInv
  <1>12. RecInv'
    <2>1. \A x \in Calls : /\ rec'[x].busy <=> SomeAt(x, Busy)'
                           /\ rec'[x].finished <=> SomeAt(x, {"remove"})'
                           /\ rec'[x].flush # <<>> => SomeAt(x, Working)'
                           /\ rec'[x].flush # <<>> /\ rec'[x].finished => rec'[x].shut
                           /\ rec'[x].shut => hung
      <3>1. SUFFICES ASSUME NEW x \in Calls
                     PROVE  /\ rec'[x].busy <=> SomeAt(x, Busy)
                            /\ rec'[x].finished <=> SomeAt(x, {"remove"})
                            /\ rec'[x].flush # <<>> => SomeAt(x, Working)
                            /\ rec'[x].flush # <<>> /\ rec'[x].finished => rec'[x].shut
                            /\ rec'[x].shut => hung
        BY <1>7
      <3>2. SameExq(x)
        BY <1>6
      <3>. QED
        BY <3>2, <1>2 DEF RecInv, SameExq
    <2>2. work' = work /\ (hung' <=> hung) /\ epc' = epc
      BY <1>1
    <2>3. Distinct(work)' /\ (\A x : In(x, work') => SomeAt(x, Working)') /\ (epc' \in {"shut", "gone"} => hung')
      BY <2>2, <1>2, <1>7 DEF RecInv
    <2>4. \A x \in Calls : rec'[x].shut => hung'
      BY <2>1, <2>2
    <2>. QED
      BY <2>1, <2>3, <2>4 DEF RecInv
  <1>13. KillHitsItsRequest'
    BY <1>1, <1>2, <1>6, <1>10 DEF KillHitsItsRequest, SameExq, SlaveInv
  <1>. QED
    BY <1>8, <1>9, <1>11, <1>12, <1>13 DEF ServerInv

\* Calls go from the connection or the queue, or are done with.
LEMMA CallsLeft ==
  ASSUME ServerTypes, CallInv, UNCHANGED ncalls,
         toSrv' = toSrv \/ (toSrv # <<>> /\ toSrv' = Tail(toSrv)),
         Distinct(exq'), \A x : In(x, exq') => In(x, exq),
         \A s \in Slaves : job'[s] = job[s] \/ job'[s] = NoCall
  PROVE  CallInv' /\ toSrv' \in Seq(TMessages)
  <1>1. \A x : (Made(x)' <=> Made(x)) /\ (x # NoCall => (HasJob(x)' => HasJob(x)))
    BY DEF Made, HasJob
  <1>2. /\ toSrv' \in Seq(TMessages)
        /\ \A i \in 1..Len(toSrv') : toSrv'[i].type = "T" =>
              /\ Made(toSrv'[i].call) /\ ~In(toSrv'[i].call, exq) /\ ~HasJob(toSrv'[i].call)
              /\ \A j \in 1..Len(toSrv') : toSrv'[j].type = "T" /\ toSrv'[j].call = toSrv'[i].call => i = j
    <2>1. CASE toSrv' = toSrv
      BY <2>1 DEF ServerTypes, CallInv
    <2>2. CASE toSrv # <<>> /\ toSrv' = Tail(toSrv)
      BY <2>2, OneAtATime
    <2>. QED
      BY <2>1, <2>2
  <1>3. \A s \in Slaves : (job[s] # NoCall => Made(job[s]) /\ \A r \in Slaves : job[r] = job[s] => r = s)'
    BY <1>1 DEF CallInv
  <1>4. \A x : (In(x, exq) => Made(x) /\ ~HasJob(x))'
    <2>1. \A x : In(x, exq) => x # NoCall
      BY InSet, CallsAre DEF ServerTypes
    <2>. QED
      BY <1>1, <2>1 DEF CallInv
  <1>5. ASSUME NEW i \in 1..Len(toSrv'), toSrv'[i].type = "T"
        PROVE  /\ Made(toSrv[i].call)' /\ ~In(toSrv'[i].call, exq') /\ ~HasJob(toSrv[i].call)'
               /\ \A j \in 1..Len(toSrv') : toSrv'[j].type = "T" /\ toSrv'[j].call = toSrv'[i].call => i = j
    <2>1. PICK x : x = toSrv'[i].call
      OBVIOUS
    <2>2. x \in Calls
      BY <1>2, <1>5, <2>1 DEF TMessages
    <2>3. Made(x)' /\ ~In(x, exq') /\ ~HasJob(x)'
      BY <1>1, <1>2, <1>5, <2>1, <2>2, CallsAre
    <2>. QED
      BY <1>2, <1>5, <2>1, <2>3
  <1>. QED
    BY <1>2, <1>3, <1>4, <1>5 DEF CallInv

\* exflush, first part: the request may still be queued, and is taken off.
LEMMA FlushQueuedServes ==
  ASSUME ServerInv, FlushQueued, UNCHANGED ncalls
  PROVE  ServerInv'
  <1>. DEFINE m == Head(toSrv)
              found == WithTag(exq, m.oldtag)
              h == Head(found)
  <1>1. /\ toSrv # <<>> /\ toSrv' = Tail(toSrv) /\ m.type = "Tflush" /\ epc = "recv"
        /\ UNCHANGED <<tail, lost, exql, fsl, work, spc, job, performed, done, hung, killed>>
        /\ \/ /\ found # <<>>
              /\ exq' = Without(exq, {h})
              /\ rec' = [rec EXCEPT ![h] = BlankExq]
              /\ Exreply(Rflush(m))
              /\ UNCHANGED <<epc, ereq>>
           \/ /\ ereq' = m /\ epc' = "flush"
              /\ UNCHANGED <<exq, rec, toMnt>>
    BY DEF FlushQueued
  <1>2. ServerTypes /\ CallInv /\ SlaveInv /\ RecInv /\ KillHitsItsRequest
    BY DEF ServerInv
  <1>3. m \in TMessages /\ m.tag \in Tags /\ Rflush(m) \in RMessages
    <2>1. m \in TMessages
      BY <1>1, <1>2, TailAt DEF ServerTypes
    <2>. QED
      BY <1>1, <2>1 DEF TMessages, RMessages, Rflush
  <1>4. exq \in Seq(Calls) /\ Distinct(exq)
    BY <1>2 DEF ServerTypes, CallInv
  <1>5. found # <<>> => In(h, exq) /\ h \in Calls /\ rec[h].tag = m.oldtag
    <2>1. found \in Seq(Calls) /\ \A x : In(x, found) => x \notin {k \in Calls : rec[k].tag # m.oldtag} /\ In(x, exq)
      BY <1>4, WithoutIn DEF WithTag
    <2>. HIDE DEF found
    <2>2. found # <<>> => Head(found) = found[1] /\ 1 \in 1..Len(found) /\ Head(found) \in Calls
      BY <2>1, TailAt
    <2>. QED
      BY <2>1, <2>2 DEF In
  <1>. HIDE DEF m, found, h
  <1>6. exq' \in Seq(Calls) /\ Distinct(exq') /\ \A x : In(x, exq') => In(x, exq)
    BY <1>1, <1>4, WithoutIn
  <1>7. \A s \in Slaves : job[s] = job'[s] /\ (job[s] # NoCall => job[s] \in Calls /\ rec'[job[s]] = rec[job[s]])
    <2>1. found # <<>> => \A s \in Slaves : job[s] # h
      BY <1>2, <1>5 DEF CallInv, HasJob
    <2>2. rec \in [Calls -> ExqRecs] /\ job \in [Slaves -> Calls \cup {NoCall}]
      BY <1>2 DEF ServerTypes
    <2>. QED
      BY <1>1, <2>1, <2>2
  <1>8. rec' \in [Calls -> ExqRecs] /\ \A k \in Calls : rec'[k] = rec[k] \/ (rec'[k] = BlankExq /\ ~HasJob(k))
    <2>1. BlankExq \in ExqRecs
      BY WireAssumption DEF BlankExq, ExqRecs, Tags
    <2>2. rec \in [Calls -> ExqRecs]
      BY <1>2 DEF ServerTypes
    <2>3. found # <<>> => ~HasJob(h)
      BY <1>2, <1>5 DEF CallInv
    <2>4. CASE found # <<>> /\ rec' = [rec EXCEPT ![h] = BlankExq]
      BY <2>4, <1>5, <2>1, <2>2, <2>3
    <2>5. CASE rec' = rec
      BY <2>5, <2>2
    <2>. QED
      BY <1>1, <2>4, <2>5
  <1>9. toMnt' \in Seq(RMessages)
    <2>1. toMnt \in Seq(RMessages)
      BY <1>2 DEF ServerTypes
    <2>. QED
      BY <1>1, <1>3, <2>1, Replies
  <1>10. CallInv' /\ toSrv' \in Seq(TMessages)
    BY <1>1, <1>2, <1>6, <1>7, CallsLeft
  <1>11. ServerTypes'
    BY <1>1, <1>2, <1>3, <1>6, <1>8, <1>9, <1>10 DEF ServerTypes, EPC
  <1>12. SlaveInv'
    BY <1>1, <1>2, <1>7 DEF SlaveInv, Working
  <1>13. RecInv'
    <2>1. \A k : \A C : SomeAt(k, C)' <=> SomeAt(k, C)
      BY <1>1 DEF SomeAt, At
    <2>2. ASSUME NEW k \in Calls
          PROVE  /\ rec'[k].busy <=> SomeAt(k, Busy)'
                 /\ rec'[k].finished <=> SomeAt(k, {"remove"})'
                 /\ rec'[k].flush # <<>> => SomeAt(k, Working)'
                 /\ rec'[k].flush # <<>> /\ rec'[k].finished => rec'[k].shut
                 /\ rec'[k].shut => hung'
      <3>1. CASE rec'[k] = rec[k]
        BY <3>1, <2>1, <1>1, <1>2 DEF RecInv
      <3>2. CASE rec'[k] = BlankExq /\ ~HasJob(k)
        <4>1. \A C : ~SomeAt(k, C)
          BY <3>2 DEF HasJob, SomeAt, At
        <4>. QED
          BY <3>2, <4>1, <2>1 DEF BlankExq
      <3>. QED
        BY <3>1, <3>2, <1>8
    <2>. QED
      BY <2>1, <2>2, <1>1, <1>2 DEF RecInv
  <1>14. KillHitsItsRequest'
    BY <1>1, <1>2, <1>7 DEF KillHitsItsRequest, SlaveInv
  <1>. QED
    BY <1>10, <1>11, <1>12, <1>13, <1>14 DEF ServerInv

\* exflush, second part: the flush goes on the list of the request in progress,
\* whose slave is killed if it is busy, or is answered.
LEMMA FlushStartedServes ==
  ASSUME ServerInv, FlushStarted, UNCHANGED ncalls
  PROVE  ServerInv'
  <1>. DEFINE found == WithTag(work, ereq.oldtag)
              k == Head(found)
              pending == found # <<>> /\ ~rec[k].finished
  <1>1. /\ epc = "flush" /\ epc' = "recv" /\ ereq' = NoMsg
        /\ UNCHANGED <<exq, tail, lost, exql, work, spc, job, performed, done, toSrv, hung>>
        /\ \/ /\ pending
              /\ rec' = [rec EXCEPT ![k].flush = Append(@, ereq)]
              /\ killed' = InterruptSlave(k)
              /\ UNCHANGED toMnt
           \/ /\ Exreply(Rflush(ereq))
              /\ UNCHANGED <<rec, killed>>
    BY DEF FlushStarted, EStep
  <1>2. ServerTypes /\ CallInv /\ SlaveInv /\ RecInv /\ KillHitsItsRequest
    BY DEF ServerInv
  <1>3. ereq \in TMessages /\ Rflush(ereq) \in RMessages
    <2>1. ereq \in TMessages /\ ereq.type = "Tflush"
      BY <1>1, <1>2 DEF ServerTypes
    <2>. QED
      BY <2>1 DEF TMessages, RMessages, Rflush
  <1>4. work \in Seq(Calls) /\ rec \in [Calls -> ExqRecs] /\ killed \in [Clients \cup Slaves -> BOOLEAN]
        /\ job \in [Slaves -> Calls \cup {NoCall}] /\ exq \in Seq(Calls) /\ toSrv \in Seq(TMessages) /\ toMnt \in Seq(RMessages)
    BY <1>2 DEF ServerTypes
  <1>5. found # <<>> => In(k, work) /\ k \in Calls
    <2>1. found \in Seq(Calls) /\ \A x : In(x, found) => In(x, work)
      BY <1>4, WithoutIn DEF WithTag
    <2>. HIDE DEF found
    <2>2. found # <<>> => Head(found) = found[1] /\ 1 \in 1..Len(found) /\ Head(found) \in Calls
      BY <2>1, TailAt
    <2>. QED
      BY <2>1, <2>2 DEF In
  <1>. HIDE DEF found, k
  <1>6. CASE /\ Exreply(Rflush(ereq)) /\ UNCHANGED <<rec, killed>>
    <2>1. toMnt' \in Seq(RMessages)
      BY <1>3, <1>4, <1>6, Replies
    <2>2. \A c : \A C : (SomeAt(c, C)' <=> SomeAt(c, C)) /\ (Made(c)' <=> Made(c)) /\ (HasJob(c)' <=> HasJob(c))
      BY <1>1 DEF SomeAt, At, Made, HasJob
    <2>. QED
      BY <2>1, <2>2, <1>1, <1>2, <1>6 DEF ServerInv, ServerTypes, EPC, CallInv, SlaveInv, RecInv, KillHitsItsRequest, Made, HasJob
  <1>7. CASE pending /\ rec' = [rec EXCEPT ![k].flush = Append(@, ereq)] /\ killed' = InterruptSlave(k) /\ UNCHANGED toMnt
    <2>1. k \in Calls /\ In(k, work) /\ ~rec[k].finished
      BY <1>5, <1>7
    <2>2. PICK s \in Slaves : job[s] = k /\ spc[s] \in Working /\ rec[k].slave = s /\ \A r \in Slaves : job[r] = k => r = s
      BY <2>1, <1>2, CallsAre DEF RecInv, SomeAt, At, SlaveInv, CallInv
    <2>3. Append(rec[k].flush, ereq) \in Seq(TMessages) /\ Append(rec[k].flush, ereq) # <<>>
      <3>1. rec[k].flush \in Seq(TMessages)
        BY <2>1, <1>4 DEF ExqRecs
      <3>. QED
        BY <3>1, <1>3
    <2>4. /\ rec' \in [Calls -> ExqRecs] /\ \A c \in Calls \ {k} : rec'[c] = rec[c]
          /\ rec'[k].flush = Append(rec[k].flush, ereq) /\ rec'[k].slave = rec[k].slave /\ rec'[k].busy = rec[k].busy
          /\ rec'[k].finished = rec[k].finished /\ rec'[k].shut = rec[k].shut
      BY <1>4, <1>7, <2>1, <2>3 DEF ExqRecs
    <2>5. killed' \in [Clients \cup Slaves -> BOOLEAN] /\ \A r \in Slaves : killed'[r] => killed[r] \/ (r = s /\ rec[k].busy)
      BY <1>4, <1>7, <2>2 DEF InterruptSlave
    <2>6. \A c : \A C : (SomeAt(c, C)' <=> SomeAt(c, C))
      BY <1>1 DEF SomeAt, At
    <2>7. ServerTypes'
      BY <1>1, <1>2, <1>7, <2>4, <2>5 DEF ServerTypes, EPC
    <2>8. CallInv'
      BY <1>1, <1>2, CallsLeft DEF CallInv
    <2>9. \A r \in Slaves : job[r] # NoCall => job[r] \in Calls
      BY <1>4
    <2>10. SlaveInv'
      BY <1>1, <1>2, <2>4, <2>9, CallsAre DEF SlaveInv, Working
    <2>11. RecInv'
      <3>1. SomeAt(k, Working)
        BY <2>2 DEF SomeAt, At
      <3>. QED
        BY <1>1, <1>2, <2>1, <2>4, <2>6, <3>1 DEF RecInv, EPC
    <2>12. KillHitsItsRequest'
      <3>1. ASSUME NEW r \in Slaves, killed'[r]
            PROVE  spc'[r] \notin {"wait", "dispatch"} /\ (spc'[r] = "fcall" => rec'[job[r]].flush # <<>> \/ rec'[job[r]].shut)
        <4>1. CASE r = s
          BY <4>1, <1>1, <2>2, <2>3, <2>4 DEF Working
        <4>2. CASE r # s
          <5>1. killed[r] /\ job[r] # k
            BY <3>1, <4>2, <2>2, <2>5
          <5>2. spc[r] \notin {"wait", "dispatch"} /\ job[r] \in Calls
            BY <5>1, <1>2, <2>9 DEF KillHitsItsRequest, SlaveInv
          <5>. QED
            BY <5>1, <5>2, <1>1, <1>2, <2>4 DEF KillHitsItsRequest
        <4>. QED
          BY <4>1, <4>2
      <3>. QED
        BY <3>1, <1>1 DEF KillHitsItsRequest
    <2>. QED
      BY <2>7, <2>8, <2>10, <2>11, <2>12 DEF ServerInv
  <1>. QED
    BY <1>1, <1>6, <1>7

\* exshutdown, first part: what is queued is dropped.
LEMMA ShutQueuedServes ==
  ASSUME ServerInv, ShutQueued, UNCHANGED ncalls
  PROVE  ServerInv'
  <1>1. /\ hung /\ epc = "recv" /\ epc' = "shut" /\ exq' = <<>>
        /\ rec' = [k \in Calls |-> IF k \in Range(exq) THEN BlankExq ELSE rec[k]]
        /\ UNCHANGED <<ereq, tail, lost, exql, fsl, work, spc, job, performed, done, toSrv, toMnt, hung, killed>>
    BY DEF ShutQueued, EStep, wirevars
  <1>2. ServerTypes /\ CallInv /\ SlaveInv /\ RecInv /\ KillHitsItsRequest
    BY DEF ServerInv
  <1>3. \A x : x \in Range(exq) <=> In(x, exq)
    BY <1>2, InRange DEF ServerTypes
  <1>4. BlankExq \in ExqRecs
    BY WireAssumption DEF BlankExq, ExqRecs, Tags
  <1>5. rec \in [Calls -> ExqRecs] /\ job \in [Slaves -> Calls \cup {NoCall}]
    BY <1>2 DEF ServerTypes
  <1>6. rec' \in [Calls -> ExqRecs] /\ \A k \in Calls : rec'[k] = rec[k] \/ (rec'[k] = BlankExq /\ ~HasJob(k))
    BY <1>1, <1>2, <1>3, <1>4, <1>5 DEF CallInv
  <1>7. \A s \in Slaves : job[s] # NoCall => job[s] \in Calls /\ rec'[job[s]] = rec[job[s]]
    BY <1>5, <1>6 DEF HasJob
  <1>8. exq' \in Seq(Calls) /\ Distinct(exq') /\ \A x : ~In(x, exq')
    BY <1>1, EmptyIn DEF Distinct
  <1>9. CallInv'
    BY <1>1, <1>2, <1>8, CallsLeft
  <1>10. ServerTypes'
    BY <1>1, <1>2, <1>6, <1>8 DEF ServerTypes, EPC
  <1>11. SlaveInv'
    BY <1>1, <1>2, <1>7 DEF SlaveInv, Working
  <1>12. RecInv'
    <2>1. \A k : \A C : SomeAt(k, C)' <=> SomeAt(k, C)
      BY <1>1 DEF SomeAt, At
    <2>2. ASSUME NEW k \in Calls
          PROVE  /\ rec'[k].busy <=> SomeAt(k, Busy)'
                 /\ rec'[k].finished <=> SomeAt(k, {"remove"})'
                 /\ rec'[k].flush # <<>> => SomeAt(k, Working)'
                 /\ rec'[k].flush # <<>> /\ rec'[k].finished => rec'[k].shut
                 /\ rec'[k].shut => hung'
      <3>1. CASE rec'[k] = rec[k]
        BY <3>1, <2>1, <1>1, <1>2 DEF RecInv
      <3>2. CASE rec'[k] = BlankExq /\ ~HasJob(k)
        <4>1. \A C : ~SomeAt(k, C)
          BY <3>2 DEF HasJob, SomeAt, At
        <4>. QED
          BY <3>2, <4>1, <2>1 DEF BlankExq
      <3>. QED
        BY <3>1, <3>2, <1>6
    <2>. QED
      BY <2>1, <2>2, <1>1, <1>2 DEF RecInv
  <1>13. KillHitsItsRequest'
    BY <1>1, <1>2, <1>7 DEF KillHitsItsRequest, SlaveInv
  <1>. QED
    BY <1>9, <1>10, <1>11, <1>12, <1>13 DEF ServerInv

\* exshutdown, second part: what is in progress is shut down.
LEMMA ShutStartedServes ==
  ASSUME ServerInv, ShutStarted, UNCHANGED ncalls
  PROVE  ServerInv'
  <1>1. /\ epc = "shut" /\ epc' = "gone" /\ work' = <<>>
        /\ rec' = [k \in Calls |-> IF k \in Range(work) THEN [rec[k] EXCEPT !.shut = TRUE] ELSE rec[k]]
        /\ killed' = [p \in DOMAIN killed |-> killed[p] \/ \E k \in Range(work) : rec[k].slave = p]
        /\ UNCHANGED <<ereq, exq, tail, lost, exql, fsl, spc, job, performed, done, toSrv, toMnt, hung>>
    BY DEF ShutStarted, EStep, wirevars
  <1>2. ServerTypes /\ CallInv /\ SlaveInv /\ RecInv /\ KillHitsItsRequest
    BY DEF ServerInv
  <1>3. \A x : x \in Range(work) <=> In(x, work)
    BY <1>2, InRange DEF ServerTypes
  <1>4. rec \in [Calls -> ExqRecs] /\ job \in [Slaves -> Calls \cup {NoCall}] /\ killed \in [Clients \cup Slaves -> BOOLEAN]
        /\ work \in Seq(Calls)
    BY <1>2 DEF ServerTypes
  <1>5. /\ rec' \in [Calls -> ExqRecs]
        /\ \A k \in Calls : /\ rec'[k].slave = rec[k].slave /\ rec'[k].busy = rec[k].busy
                            /\ rec'[k].finished = rec[k].finished /\ rec'[k].flush = rec[k].flush
                            /\ rec'[k].shut <=> rec[k].shut \/ In(k, work)
    <2>1. \A r \in ExqRecs : LET q == [r EXCEPT !.shut = TRUE]
                            IN /\ q \in ExqRecs /\ q.slave = r.slave /\ q.busy = r.busy
                               /\ q.finished = r.finished /\ q.flush = r.flush /\ q.shut
      BY DEF ExqRecs
    <2>2. \A k \in Calls : rec[k] \in ExqRecs /\ rec'[k] = IF In(k, work) THEN [rec[k] EXCEPT !.shut = TRUE] ELSE rec[k]
      BY <1>1, <1>3, <1>4
    <2>3. ASSUME NEW k \in Calls
          PROVE  /\ rec'[k] \in ExqRecs
                 /\ rec'[k].slave = rec[k].slave /\ rec'[k].busy = rec[k].busy
                 /\ rec'[k].finished = rec[k].finished /\ rec'[k].flush = rec[k].flush
                 /\ rec'[k].shut <=> rec[k].shut \/ In(k, work)
      <3>1. PICK r, q : r = rec[k] /\ q = [r EXCEPT !.shut = TRUE]
        OBVIOUS
      <3>2. rec'[k] = IF In(k, work) THEN q ELSE r
        BY <2>2, <3>1
      <3>3. r \in ExqRecs
        BY <2>2, <3>1
      <3>4. /\ q \in ExqRecs /\ q.slave = r.slave /\ q.busy = r.busy
            /\ q.finished = r.finished /\ q.flush = r.flush /\ q.shut
        BY <3>1, <3>3, <2>1
      <3>. QED
        BY <3>1, <3>2, <3>3, <3>4
    <2>4. rec' \in [Calls -> ExqRecs]
      <3>1. DOMAIN rec' = Calls /\ rec' = [k \in DOMAIN rec' |-> rec'[k]]
        BY <1>1
      <3>2. \A k \in Calls : rec'[k] \in ExqRecs
        BY <2>3
      <3>. QED
        BY <3>1, <3>2, Zenon
    <2>5. \A k \in Calls : rec'[k].slave = rec[k].slave /\ rec'[k].busy = rec[k].busy
      BY <2>3
    <2>6. \A k \in Calls : rec'[k].finished = rec[k].finished /\ rec'[k].flush = rec[k].flush
      BY <2>3
    <2>7. \A k \in Calls : rec'[k].shut <=> rec[k].shut \/ In(k, work)
      BY <2>3
    <2>. QED
      BY <2>4, <2>5, <2>6, <2>7
  <1>6. \A s \in Slaves : job[s] # NoCall => job[s] \in Calls
    BY <1>4
  <1>7. killed' \in [Clients \cup Slaves -> BOOLEAN]
    BY <1>1, <1>4
  <1>8. ASSUME NEW s \in Slaves, killed'[s]
        PROVE  killed[s] \/ (spc[s] \in Working /\ In(job[s], work) /\ job[s] \in Calls)
    <2>1. SUFFICES ASSUME NEW k, In(k, work), rec[k].slave = s PROVE spc[s] \in Working /\ job[s] = k /\ k \in Calls
      BY <1>1, <1>3, <1>4, <1>8
    <2>2. k \in Calls
      BY <2>1, <1>4, InSet
    <2>3. PICK r \in Slaves : job[r] = k /\ spc[r] \in Working
      BY <2>1, <1>2 DEF RecInv, SomeAt, At
    <2>. QED
      BY <2>1, <2>2, <2>3, <1>2 DEF SlaveInv
  <1>9. CallInv'
    BY <1>1, <1>2, CallsLeft DEF CallInv
  <1>10. ServerTypes'
    BY <1>1, <1>2, <1>5, <1>7 DEF ServerTypes, EPC
  <1>11. SlaveInv'
    <2>1. ASSUME NEW s \in Slaves, spc[s] \in Working PROVE rec'[job[s]].slave = s /\ rec'[job[s]].shut
      BY <2>1, <1>2, <1>5, <1>6, CallsAre DEF SlaveInv, Working
    <2>. QED
      BY <2>1, <1>1, <1>2 DEF SlaveInv
  <1>12. RecInv'
    <2>1. \A k : \A C : SomeAt(k, C)' <=> SomeAt(k, C)
      BY <1>1 DEF SomeAt, At
    <2>2. Distinct(work') /\ \A k : ~In(k, work')
      BY <1>1, EmptyIn DEF Distinct
    <2>3. hung' = hung /\ hung
      BY <1>1, <1>2 DEF RecInv
    <2>. QED
      BY <2>1, <2>2, <2>3, <1>2, <1>5 DEF RecInv
  <1>13. KillHitsItsRequest'
    <2>1. ASSUME NEW s \in Slaves, killed'[s]
          PROVE  spc'[s] \notin {"wait", "dispatch"} /\ (spc'[s] = "fcall" => rec'[job[s]].flush # <<>> \/ rec'[job[s]].shut)
      <3>1. CASE killed[s]
        BY <3>1, <1>1, <1>2, <1>5, <1>6 DEF KillHitsItsRequest, SlaveInv
      <3>2. CASE spc[s] \in Working /\ In(job[s], work) /\ job[s] \in Calls
        BY <3>2, <1>1, <1>5 DEF Working
      <3>. QED
        BY <2>1, <3>1, <3>2, <1>8
    <2>. QED
      BY <2>1, <1>1 DEF KillHitsItsRequest
  <1>. QED
    BY <1>9, <1>10, <1>11, <1>12, <1>13 DEF ServerInv

\* A slave takes a request from the queue.
LEMMA TakeServes ==
  ASSUME ServerInv, NEW s \in Slaves, Take(s), UNCHANGED ncalls
  PROVE  ServerInv'
  <1>1. ServerTypes /\ CallInv /\ SlaveInv /\ RecInv /\ KillHitsItsRequest
    BY DEF ServerInv
  <1>2. UNCHANGED <<epc, ereq, tail, lost, fsl, work, rec, performed, done, toSrv, toMnt, hung>>
    BY DEF Take, wirevars
  <1>3. /\ ~killed[s] /\ killed' = killed /\ exql = NoOne /\ exq # <<>> /\ exql' = s
        /\ Moves(s, "wait", "dispatch") /\ job' = [job EXCEPT ![s] = Head(exq)] /\ exq' = Tail(exq)
    <2>1. killed[s] => spc[s] # "wait"
      BY <1>1 DEF KillHitsItsRequest
    <2>. QED
      BY <2>1, <1>1, SlaveMoves DEF Take, SStep, Hold, SPC
  <1>4. exq \in Seq(Calls) /\ Distinct(exq) /\ job \in [Slaves -> Calls \cup {NoCall}] /\ exq # <<>>
    BY <1>1, <1>3 DEF ServerTypes, CallInv
  <1>5. /\ Tail(exq) \in Seq(Calls) /\ Head(exq) \in Calls /\ In(Head(exq), exq) /\ Distinct(Tail(exq))
        /\ \A x : In(x, Tail(exq)) <=> x # Head(exq) /\ In(x, exq)
    BY <1>4, TailIn
  <1>6. /\ job' \in [Slaves -> Calls \cup {NoCall}] /\ job'[s] = Head(exq) /\ \A r \in Slaves : r # s => job'[r] = job[r]
        /\ job[s] = NoCall /\ spc[s] = "wait" /\ spc'[s] = "dispatch" /\ \A r \in Slaves : r # s => spc'[r] = spc[r]
        /\ Head(exq) # NoCall
    BY <1>1, <1>3, <1>4, <1>5, CallsAre DEF Moves, SlaveInv
  <1>7. \A x : /\ Made(x)' <=> Made(x)
               /\ x # NoCall => (HasJob(x)' <=> HasJob(x) \/ x = Head(exq))
    BY <1>6 DEF Made, HasJob
  <1>8. \A k \in Calls : \A C \in {Working, Busy, {"remove"}} : SomeAt(k, C)' <=> SomeAt(k, C)
    <2>1. \A C \in {Working, Busy, {"remove"}} : "dispatch" \notin C /\ "wait" \notin C
      BY DEF Working, Busy
    <2>. QED
      BY <2>1, <1>6 DEF SomeAt, At
  <1>9. ServerTypes'
    BY <1>1, <1>2, <1>3, <1>5, <1>6 DEF ServerTypes, Moves
  <1>10. CallInv'
    <2>1. \A r \in Slaves : (job[r] # NoCall => Made(job[r]) /\ \A q \in Slaves : job[q] = job[r] => q = r)'
      <3>1. \A r \in Slaves : job[r] # Head(exq) /\ Made(Head(exq))
        BY <1>1, <1>5 DEF CallInv, HasJob
      <3>2. \A r \in Slaves : (job[r] # NoCall => Made(job[r]))'
        BY <1>1, <1>6, <1>7, <3>1 DEF CallInv
      <3>3. \A r, q \in Slaves : (job[r] # NoCall /\ job[q] = job[r] => q = r)'
        BY <1>1, <1>6, <3>1 DEF CallInv
      <3>. QED
        BY <3>2, <3>3
    <2>2. \A x : (In(x, exq) => Made(x) /\ ~HasJob(x))'
      <3>1. \A x : In(x, exq) => x # NoCall
        BY <1>4, InSet, CallsAre
      <3>. QED
        BY <1>1, <1>3, <1>5, <1>7, <3>1 DEF CallInv
    <2>3. ASSUME NEW i \in 1..Len(toSrv'), toSrv'[i].type = "T"
          PROVE  /\ Made(toSrv[i].call)' /\ ~In(toSrv'[i].call, exq') /\ ~HasJob(toSrv[i].call)'
                 /\ \A j \in 1..Len(toSrv') : toSrv'[j].type = "T" /\ toSrv'[j].call = toSrv'[i].call => i = j
      <3>1. PICK x : x = toSrv[i].call
        OBVIOUS
      <3>2. i \in 1..Len(toSrv) /\ toSrv[i] \in TMessages /\ toSrv[i].type = "T"
        BY <2>3, <1>1, <1>2 DEF ServerTypes
      <3>3. x \in Calls
        BY <3>1, <3>2 DEF TMessages
      <3>4. Made(x) /\ ~In(x, exq) /\ ~HasJob(x) /\ \A j \in 1..Len(toSrv) : toSrv[j].type = "T" /\ toSrv[j].call = x => i = j
        BY <3>1, <3>2, <1>1 DEF CallInv
      <3>5. Made(x)' /\ ~In(x, exq') /\ ~HasJob(x)'
        BY <3>3, <3>4, <1>3, <1>5, <1>7, CallsAre
      <3>. QED
        BY <3>1, <3>4, <3>5, <1>2
    <2>. QED
      BY <2>1, <2>2, <2>3, <1>3, <1>5 DEF CallInv
  <1>11. SlaveInv'
    <2>1. \A r \in Slaves : spc[r] # "dispatch"
      BY <1>1, <1>3, WireAssumption DEF SlaveInv
    <2>. QED
      BY <2>1, <1>1, <1>2, <1>3, <1>6 DEF SlaveInv, Working
  <1>12. RecInv'
    <2>1. \A x : In(x, work) => x \in Calls
      BY <1>1, InSet DEF ServerTypes
    <2>. QED
      BY <2>1, <1>1, <1>2, <1>8 DEF RecInv
  <1>13. KillHitsItsRequest'
    BY <1>1, <1>2, <1>3, <1>6 DEF KillHitsItsRequest
  <1>. QED
    BY <1>9, <1>10, <1>11, <1>12, <1>13 DEF ServerInv

\* It puts it on the work list.
LEMMA DispatchServes ==
  ASSUME ServerInv, NEW s \in Slaves, Dispatch(s), UNCHANGED ncalls
  PROVE  ServerInv'
  <1>0. PICK k : k = job[s]
    OBVIOUS
  <1>1. ServerTypes /\ CallInv /\ SlaveInv /\ RecInv /\ KillHitsItsRequest
    BY DEF ServerInv
  <1>2. /\ UNCHANGED <<epc, ereq, exq, tail, lost, fsl, job, performed, done, toSrv, toMnt, hung>>
        /\ Moves(s, "dispatch", "fcall") /\ killed' = [killed EXCEPT ![s] = FALSE]
        /\ rec' = [rec EXCEPT ![k].slave = s, ![k].busy = TRUE] /\ work' = <<k>> \o work /\ exql' = NoOne
    BY <1>1, SlaveMoves, <1>0 DEF Dispatch, wirevars, Notkilled, SPC
  <1>3. /\ k \in Calls /\ k # NoCall /\ \A r \in Slaves : job[r] = k => r = s
        /\ \A C : SomeAt(k, C) <=> spc[s] \in C
    BY <1>0, <1>1, <1>2, OneSlave DEF Moves
  <1>4. /\ spc[s] = "dispatch" /\ spc'[s] = "fcall" /\ spc' \in [Slaves -> SPC]
        /\ \A r \in Slaves : r # s => spc'[r] = spc[r]
    BY <1>2 DEF Moves
  <1>5. ~SomeAt(k, Working) /\ ~SomeAt(k, Busy) /\ ~SomeAt(k, {"remove"}) /\ ~In(k, work)
    BY <1>1, <1>3, <1>4 DEF RecInv, Working, Busy
  <1>6. /\ rec \in [Calls -> ExqRecs] /\ work \in Seq(Calls) /\ killed \in [Clients \cup Slaves -> BOOLEAN]
        /\ job \in [Slaves -> Calls \cup {NoCall}] /\ Distinct(work)
    BY <1>1 DEF ServerTypes, RecInv
  <1>7. /\ rec' \in [Calls -> ExqRecs] /\ \A c \in Calls : c # k => rec'[c] = rec[c]
        /\ rec'[k].slave = s /\ rec'[k].busy /\ rec'[k].finished = rec[k].finished
        /\ rec'[k].shut = rec[k].shut /\ rec'[k].flush = rec[k].flush
    <2>1. PICK q : q = [rec[k] EXCEPT !.slave = s, !.busy = TRUE]
      OBVIOUS
    <2>2. rec[k] \in ExqRecs
      BY <1>3, <1>6
    <2>3. q \in ExqRecs /\ q.slave = s /\ q.busy /\ q.finished = rec[k].finished /\ q.shut = rec[k].shut /\ q.flush = rec[k].flush
      BY <2>1, <2>2 DEF ExqRecs
    <2>4. rec' = [rec EXCEPT ![k] = q]
      BY <1>2, <1>3, <1>6, <2>1, <2>2 DEF ExqRecs
    <2>. QED
      BY <2>3, <2>4, <1>3, <1>6
  <1>8. work' \in Seq(Calls) /\ Distinct(work') /\ \A x : In(x, work') <=> x = k \/ In(x, work)
    <2>1. /\ <<k>> \o work \in Seq(Calls) /\ Distinct(<<k>> \o work)
          /\ \A x : In(x, <<k>> \o work) <=> x = k \/ In(x, work)
      BY <1>3, <1>5, <1>6, ConsIn
    <2>. QED
      BY <2>1, <1>2
  <1>9. killed' \in [Clients \cup Slaves -> BOOLEAN] /\ ~killed'[s] /\ \A r \in Slaves : r # s => killed'[r] = killed[r]
    BY <1>2, <1>6
  <1>10. /\ SomeAt(k, Busy)' /\ SomeAt(k, Working)' /\ ~SomeAt(k, {"remove"})'
         /\ \A c : c # k => (\A C : SomeAt(c, C)' <=> SomeAt(c, C))
    <2>1. job'[s] = k /\ spc'[s] \in Busy /\ spc'[s] \in Working /\ \A r \in Slaves : job'[r] = k => spc'[r] # "remove"
      BY <1>2, <1>3, <1>4, <1>0 DEF Busy, Working
    <2>2. SomeAt(k, Busy)' /\ SomeAt(k, Working)' /\ ~SomeAt(k, {"remove"})'
      BY <2>1 DEF SomeAt, At
    <2>3. ASSUME NEW c, NEW C, c # k PROVE SomeAt(c, C)' <=> SomeAt(c, C)
      BY <2>1, <2>3, <1>2, <1>4, <1>0 DEF SomeAt, At
    <2>. QED
      BY <2>2, <2>3
  <1>11. ServerTypes'
    BY <1>1, <1>2, <1>4, <1>7, <1>8, <1>9 DEF ServerTypes
  <1>12. CallInv'
    BY <1>1, <1>2, CallsLeft DEF CallInv
  <1>13. \A r \in Slaves : r # s => job[r] # k /\ (job[r] # NoCall => job[r] \in Calls)
    BY <1>3, <1>6
  <1>14. job[s] = k
    BY <1>0
  <1>15. SlaveInv'
    <2>1. ASSUME NEW r \in Slaves
          PROVE  /\ spc'[r] = "wait" <=> job[r] = NoCall
                 /\ spc'[r] = "dispatch" <=> exql' = r
                 /\ spc'[r] \in Working => rec'[job[r]].slave = r /\ (In(job[r], work') \/ rec'[job[r]].shut)
      <3>1. spc[r] = "dispatch" => r = s
        BY <1>1, <1>4 DEF SlaveInv
      <3>2. CASE r = s
        BY <3>2, <1>3, <1>2, <1>4, <1>7, <1>8, <1>14, WireAssumption
      <3>3. CASE r # s
        BY <3>1, <3>3, <1>1, <1>2, <1>4, <1>7, <1>8, <1>13, WireAssumption DEF SlaveInv, Working
      <3>. QED
        BY <3>2, <3>3
    <2>. QED
      BY <2>1, <1>2 DEF SlaveInv
  <1>16. RecInv'
    <2>1. "fcall" \in Busy /\ "fcall" \in Working
      BY DEF Busy, Working
    <2>2. ASSUME NEW c \in Calls
          PROVE  /\ rec'[c].busy <=> SomeAt(c, Busy)'
                 /\ rec'[c].finished <=> SomeAt(c, {"remove"})'
                 /\ rec'[c].flush # <<>> => SomeAt(c, Working)'
                 /\ rec'[c].flush # <<>> /\ rec'[c].finished => rec'[c].shut
                 /\ rec'[c].shut => hung'
      <3>1. CASE c = k
        BY <3>1, <2>1, <1>1, <1>2, <1>3, <1>5, <1>7, <1>10 DEF RecInv
      <3>2. CASE c # k
        BY <3>2, <1>1, <1>2, <1>7, <1>10 DEF RecInv
      <3>. QED
        BY <3>1, <3>2
    <2>3. \A c : In(c, work') => SomeAt(c, Working)'
      BY <2>1, <1>1, <1>8, <1>10 DEF RecInv
    <2>. QED
      BY <2>2, <2>3, <1>1, <1>2, <1>8 DEF RecInv
  <1>17. KillHitsItsRequest'
    <2>1. ASSUME NEW r \in Slaves, killed'[r]
          PROVE  spc'[r] \notin {"wait", "dispatch"} /\ (spc'[r] = "fcall" => rec'[job[r]].flush # <<>> \/ rec'[job[r]].shut)
      BY <2>1, <1>1, <1>4, <1>7, <1>9, <1>13 DEF KillHitsItsRequest, SlaveInv
    <2>. QED
      BY <2>1, <1>2 DEF KillHitsItsRequest
  <1>. QED
    BY <1>11, <1>12, <1>15, <1>16, <1>17 DEF ServerInv

\* The slave does the request, and answers it and the flushes of it.
LEMMA WorkServes ==
  ASSUME ServerInv, NEW s \in Slaves, UNCHANGED ncalls,
         UNCHANGED <<epc, ereq, exq, exql, work, job, toSrv, hung>>,
         NEW a \in Working, NEW b \in Working, Moves(s, a, b),
         NEW q \in ExqRecs, rec' = [rec EXCEPT ![job[s]] = q],
         q.slave = rec[job[s]].slave, q.shut = rec[job[s]].shut,
         q.busy <=> b \in Busy, q.finished <=> b = "remove", q.flush # <<>> /\ q.finished => q.shut,
         toMnt' \in Seq(RMessages),
         killed' = killed \/ killed' = [killed EXCEPT ![s] = FALSE], b # "fcall"
  PROVE  ServerInv'
  <1>0. PICK k : k = job[s]
    OBVIOUS
  <1>1. ServerTypes /\ CallInv /\ SlaveInv /\ RecInv /\ KillHitsItsRequest
    BY DEF ServerInv
  <1>2. /\ k \in Calls /\ k # NoCall /\ \A r \in Slaves : job[r] = k => r = s
        /\ \A C : SomeAt(k, C) <=> spc[s] \in C
    BY <1>0, <1>1, OneSlave DEF Moves, Working
  <1>3. /\ spc[s] = a /\ spc'[s] = b /\ spc' \in [Slaves -> SPC]
        /\ \A r \in Slaves : r # s => spc'[r] = spc[r]
    BY DEF Moves
  <1>4. /\ rec \in [Calls -> ExqRecs] /\ work \in Seq(Calls) /\ killed \in [Clients \cup Slaves -> BOOLEAN]
        /\ job \in [Slaves -> Calls \cup {NoCall}] /\ Distinct(work)
    BY <1>1 DEF ServerTypes, RecInv
  <1>5. job[s] = k
    BY <1>0
  <1>6. rec' \in [Calls -> ExqRecs] /\ (\A c \in Calls : c # k => rec'[c] = rec[c]) /\ rec'[k] = q
    BY <1>2, <1>4, <1>5
  <1>7. killed' \in [Clients \cup Slaves -> BOOLEAN] /\ \A r \in Slaves : killed'[r] => killed[r]
    BY <1>4
  <1>8. /\ SomeAt(k, Busy)' <=> b \in Busy
        /\ SomeAt(k, Working)' /\ SomeAt(k, Working)
        /\ SomeAt(k, {"remove"})' <=> b = "remove"
        /\ \A c : c # k => (\A C : SomeAt(c, C)' <=> SomeAt(c, C))
    <2>1. job'[s] = k /\ \A r \in Slaves : job'[r] = k => r = s
      BY <1>2, <1>5
    <2>2. ASSUME NEW C PROVE SomeAt(k, C)' <=> b \in C
      BY <2>1, <1>3 DEF SomeAt, At
    <2>3. ASSUME NEW c, NEW C, c # k PROVE SomeAt(c, C)' <=> SomeAt(c, C)
      BY <2>1, <2>3, <1>3, <1>5 DEF SomeAt, At
    <2>. QED
      BY <2>2, <2>3, <1>2, <1>3
  <1>9. ServerTypes'
    BY <1>1, <1>3, <1>6, <1>7 DEF ServerTypes
  <1>10. CallInv'
    BY <1>1, CallsLeft DEF CallInv
  <1>11. \A r \in Slaves : r # s => job[r] # k /\ (job[r] # NoCall => job[r] \in Calls)
    BY <1>2, <1>4
  <1>12. a # "wait" /\ b # "wait" /\ a # "dispatch" /\ b # "dispatch"
    BY DEF Working
  <1>13. SlaveInv'
    <2>1. ASSUME NEW r \in Slaves
          PROVE  /\ spc'[r] = "wait" <=> job[r] = NoCall
                 /\ spc'[r] = "dispatch" <=> exql = r
                 /\ spc'[r] \in Working => rec'[job[r]].slave = r /\ (In(job[r], work) \/ rec'[job[r]].shut)
      <3>1. CASE r = s
        BY <3>1, <1>1, <1>2, <1>3, <1>5, <1>6, <1>12 DEF SlaveInv
      <3>2. CASE r # s
        BY <3>2, <1>1, <1>3, <1>6, <1>11 DEF SlaveInv, Working
      <3>. QED
        BY <3>1, <3>2
    <2>. QED
      BY <2>1 DEF SlaveInv
  <1>14. RecInv'
    <2>2. ASSUME NEW c \in Calls
          PROVE  /\ rec'[c].busy <=> SomeAt(c, Busy)'
                 /\ rec'[c].finished <=> SomeAt(c, {"remove"})'
                 /\ rec'[c].flush # <<>> => SomeAt(c, Working)'
                 /\ rec'[c].flush # <<>> /\ rec'[c].finished => rec'[c].shut
                 /\ rec'[c].shut => hung'
      <3>1. CASE c = k
        BY <3>1, <1>1, <1>2, <1>5, <1>6, <1>8 DEF RecInv
      <3>2. CASE c # k
        BY <3>2, <1>1, <1>6, <1>8 DEF RecInv
      <3>. QED
        BY <3>1, <3>2
    <2>3. \A c : In(c, work) => SomeAt(c, Working)'
      BY <1>1, <1>8 DEF RecInv
    <2>. QED
      BY <2>2, <2>3, <1>1 DEF RecInv
  <1>15. KillHitsItsRequest'
    <2>1. ASSUME NEW r \in Slaves, killed'[r]
          PROVE  spc'[r] \notin {"wait", "dispatch"} /\ (spc'[r] = "fcall" => rec'[job[r]].flush # <<>> \/ rec'[job[r]].shut)
      <3>1. CASE r = s
        BY <3>1, <1>3, <1>12
      <3>2. CASE r # s
        BY <2>1, <3>2, <1>1, <1>3, <1>6, <1>7, <1>11 DEF KillHitsItsRequest, SlaveInv
      <3>. QED
        BY <3>1, <3>2
    <2>. QED
      BY <2>1 DEF KillHitsItsRequest
  <1>. QED
    BY <1>9, <1>10, <1>13, <1>14, <1>15 DEF ServerInv

\* What WorkServes needs of a slave at work.
LEMMA AtWork ==
  ASSUME ServerInv, NEW s \in Slaves, spc[s] \in Working
  PROVE  /\ job[s] \in Calls /\ rec[job[s]] \in ExqRecs /\ rec \in [Calls -> ExqRecs]
         /\ rec[job[s]].busy <=> spc[s] \in Busy
         /\ rec[job[s]].finished <=> spc[s] = "remove"
         /\ rec[job[s]].flush # <<>> /\ rec[job[s]].finished => rec[job[s]].shut
         /\ toMnt \in Seq(RMessages)
  <1>1. job[s] \in Calls /\ \A C : SomeAt(job[s], C) <=> spc[s] \in C
    BY OneSlave DEF ServerInv, Working
  <1>2. rec \in [Calls -> ExqRecs] /\ toMnt \in Seq(RMessages)
    BY DEF ServerInv, ServerTypes
  <1>3. SomeAt(job[s], Busy) <=> spc[s] \in Busy
    BY <1>1
  <1>4. SomeAt(job[s], {"remove"}) <=> spc[s] = "remove"
    BY <1>1
  <1>. QED
    BY <1>1, <1>2, <1>3, <1>4 DEF ServerInv, RecInv

\* The slave does its request.
LEMMA FcallServes ==
  ASSUME ServerInv, NEW s \in Slaves, Fcall(s), UNCHANGED ncalls
  PROVE  ServerInv'
  <1>1. /\ Moves(s, "fcall", "complete") /\ spc[s] = "fcall"
        /\ UNCHANGED <<epc, ereq, exq, exql, work, job, toSrv, toMnt, hung>>
        /\ rec' = rec \/ rec' = [rec EXCEPT ![job[s]].err = TRUE]
        /\ killed' = killed \/ killed' = [killed EXCEPT ![s] = FALSE]
    BY SlaveMoves DEF Fcall, wirevars, SStep, SPC, ServerInv
  <1>2. "fcall" \in Working /\ "complete" \in Working /\ "fcall" \in Busy /\ "complete" \in Busy
    BY DEF Working, Busy
  <1>3. /\ job[s] \in Calls /\ rec[job[s]] \in ExqRecs /\ rec \in [Calls -> ExqRecs]
        /\ rec[job[s]].busy /\ ~rec[job[s]].finished /\ toMnt \in Seq(RMessages)
    BY <1>1, <1>2, AtWork
  <1>4. PICK q \in ExqRecs : /\ rec' = [rec EXCEPT ![job[s]] = q] /\ q.busy /\ ~q.finished
                             /\ q.slave = rec[job[s]].slave /\ q.shut = rec[job[s]].shut
    <2>1. CASE rec' = rec
      BY <2>1, <1>3
    <2>2. CASE rec' = [rec EXCEPT ![job[s]].err = TRUE]
      <3>. DEFINE q == [rec[job[s]] EXCEPT !.err = TRUE]
      <3>1. q \in ExqRecs /\ q.busy /\ ~q.finished /\ q.slave = rec[job[s]].slave /\ q.shut = rec[job[s]].shut
        BY <1>3 DEF ExqRecs
      <3>2. rec' = [rec EXCEPT ![job[s]] = q]
        BY <2>2
      <3>. QED
        BY <3>1, <3>2
    <2>. QED
      BY <2>1, <2>2, <1>1
  <1>. QED
    BY <1>1, <1>2, <1>3, <1>4, WorkServes

\* The slave answers its request.
LEMMA CompleteServes ==
  ASSUME ServerInv, NEW s \in Slaves, Complete(s), UNCHANGED ncalls
  PROVE  ServerInv'
  <1>. DEFINE p == rec[job[s]]
              r == [type |-> IF p.err THEN "Rerror" ELSE "R", tag |-> p.tag, call |-> job[s]]
              q == [p EXCEPT !.busy = FALSE]
  <1>1. /\ Moves(s, "complete", "flushes") /\ spc[s] = "complete"
        /\ UNCHANGED <<epc, ereq, exq, exql, work, job, toSrv, hung>>
        /\ rec' = [rec EXCEPT ![job[s]].busy = FALSE]
        /\ Exreply(r) \/ toMnt' = toMnt
        /\ killed' = [killed EXCEPT ![s] = FALSE]
    BY SlaveMoves DEF Complete, wirevars, SStep, SPC, ServerInv, Notkilled
  <1>2. "complete" \in Working /\ "flushes" \in Working /\ "flushes" \notin Busy
    BY DEF Working, Busy
  <1>3. job[s] \in Calls /\ p \in ExqRecs /\ rec \in [Calls -> ExqRecs] /\ ~p.finished /\ toMnt \in Seq(RMessages)
    BY <1>1, <1>2, AtWork
  <1>4. q \in ExqRecs /\ ~q.busy /\ ~q.finished /\ q.slave = p.slave /\ q.shut = p.shut
    BY <1>3 DEF ExqRecs
  <1>5. rec' = [rec EXCEPT ![job[s]] = q]
    BY <1>1
  <1>6. r \in RMessages
    <2>1. p.tag \in Tags
      BY <1>3 DEF ExqRecs
    <2>. QED
      BY <2>1, <1>3 DEF RMessages
  <1>. HIDE DEF r
  <1>7. toMnt' \in Seq(RMessages)
    BY <1>1, <1>3, <1>6, Replies
  <1>8. PICK x \in ExqRecs : /\ rec' = [rec EXCEPT ![job[s]] = x] /\ ~x.busy /\ ~x.finished
                             /\ x.slave = p.slave /\ x.shut = p.shut
    BY <1>4, <1>5
  <1>. HIDE DEF q
  <1>9. UNCHANGED <<epc, ereq, exq, exql, work, job, toSrv, hung>> /\ killed' = [killed EXCEPT ![s] = FALSE]
        /\ Moves(s, "complete", "flushes")
    BY <1>1
  <1>. QED
    BY <1>2, <1>7, <1>8, <1>9, WorkServes

\* The slave answers a flush of its request, or has answered them all.
LEMMA NextFlushServes ==
  ASSUME ServerInv, NEW s \in Slaves, NextFlush(s), UNCHANGED ncalls
  PROVE  ServerInv'
  <1>. DEFINE p == rec[job[s]]
              more == p.flush # <<>> /\ ~p.shut
  <1>1. /\ UNCHANGED <<epc, ereq, exq, exql, work, job, toSrv, hung, killed>>
        /\ SStep(s, "flushes", IF more THEN "flushes" ELSE "remove") /\ spc[s] = "flushes"
        /\ IF more THEN rec' = [rec EXCEPT ![job[s]].flush = Tail(@)] /\ Exreply(Rflush(Head(p.flush)))
           ELSE rec' = [rec EXCEPT ![job[s]].finished = TRUE] /\ UNCHANGED toMnt
    BY DEF NextFlush, SStep
  <1>2. "flushes" \in Working /\ "remove" \in Working /\ "remove" \notin Busy /\ "flushes" \notin Busy
    BY DEF Working, Busy
  <1>3. /\ job[s] \in Calls /\ p \in ExqRecs /\ rec \in [Calls -> ExqRecs] /\ ~p.finished /\ ~p.busy
        /\ toMnt \in Seq(RMessages)
    BY <1>1, <1>2, AtWork
  <1>4. CASE more
    <2>. DEFINE q == [p EXCEPT !.flush = Tail(@)]
    <2>1. p.flush \in Seq(TMessages) /\ p.flush # <<>>
      BY <1>3, <1>4 DEF ExqRecs
    <2>2. Tail(p.flush) \in Seq(TMessages) /\ Head(p.flush) \in TMessages
      BY <2>1, TailAt
    <2>3. q \in ExqRecs /\ ~q.busy /\ ~q.finished /\ q.slave = p.slave /\ q.shut = p.shut
      BY <1>3, <2>2 DEF ExqRecs
    <2>4. rec' = [rec EXCEPT ![job[s]] = q]
      BY <1>1, <1>4
    <2>5. Rflush(Head(p.flush)) \in RMessages
      BY <2>2 DEF Rflush, RMessages, TMessages
    <2>6. toMnt' \in Seq(RMessages)
      BY <1>1, <1>3, <1>4, <2>5, Replies
    <2>7. Moves(s, "flushes", "flushes")
      BY <1>1, <1>4, SlaveMoves DEF ServerInv, SPC
    <2>. HIDE DEF q
    <2>. QED
      BY <1>1, <1>2, <2>3, <2>4, <2>6, <2>7, WorkServes
  <1>5. CASE ~more
    <2>. DEFINE q == [p EXCEPT !.finished = TRUE]
    <2>1. q \in ExqRecs /\ ~q.busy /\ q.finished /\ q.slave = p.slave /\ q.shut = p.shut /\ q.flush = p.flush
      BY <1>3 DEF ExqRecs
    <2>2. rec' = [rec EXCEPT ![job[s]] = q]
      BY <1>1, <1>5
    <2>3. toMnt' \in Seq(RMessages)
      BY <1>1, <1>3, <1>5
    <2>4. Moves(s, "flushes", "remove")
      BY <1>1, <1>5, SlaveMoves DEF ServerInv, SPC
    <2>. HIDE DEF q
    <2>5. q.flush # <<>> /\ q.finished => q.shut
      BY <1>5, <2>1
    <2>. QED
      BY <1>1, <1>2, <2>1, <2>2, <2>3, <2>4, <2>5, WorkServes
  <1>. QED
    BY <1>4, <1>5

\* It takes the request off the list and is free.
LEMMA FinishServes ==
  ASSUME ServerInv, NEW s \in Slaves, Finish(s), UNCHANGED ncalls
  PROVE  ServerInv'
  <1>0. PICK k : k = job[s]
    OBVIOUS
  <1>1. ServerTypes /\ CallInv /\ SlaveInv /\ RecInv /\ KillHitsItsRequest
    BY DEF ServerInv
  <1>2. /\ UNCHANGED <<epc, ereq, exq, tail, lost, exql, fsl, performed, done, toSrv, toMnt, hung>>
        /\ Moves(s, "remove", "wait") /\ killed' = [killed EXCEPT ![s] = FALSE]
        /\ rec' = [rec EXCEPT ![k] = BlankExq] /\ work' = Without(work, {k})
        /\ job' = [job EXCEPT ![s] = NoCall]
    BY <1>0, <1>1, SlaveMoves DEF Finish, wirevars, Notkilled, SPC
  <1>3. /\ k \in Calls /\ k # NoCall /\ \A r \in Slaves : job[r] = k => r = s
        /\ \A C : SomeAt(k, C) <=> spc[s] \in C
    BY <1>0, <1>1, <1>2, OneSlave DEF Moves
  <1>4. /\ spc[s] = "remove" /\ spc'[s] = "wait" /\ spc' \in [Slaves -> SPC]
        /\ \A r \in Slaves : r # s => spc'[r] = spc[r]
    BY <1>2 DEF Moves
  <1>5. /\ rec \in [Calls -> ExqRecs] /\ work \in Seq(Calls) /\ killed \in [Clients \cup Slaves -> BOOLEAN]
        /\ job \in [Slaves -> Calls \cup {NoCall}] /\ Distinct(work)
    BY <1>1 DEF ServerTypes, RecInv
  <1>6. /\ rec' \in [Calls -> ExqRecs] /\ \A c \in Calls : c # k => rec'[c] = rec[c]
        /\ rec'[k] = BlankExq
    <2>1. BlankExq \in ExqRecs
      BY WireAssumption DEF BlankExq, ExqRecs, Tags
    <2>. QED
      BY <2>1, <1>2, <1>3, <1>5
  <1>7. work' \in Seq(Calls) /\ Distinct(work') /\ \A x : In(x, work') <=> x # k /\ In(x, work)
    BY <1>2, <1>5, WithoutIn
  <1>8. killed' \in [Clients \cup Slaves -> BOOLEAN] /\ \A r \in Slaves : killed'[r] => r # s /\ killed[r]
    BY <1>2, <1>5
  <1>9. /\ job' \in [Slaves -> Calls \cup {NoCall}] /\ job'[s] = NoCall /\ \A r \in Slaves : r # s => job'[r] = job[r]
    BY <1>2, <1>5
  <1>10. /\ \A r \in Slaves : job'[r] # k
         /\ \A C : ~SomeAt(k, C)'
         /\ \A c : c # k /\ c # NoCall => (\A C : SomeAt(c, C)' <=> SomeAt(c, C))
    <2>1. \A r \in Slaves : job'[r] # k
      BY <1>3, <1>9
    <2>2. ASSUME NEW C PROVE ~SomeAt(k, C)'
      BY <2>1 DEF SomeAt, At
    <2>3. ASSUME NEW c, NEW C, c # k, c # NoCall PROVE SomeAt(c, C)' <=> SomeAt(c, C)
      BY <2>3, <1>0, <1>4, <1>9 DEF SomeAt, At
    <2>. QED
      BY <2>1, <2>2, <2>3
  <1>11. ServerTypes'
    BY <1>1, <1>2, <1>4, <1>6, <1>7, <1>8, <1>9 DEF ServerTypes
  <1>12. CallInv'
    BY <1>1, <1>2, <1>9, CallsLeft DEF CallInv
  <1>13. \A r \in Slaves : r # s => job[r] # k /\ (job[r] # NoCall => job[r] \in Calls)
    BY <1>3, <1>5
  <1>14. SlaveInv'
    <2>1. ASSUME NEW r \in Slaves
          PROVE  /\ spc'[r] = "wait" <=> job'[r] = NoCall
                 /\ spc'[r] = "dispatch" <=> exql' = r
                 /\ spc'[r] \in Working => rec'[job'[r]].slave = r /\ (In(job'[r], work') \/ rec'[job'[r]].shut)
      <3>1. CASE r = s
        BY <3>1, <1>1, <1>2, <1>4, <1>9 DEF SlaveInv, Working
      <3>2. CASE r # s
        <4>1. job'[r] = job[r] /\ spc'[r] = spc[r] /\ exql' = exql /\ job[r] # k
          BY <3>2, <1>2, <1>4, <1>9, <1>13
        <4>2. /\ spc[r] = "wait" <=> job[r] = NoCall
              /\ spc[r] = "dispatch" <=> exql = r
              /\ spc[r] \in Working => rec[job[r]].slave = r /\ (In(job[r], work) \/ rec[job[r]].shut)
          BY <1>1 DEF SlaveInv
        <4>3. spc[r] \in Working => rec'[job[r]] = rec[job[r]]
          BY <3>2, <4>1, <4>2, <1>6, <1>13 DEF Working
        <4>. QED
          BY <4>1, <4>2, <4>3, <1>7
      <3>. QED
        BY <3>1, <3>2
    <2>. QED
      BY <2>1 DEF SlaveInv
  <1>15. RecInv'
    <2>1. ASSUME NEW c \in Calls
          PROVE  /\ rec'[c].busy <=> SomeAt(c, Busy)'
                 /\ rec'[c].finished <=> SomeAt(c, {"remove"})'
                 /\ rec'[c].flush # <<>> => SomeAt(c, Working)'
                 /\ rec'[c].flush # <<>> /\ rec'[c].finished => rec'[c].shut
                 /\ rec'[c].shut => hung'
      <3>1. CASE c = k
        BY <3>1, <1>6, <1>10 DEF BlankExq
      <3>2. CASE c # k
        BY <3>2, <1>1, <1>2, <1>6, <1>10, CallsAre DEF RecInv
      <3>. QED
        BY <3>1, <3>2
    <2>2. \A c : In(c, work') => SomeAt(c, Working)'
      <3>1. \A c : In(c, work) => c \in Calls
        BY <1>5, InSet
      <3>. QED
        BY <3>1, <1>1, <1>7, <1>10, CallsAre DEF RecInv
    <2>. QED
      BY <2>1, <2>2, <1>1, <1>2, <1>7 DEF RecInv
  <1>16. KillHitsItsRequest'
    <2>1. ASSUME NEW r \in Slaves, killed'[r]
          PROVE  spc'[r] \notin {"wait", "dispatch"} /\ (spc'[r] = "fcall" => rec'[job'[r]].flush # <<>> \/ rec'[job'[r]].shut)
      BY <2>1, <1>1, <1>4, <1>6, <1>8, <1>9, <1>13 DEF KillHitsItsRequest, SlaveInv
    <2>. QED
      BY <2>1 DEF KillHitsItsRequest
  <1>. QED
    BY <1>11, <1>12, <1>14, <1>15, <1>16 DEF ServerInv

-----------------------------------------------------------------------------
(* The mount driver's steps and the server.                                *)

\* What a process of the mount driver does to the connection: it takes a
\* reply, or sends its new request or a flush.
Sends(m) ==
  /\ m \in TMessages /\ toSrv' = Append(toSrv, m)
  /\ m.type = "T" => \E c \in Clients : m.call = <<c, ncalls'[c]>> /\ ncalls[c] < ncalls'[c]

\* What the mount driver does, as the server sees it: it may append a message
\* for a call that is new, take messages away and touch no slave.
Sent ==
  /\ toSrv' = toSrv \/ \E m : Sends(m)
  /\ toMnt' = toMnt \/ (toMnt # <<>> /\ toMnt' = Tail(toMnt))
  /\ hung' = hung
  /\ killed' \in [Clients \cup Slaves -> BOOLEAN] /\ \A s \in Slaves : killed'[s] = killed[s]
  /\ \A c \in Clients : ncalls[c] \in Nat /\ ncalls'[c] \in Nat /\ ncalls[c] <= ncalls'[c]

\* What a new tag at the end of a chain asks for.
LEMMA RequestIs ==
  ASSUME MountTypes, TagInv, NEW c \in Clients, NEW t, Allocated(c, t), NEW k
  PROVE  /\ chain[c] = <<>> => Request(chain'[c], k) = [type |-> "T", tag |-> t, call |-> k] /\ t \in Tags
         /\ chain[c] # <<>> => /\ Request(chain'[c], k) = [type |-> "Tflush", tag |-> t, oldtag |-> chain[c][1]]
                               /\ t \in Tags /\ chain[c][1] \in Tags
  <1>1. chain[c] \in Seq(Tags) /\ t \in Tags /\ chain'[c] = Append(chain[c], t)
    BY DEF MountTypes, Allocated
  <1>2. /\ Len(chain'[c]) = Len(chain[c]) + 1 /\ Last(chain'[c]) = t /\ chain'[c][Len(chain[c]) + 1] = t
        /\ \A i \in 1..Len(chain[c]) : chain'[c][i] = chain[c][i]
    BY <1>1, AppendAt
  <1>3. CASE chain[c] = <<>>
    BY <1>1, <1>2, <1>3 DEF Request
  <1>4. CASE chain[c] # <<>>
    <2>1. 1 \in 1..Len(chain[c]) /\ chain[c][1] \in Tags /\ Len(chain'[c]) # 1
      BY <1>1, <1>2, <1>4
    <2>. QED
      BY <1>1, <1>2, <1>4, <2>1 DEF Request
  <1>. QED
    BY <1>3, <1>4

\* An interrupt taken or sent to a client is none of a slave's.
LEMMA KilledClient ==
  ASSUME killed \in [Clients \cup Slaves -> BOOLEAN], NEW c \in Clients, NEW v \in BOOLEAN,
         killed' = killed \/ killed' = [killed EXCEPT ![c] = v]
  PROVE  killed' \in [Clients \cup Slaves -> BOOLEAN] /\ \A s \in Slaves : killed'[s] = killed[s]
  BY WireAssumption

\* Every step of the mount driver.
LEMMA MountSends ==
  ASSUME MountInv, ServerTypes, NEW c \in Clients, MountioStep(c) \/ Call(c) \/ InterruptClient(c)
  PROVE  Sent
  <1>1. killed \in [Clients \cup Slaves -> BOOLEAN] /\ ncalls \in [Clients -> 0..MaxCalls] /\ MaxCalls \in Nat
    BY WireAssumption DEF ServerTypes, MountInv, CountInv
  <1>2. \A d \in Clients : ncalls[d] \in Nat /\ ncalls[d] <= ncalls[d]
    BY <1>1
  <1>3. CASE Call(c)
    <2>1. ncalls[c] < MaxCalls /\ ncalls[c] \in Nat /\ <<c, ncalls[c] + 1>> \in Calls
      BY <1>3, CallBound DEF Call, MountInv
    <2>2. Transmit(c, <<c, ncalls[c] + 1>>, "idle") /\ ncalls' = [ncalls EXCEPT ![c] = @ + 1]
      BY <1>3 DEF Call
    <2>3. chain[c] = <<>> /\ UNCHANGED <<toMnt, hung>>
      BY <2>2 DEF Transmit, MountInv, TagInv
    <2>4. PICK t : Allocated(c, t)
      BY <2>2, MntrallocEffect DEF Transmit, MountInv
    <2>5. Request(chain'[c], <<c, ncalls[c] + 1>>) = [type |-> "T", tag |-> t, call |-> <<c, ncalls[c] + 1>>] /\ t \in Tags
      BY <2>3, <2>4, RequestIs DEF MountInv
    <2>6. /\ ncalls'[c] = ncalls[c] + 1 /\ ncalls[c] < ncalls'[c]
          /\ \A d \in Clients : ncalls[d] \in Nat /\ ncalls'[d] \in Nat /\ ncalls[d] <= ncalls'[d]
      BY <1>1, <2>1, <2>2
    <2>7. killed' = killed \/ killed' = [killed EXCEPT ![c] = FALSE]
      BY <2>2 DEF Transmit, Notkilled
    <2>8. toSrv' = toSrv \/ toSrv' = Append(toSrv, Request(chain'[c], <<c, ncalls[c] + 1>>))
      BY <2>2 DEF Transmit
    <2>9. \A m : m = [type |-> "T", tag |-> t, call |-> <<c, ncalls[c] + 1>>] =>
                   /\ m \in TMessages
                   /\ m.type = "T" => \E d \in Clients : m.call = <<d, ncalls'[d]>> /\ ncalls[d] < ncalls'[d]
      BY <2>1, <2>5, <2>6 DEF TMessages
    <2>10. toSrv' = toSrv \/ \E m : Sends(m)
      BY <2>5, <2>8, <2>9 DEF Sends
    <2>. QED
      BY <1>1, <2>3, <2>6, <2>7, <2>10, KilledClient DEF Sent
  <1>4. CASE Flush(c)
    <2>1. PICK k : Transmit(c, k, "eintr") /\ ncalls' = ncalls
      BY <1>4 DEF Flush
    <2>2. chain[c] # <<>> /\ UNCHANGED <<toMnt, hung>>
      BY <2>1 DEF Transmit, MountInv, TagInv
    <2>3. PICK t : Allocated(c, t)
      BY <2>1, MntrallocEffect DEF Transmit, MountInv
    <2>4. Request(chain'[c], k) = [type |-> "Tflush", tag |-> t, oldtag |-> chain[c][1]] /\ t \in Tags /\ chain[c][1] \in Tags
      BY <2>2, <2>3, RequestIs DEF MountInv
    <2>5. killed' = killed \/ killed' = [killed EXCEPT ![c] = FALSE]
      BY <2>1 DEF Transmit, Notkilled
    <2>6. toSrv' = toSrv \/ toSrv' = Append(toSrv, Request(chain'[c], k))
      BY <2>1 DEF Transmit
    <2>7. \A m : m = [type |-> "Tflush", tag |-> t, oldtag |-> chain[c][1]] => m \in TMessages /\ m.type # "T"
      BY <2>4 DEF TMessages
    <2>8. toSrv' = toSrv \/ \E m : Sends(m)
      BY <2>4, <2>6, <2>7 DEF Sends
    <2>. QED
      BY <1>1, <1>2, <2>1, <2>2, <2>5, <2>8, KilledClient DEF Sent
  <1>5. CASE InterruptClient(c)
    BY <1>1, <1>2, <1>5, KilledClient DEF InterruptClient, Sent, wirevars
  <1>6. CASE Gate(c) \/ Attend(c) \/ Read(c) \/ WakeTarget(c) \/ MntGate(c) \/ Return(c)
    <2>1. killed' = killed \/ killed' = [killed EXCEPT ![c] = FALSE]
      BY <1>6 DEF Gate, Attend, Read, WakeTarget, MntGate, Return, Notkilled
    <2>2. /\ toSrv' = toSrv /\ hung' = hung /\ ncalls' = ncalls
          /\ toMnt' = toMnt \/ (toMnt # <<>> /\ toMnt' = Tail(toMnt))
      BY <1>6 DEF Gate, Attend, Read, WakeTarget, MntGate, Return, wirevars
    <2>. QED
      BY <1>1, <1>2, <2>1, <2>2, KilledClient DEF Sent
  <1>. QED
    BY <1>3, <1>4, <1>5, <1>6 DEF MountioStep

\* It keeps the server's invariant.
LEMMA SentServes ==
  ASSUME ServerInv, Sent, UNCHANGED evars
  PROVE  ServerInv'
  <1>1. ServerTypes /\ CallInv /\ SlaveInv /\ RecInv /\ KillHitsItsRequest
    BY DEF ServerInv
  <1>2. UNCHANGED <<epc, ereq, exq, exql, work, rec, spc, job, hung>>
    BY DEF evars, Sent
  <1>3. \A k \in Calls : Made(k) => Made(k)'
    BY DEF Calls, Made, Sent
  <1>4. \A k : (HasJob(k)' <=> HasJob(k)) /\ \A C : SomeAt(k, C)' <=> SomeAt(k, C)
    BY <1>2 DEF HasJob, SomeAt, At
  <1>5. toMnt' \in Seq(RMessages)
    <2>1. toMnt \in Seq(RMessages)
      BY <1>1 DEF ServerTypes
    <2>. QED
      BY <2>1, TailAt DEF Sent
  <1>6. toSrv \in Seq(TMessages) /\ exq \in Seq(Calls) /\ job \in [Slaves -> Calls \cup {NoCall}]
    BY <1>1 DEF ServerTypes
  <1>7. \A r \in Slaves : (job[r] # NoCall => Made(job[r]) /\ \A q \in Slaves : job[q] = job[r] => q = r)'
    <2>1. \A r \in Slaves : job[r] # NoCall => job[r] \in Calls /\ job'[r] = job[r]
      BY <1>2, <1>6
    <2>2. \A r \in Slaves : (job[r] # NoCall => Made(job[r]))'
      BY <2>1, <1>1, <1>2, <1>3 DEF CallInv
    <2>3. \A r, q \in Slaves : (job[r] # NoCall /\ job[q] = job[r] => q = r)'
      BY <1>1, <1>2 DEF CallInv
    <2>. QED
      BY <2>2, <2>3
  <1>8. \A x : (In(x, exq) => Made(x) /\ ~HasJob(x))'
    <2>1. \A x : In(x, exq) => x \in Calls
      BY <1>6, InSet
    <2>. QED
      BY <2>1, <1>1, <1>2, <1>3, <1>4 DEF CallInv
  <1>9. /\ toSrv' \in Seq(TMessages)
        /\ \A i \in 1..Len(toSrv') : toSrv'[i].type = "T" =>
             /\ (Made(toSrv[i].call) /\ ~In(toSrv[i].call, exq) /\ ~HasJob(toSrv[i].call))'
             /\ \A j \in 1..Len(toSrv') : toSrv'[j].type = "T" /\ toSrv'[j].call = toSrv'[i].call => i = j
    <2>1. \A i \in 1..Len(toSrv) : toSrv[i].type = "T" => toSrv[i].call \in Calls
      BY <1>6 DEF TMessages
    <2>2. ASSUME NEW i \in 1..Len(toSrv), NEW x, x = toSrv[i].call, toSrv[i].type = "T"
          PROVE  /\ Made(x) /\ x \in Calls /\ Made(x)' /\ ~In(x, exq') /\ ~HasJob(x)'
                 /\ \A j \in 1..Len(toSrv) : toSrv[j].type = "T" /\ toSrv[j].call = x => i = j
      BY <2>1, <2>2, <1>1, <1>2, <1>3, <1>4 DEF CallInv
    <2>3. CASE toSrv' = toSrv
      <3>1. ASSUME NEW i \in 1..Len(toSrv'), toSrv'[i].type = "T"
            PROVE /\ (Made(toSrv[i].call) /\ ~In(toSrv[i].call, exq) /\ ~HasJob(toSrv[i].call))'
                  /\ \A j \in 1..Len(toSrv') : toSrv'[j].type = "T" /\ toSrv'[j].call = toSrv'[i].call => i = j
        <4>1. PICK x : x = toSrv'[i].call
          OBVIOUS
        <4>. QED
          BY <2>2, <2>3, <3>1, <4>1
      <3>. QED
        BY <3>1, <2>3, <1>6
    <2>4. ASSUME NEW m, Sends(m)
          PROVE  /\ toSrv' \in Seq(TMessages)
                 /\ \A i \in 1..Len(toSrv') : toSrv'[i].type = "T" =>
                      /\ (Made(toSrv[i].call) /\ ~In(toSrv[i].call, exq) /\ ~HasJob(toSrv[i].call))'
                      /\ \A j \in 1..Len(toSrv') : toSrv'[j].type = "T" /\ toSrv'[j].call = toSrv'[i].call => i = j
      <3>. DEFINE n == Len(toSrv)
      <3>1. m \in TMessages /\ toSrv' = Append(toSrv, m) /\ n \in Nat
        BY <2>4, <1>6 DEF Sends
      <3>2. /\ toSrv' \in Seq(TMessages) /\ Len(toSrv') = n + 1 /\ toSrv'[n + 1] = m
            /\ \A i \in 1..n : toSrv'[i] = toSrv[i]
        <4>1. /\ Append(toSrv, m) \in Seq(TMessages) /\ Len(Append(toSrv, m)) = n + 1
              /\ \A i \in 1..n : Append(toSrv, m)[i] = toSrv[i]
              /\ Append(toSrv, m)[n + 1] = m
          BY <1>6, <3>1, AppendAt
        <4>. QED
          BY <3>1, <4>1
      <3>3. \A i \in 1..(n + 1) : i = n + 1 \/ i \in 1..n
        BY <3>1
      <3>. HIDE DEF n
      <3>4. m.type = "T" => m.call \in Calls /\ Made(m.call)' /\ ~Made(m.call)
        <4>1. SUFFICES ASSUME m.type = "T" PROVE m.call \in Calls /\ Made(m.call)' /\ ~Made(m.call)
          OBVIOUS
        <4>2. PICK c \in Clients : m.call = <<c, ncalls'[c]>> /\ ncalls[c] < ncalls'[c]
          BY <2>4, <4>1 DEF Sends
        <4>3. m.call \in Calls
          BY <3>1, <4>1 DEF TMessages
        <4>4. ncalls[c] \in Nat /\ ncalls'[c] \in Nat
          BY DEF Sent
        <4>. QED
          BY <4>2, <4>3, <4>4 DEF Made
      <3>5. m.type = "T" => ~In(m.call, exq) /\ ~HasJob(m.call)
        BY <3>4, <1>1, CallsAre DEF CallInv, HasJob
      <3>6. \A i \in 1..n : toSrv[i].type = "T" /\ m.type = "T" => toSrv[i].call # m.call
        BY <2>2, <3>4 DEF n
      <3>7. ASSUME NEW i \in 1..Len(toSrv'), NEW x, x = toSrv'[i].call, toSrv'[i].type = "T"
            PROVE  /\ Made(x)' /\ ~In(x, exq') /\ ~HasJob(x)'
                   /\ \A j \in 1..Len(toSrv') : toSrv'[j].type = "T" /\ toSrv'[j].call = x => i = j
        <4>1. CASE i = n + 1
          BY <4>1, <3>2, <3>3, <3>4, <3>5, <3>6, <3>7, <1>2, <1>4
        <4>2. CASE i \in 1..n
          <5>1. x = toSrv[i].call /\ toSrv[i].type = "T" /\ i \in 1..Len(toSrv)
            BY <4>2, <3>2, <3>7 DEF n
          <5>2. /\ Made(x)' /\ ~In(x, exq') /\ ~HasJob(x)'
                /\ \A j \in 1..Len(toSrv) : toSrv[j].type = "T" /\ toSrv[j].call = x => i = j
            BY <5>1, <2>2
          <5>3. m.type = "T" => m.call # x
            BY <5>1, <4>2, <3>6
          <5>4. \A j \in 1..n : toSrv[j].type = "T" /\ toSrv[j].call = x => i = j
            BY <5>2 DEF n
          <5>. QED
            BY <5>2, <5>3, <5>4, <3>2, <3>3
        <4>. QED
          BY <3>2, <3>3, <4>1, <4>2
      <3>8. ASSUME NEW i \in 1..Len(toSrv'), toSrv'[i].type = "T"
            PROVE /\ (Made(toSrv[i].call) /\ ~In(toSrv[i].call, exq) /\ ~HasJob(toSrv[i].call))'
                  /\ \A j \in 1..Len(toSrv') : toSrv'[j].type = "T" /\ toSrv'[j].call = toSrv'[i].call => i = j
        <4>1. PICK x : x = toSrv'[i].call
          OBVIOUS
        <4>. QED
          BY <3>7, <3>8, <4>1
      <3>. QED
        BY <3>2, <3>8
    <2>. QED
      BY <2>3, <2>4 DEF Sent
  <1>10. CallInv'
    BY <1>1, <1>2, <1>7, <1>8, <1>9 DEF CallInv
  <1>11. ServerTypes'
    BY <1>1, <1>2, <1>5, <1>9 DEF ServerTypes, Sent
  <1>12. SlaveInv'
    BY <1>1, <1>2 DEF SlaveInv
  <1>13. RecInv'
    BY <1>1, <1>2, <1>4 DEF RecInv
  <1>14. KillHitsItsRequest'
    BY <1>1, <1>2 DEF KillHitsItsRequest, Sent
  <1>. QED
    BY <1>10, <1>11, <1>12, <1>13, <1>14 DEF ServerInv

\* So does the hangup.
LEMMA HangupServes ==
  ASSUME ServerInv, Hangup, UNCHANGED <<ncalls, evars>>
  PROVE  ServerInv'
  <1>1. UNCHANGED <<epc, ereq, exq, exql, work, rec, spc, job, toSrv, toMnt, killed>> /\ hung'
    BY DEF evars, Hangup
  <1>2. \A k : (HasJob(k)' <=> HasJob(k)) /\ (Made(k)' <=> Made(k)) /\ \A C : SomeAt(k, C)' <=> SomeAt(k, C)
    BY <1>1 DEF HasJob, SomeAt, At, Made
  <1>3. ServerTypes'
    BY <1>1 DEF ServerInv, ServerTypes
  <1>4. CallInv'
    BY <1>1, CallsLeft DEF ServerInv, CallInv
  <1>5. SlaveInv' /\ KillHitsItsRequest'
    BY <1>1 DEF ServerInv, SlaveInv, KillHitsItsRequest
  <1>6. RecInv'
    BY <1>1, <1>2 DEF ServerInv, RecInv
  <1>. QED
    BY <1>3, <1>4, <1>5, <1>6 DEF ServerInv

-----------------------------------------------------------------------------
(* The invariant without the tags.                                         *)

\* What both sides keep.
Sides == MountInv /\ ServerInv

\* It holds at first.
LEMMA InitSides == Init => Sides
  <1>1. SUFFICES ASSUME Init PROVE Sides
    OBVIOUS
  <1>2. /\ toSrv = <<>> /\ toMnt = <<>> /\ hung = FALSE /\ killed = [p \in Clients \cup Slaves |-> FALSE]
        /\ exq = <<>> /\ work = <<>> /\ exql = NoOne /\ epc = "recv" /\ ereq = NoMsg
        /\ rec = [k \in Calls |-> BlankExq] /\ spc = [s \in Slaves |-> "wait"] /\ job = [s \in Slaves |-> NoCall]
    BY <1>1 DEF Init, WireInit, EInit
  <1>3. /\ cpc = [c \in Clients |-> "idle"] /\ ncalls = [c \in Clients |-> 0] /\ chain = [c \in Clients |-> <<>>]
        /\ target = [c \in Clients |-> MaxTag] /\ reply = [t \in Tags |-> NoReply] /\ mqueue = <<>>
        /\ rip = NoOne /\ rpcfree = <<>> /\ tagmask = {} /\ outcome = [k \in Calls |-> "none"]
    BY <1>1 DEF Init, MInit
  <1>4. BlankExq \in ExqRecs /\ BlankExq.busy = FALSE /\ BlankExq.finished = FALSE /\ BlankExq.shut = FALSE
        /\ BlankExq.flush = <<>> /\ MaxTag \in Tags
    BY WireAssumption DEF BlankExq, ExqRecs, Tags
  <1>5. ServerTypes
    BY <1>2, <1>4 DEF ServerTypes, SPC, EPC
  <1>6. CallInv
    BY <1>2, EmptyIn DEF CallInv, Distinct
  <1>7. SlaveInv
    BY <1>2, WireAssumption DEF SlaveInv, Working
  <1>8. RecInv
    <2>1. \A k \in Calls : \A C \in {Working, Busy, {"remove"}} : ~SomeAt(k, C)
      BY <1>2 DEF SomeAt, At, Working, Busy
    <2>. QED
      BY <2>1, <1>2, <1>4, EmptyIn DEF RecInv, Distinct
  <1>9. KillHitsItsRequest
    BY <1>2 DEF KillHitsItsRequest
  <1>10. MountTypes
    BY <1>3, <1>4, WireAssumption DEF MountTypes, CPC
  <1>11. CountInv
    BY <1>3, WireAssumption DEF CountInv
  <1>12. TagInv
    BY <1>3, EmptyIn DEF TagInv, Distinct
  <1>13. QueueInv
    BY <1>3, EmptyIn DEF QueueInv, Done
  <1>14. RipInv /\ SleepInv /\ WatchInv
    BY <1>3, WireAssumption DEF RipInv, SleepInv, WatchInv
  <1>. QED
    BY <1>5, <1>6, <1>7, <1>8, <1>9, <1>10, <1>11, <1>12, <1>13, <1>14 DEF Sides, ServerInv, MountInv

\* Every step keeps it.
LEMMA SidesInductive == Sides /\ [Next]_vars => Sides'
  <1>1. SUFFICES ASSUME Sides, [Next]_vars PROVE Sides'
    OBVIOUS
  <1>2. MountInv /\ ServerInv /\ toMnt \in Seq(RMessages) /\ ServerTypes
    BY <1>1 DEF Sides, ServerInv, ServerTypes
  <1>3. ASSUME NEW c \in Clients, Mount(c) PROVE Sides'
    <2>1. MountioStep(c) /\ UNCHANGED evars
      BY <1>3 DEF Mount
    <2>. QED
      BY <1>2, <2>1, MountioKeeps, MountSends, SentServes DEF Sides
  <1>4. ASSUME NEW c \in Clients, NewCall(c) PROVE Sides'
    <2>1. Call(c) /\ UNCHANGED evars
      BY <1>4 DEF NewCall
    <2>2. MountInv'
      BY <1>2, <2>1, CallKeeps DEF MountInv, MountRest
    <2>. QED
      BY <1>2, <2>1, <2>2, MountSends, SentServes DEF Sides
  <1>5. ASSUME NEW c \in Clients, Kill(c) PROVE Sides'
    <2>1. InterruptClient(c) /\ UNCHANGED evars
      BY <1>5 DEF Kill
    <2>2. MountInv'
      <3>1. CountInv'
        BY <1>2, <2>1 DEF InterruptClient, MountInv, CountInv
      <3>. QED
        BY <1>2, <2>1, <3>1, InterruptClientKeeps DEF MountInv, MountRest
    <2>. QED
      BY <1>2, <2>1, <2>2, MountSends, SentServes DEF Sides
  <1>6. ASSUME NEW s \in Slaves, Slave(s) \/ Work(s) PROVE Sides'
    <2>1. SlaveStep(s) \/ Fcall(s)
      BY <1>6 DEF Slave, Work
    <2>2. UNCHANGED mvars /\ UNCHANGED ncalls
      BY <1>6 DEF Slave, Work, mvars
    <2>3. UNCHANGED hung
      BY <2>1 DEF SlaveStep, Take, Dispatch, Fcall, Complete, NextFlush, Finish, wirevars
    <2>4. MountInv'
      BY <1>2, <2>2, <2>3, OthersKeep
    <2>5. ServerInv'
      BY <1>2, <2>1, <2>2, TakeServes, DispatchServes, FcallServes, CompleteServes, NextFlushServes, FinishServes DEF SlaveStep
    <2>. QED
      BY <2>4, <2>5 DEF Sides
  <1>7. ASSUME Serve PROVE Sides'
    <2>1. ExportprocStep /\ UNCHANGED mvars /\ UNCHANGED ncalls
      BY <1>7 DEF Serve, mvars
    <2>2. UNCHANGED hung
      BY <2>1 DEF ExportprocStep, Enqueue, FlushQueued, FlushStarted, ShutQueued, ShutStarted, wirevars
    <2>3. MountInv'
      BY <1>2, <2>1, <2>2, OthersKeep
    <2>4. ServerInv'
      BY <1>2, <2>1, EnqueueServes, FlushQueuedServes, FlushStartedServes, ShutQueuedServes, ShutStartedServes DEF ExportprocStep
    <2>. QED
      BY <2>3, <2>4 DEF Sides
  <1>8. ASSUME Break PROVE Sides'
    <2>1. Hangup /\ UNCHANGED mvars /\ UNCHANGED ncalls /\ UNCHANGED evars /\ hung'
      BY <1>8 DEF Break, mvars, Hangup
    <2>. QED
      BY <1>2, <2>1, OthersKeep, HangupServes DEF Sides
  <1>9. ASSUME UNCHANGED vars PROVE Sides'
    <2>1. UNCHANGED mvars /\ UNCHANGED evars /\ UNCHANGED <<toSrv, toMnt, hung, killed, ncalls>>
      BY <1>9 DEF vars, wirevars, mvars
    <2>2. MountInv'
      BY <1>2, <2>1, OthersKeep
    <2>3. \A s \in Slaves : killed'[s] = killed[s]
      BY <2>1
    <2>4. \A c \in Clients : ncalls[c] \in Nat /\ ncalls'[c] \in Nat /\ ncalls[c] <= ncalls'[c]
      BY <1>2, <2>1, WireAssumption DEF MountInv, CountInv
    <2>5. Sent
      BY <1>2, <2>1, <2>3, <2>4 DEF Sent, ServerTypes
    <2>. QED
      BY <1>2, <2>1, <2>2, <2>5, SentServes DEF Sides
  <1>. QED
    BY <1>1, <1>3, <1>4, <1>5, <1>6, <1>7, <1>8, <1>9 DEF Next

\* It holds always.
LEMMA SpecSides == Spec => []Sides
  BY InitSides, SidesInductive, PTL DEF Spec

\* A request that a slave has is, until it is answered, on the work list, or the
\* slave holds exq.l to put it there, or the connection is shut down: a flush
\* that comes finds it.
THEOREM Findability == Spec => []Findable
  <1>1. Sides => Findable
    <2>1. SUFFICES ASSUME Sides, NEW s \in Slaves, spc[s] \in {"dispatch", "fcall", "complete"}
                   PROVE  job[s] \in Range(work) \/ (spc[s] = "dispatch" /\ exql = s) \/ rec[job[s]].shut
      BY DEF Findable
    <2>2. SlaveInv /\ work \in Seq(Calls)
      BY <2>1 DEF Sides, ServerInv, ServerTypes
    <2>3. job[s] \in Range(work) <=> In(job[s], work)
      BY <2>2, InRange
    <2>. QED
      BY <2>1, <2>2, <2>3 DEF SlaveInv, Working
  <1>. QED
    BY <1>1, SpecSides, PTL

\* A kill of a slave is for the request it has in progress: while it does a
\* request it is killed only for a flush of that one or the shut down, and no
\* kill outlives the request.
THEOREM KillsAreForTheRequest == Spec => []KillHitsItsRequest
  <1>1. Sides => KillHitsItsRequest
    BY DEF Sides, ServerInv
  <1>. QED
    BY <1>1, SpecSides, PTL

\* When the connection stands and nobody reads it, some process that is awake
\* is on its way to the gate if any sleeps.
THEOREM GateAlwaysWatched == Spec => []GateIsWatched
  <1>1. Sides => GateIsWatched
    BY DEF Sides, MountInv, WatchInv, GateIsWatched
  <1>. QED
    BY <1>1, SpecSides, PTL

-----------------------------------------------------------------------------
(* The order of a queue.                                                   *)

\* What Before says when an element is put on the end,
LEMMA AppendBefore ==
  ASSUME NEW S, NEW s \in Seq(S), NEW e \in S
  PROVE  \A x, y : Before(x, y, Append(s, e)) <=> Before(x, y, s) \/ (y = e /\ In(x, s))
  <1>. DEFINE t == Append(s, e)
              n == Len(s)
  <1>1. n \in Nat /\ Len(t) = n + 1 /\ t[n + 1] = e /\ \A i \in 1..n : t[i] = s[i]
    BY AppendAt
  <1>2. \A i \in 1..(n + 1) : i = n + 1 \/ i \in 1..n
    BY <1>1
  <1>3. n + 1 \in 1..(n + 1) /\ \A i \in 1..n : i \in 1..(n + 1) /\ i < n + 1
    BY <1>1
  <1>. HIDE DEF t, n
  <1>4. ASSUME NEW x, NEW y, Before(x, y, t) PROVE Before(x, y, s) \/ (y = e /\ In(x, s))
    <2>1. PICK i, j \in 1..(n + 1) : i < j /\ t[i] = x /\ t[j] = y
      BY <1>1, <1>4 DEF Before
    <2>2. i \in 1..n
      BY <1>1, <2>1
    <2>3. CASE j = n + 1
      BY <2>1, <2>2, <2>3, <1>1 DEF In, n
    <2>4. CASE j \in 1..n
      BY <2>1, <2>2, <2>4, <1>1 DEF Before, n
    <2>. QED
      BY <1>2, <2>3, <2>4
  <1>5. ASSUME NEW x, NEW y, Before(x, y, s) PROVE Before(x, y, t)
    BY <1>1, <1>3, <1>5 DEF Before, n
  <1>6. ASSUME NEW x, In(x, s) PROVE Before(x, e, t)
    BY <1>1, <1>3, <1>6 DEF Before, In, n
  <1>. QED
    BY <1>4, <1>5, <1>6 DEF t

\* in front,
LEMMA ConsBefore ==
  ASSUME NEW S, NEW s \in Seq(S), NEW e \in S
  PROVE  \A x, y : Before(x, y, s) \/ (x = e /\ In(y, s)) => Before(x, y, <<e>> \o s)
  <1>. DEFINE t == <<e>> \o s
              n == Len(s)
  <1>1. n \in Nat /\ Len(t) = n + 1 /\ t[1] = e /\ \A i \in 1..n : t[i + 1] = s[i]
    <2>1. <<e>> \in Seq(S) /\ Len(<<e>>) = 1 /\ <<e>>[1] = e
      OBVIOUS
    <2>2. /\ Len(t) = Len(<<e>>) + n
          /\ \A i \in 1..Len(<<e>>) : t[i] = <<e>>[i]
          /\ \A i \in 1..n : t[Len(<<e>>) + i] = s[i]
      BY <2>1, ConcatAt
    <2>3. n \in Nat
      OBVIOUS
    <2>4. \A i \in 1..n : 1 + i = i + 1
      BY <2>3
    <2>. HIDE DEF t, n
    <2>. QED
      BY <2>1, <2>2, <2>3, <2>4
  <1>2. 1 \in 1..(n + 1) /\ \A i \in 1..n : i + 1 \in 1..(n + 1) /\ 1 < i + 1
    BY <1>1
  <1>. HIDE DEF t, n
  <1>3. ASSUME NEW x, NEW y, Before(x, y, s) PROVE Before(x, y, t)
    <2>1. PICK i, j \in 1..n : i < j /\ s[i] = x /\ s[j] = y
      BY <1>3 DEF Before, n
    <2>2. i + 1 < j + 1
      BY <1>1, <2>1
    <2>. QED
      BY <1>1, <1>2, <2>1, <2>2 DEF Before
  <1>4. ASSUME NEW y, In(y, s) PROVE Before(e, y, t)
    <2>1. PICK j \in 1..n : s[j] = y
      BY <1>4 DEF In, n
    <2>. QED
      BY <1>1, <1>2, <2>1 DEF Before
  <1>. QED
    BY <1>3, <1>4 DEF t

\* and when some leave.
LEMMA WithoutBefore ==
  ASSUME NEW S, NEW s \in Seq(S), NEW D
  PROVE  \A x, y : Before(x, y, Without(s, D)) <=> x \notin D /\ y \notin D /\ Before(x, y, s)
  <1>1. PICK k \in [0..Len(s) -> Seq(S)] : Partial(s, D, k, Len(s)) /\ Without(s, D) = k[Len(s)]
    BY WithoutPartial
  <1>. DEFINE Members(n) == \A x : In(x, k[n]) <=> x \notin D /\ \E i \in 1..n : s[i] = x
              Upto(x, y, n) == \E i, j \in 1..n : i < j /\ s[i] = x /\ s[j] = y
              Ordered(n) == \A x, y : Before(x, y, k[n]) <=> x \notin D /\ y \notin D /\ Upto(x, y, n)
              T == {n \in 0..Len(s) : ~(Members(n) /\ Ordered(n))}
  <1>2. ASSUME T # {} PROVE FALSE
    <2>1. PICK c \in T : \A d \in T : c <= d
      <3>1. T \in SUBSET Nat
        OBVIOUS
      <3>. HIDE DEF T
      <3>. QED
        BY <3>1, <1>2, Least
    <2>2. c \in 0..Len(s) /\ ~(Members(c) /\ Ordered(c))
      OBVIOUS
    <2>3. CASE c = 0
      <3>1. k[c] = <<>>
        BY <1>1, <2>3 DEF Partial
      <3>2. Members(c)
        BY <3>1, <2>3, EmptyIn
      <3>3. Ordered(c)
        BY <3>1, <2>3 DEF Before
      <3>. QED
        BY <2>2, <3>2, <3>3
    <2>4. CASE c # 0
      <3>1. c \in 1..Len(s) /\ c - 1 \in 0..Len(s) /\ c - 1 \notin T
        <4>. HIDE DEF T
        <4>1. c - 1 \in T => c <= c - 1
          BY <2>1
        <4>. QED
          BY <4>1, <2>2, <2>4
      <3>2. Members(c - 1) /\ Ordered(c - 1) /\ k[c - 1] \in Seq(S) /\ s[c] \in S
        BY <3>1
      <3>3. k[c] = IF s[c] \in D THEN k[c - 1] ELSE Append(k[c - 1], s[c])
        BY <1>1, <3>1 DEF Partial
      <3>4. \A x, y : Upto(x, y, c) <=> Upto(x, y, c - 1) \/ (s[c] = y /\ \E i \in 1..(c - 1) : s[i] = x)
        <4>1. c \in 1..c /\ \A i \in 1..c : i \in 1..(c - 1) \/ i = c
          BY <3>1
        <4>2. \A i \in 1..(c - 1) : i \in 1..c /\ i < c
          BY <3>1
        <4>3. \A i, j \in 1..c : i < j => i \in 1..(c - 1)
          BY <3>1
        <4>. QED
          BY <4>1, <4>2, <4>3
      <3>. HIDE DEF Upto
      <3>5. CASE s[c] \in D
        <4>1. k[c] = k[c - 1]
          BY <3>3, <3>5
        <4>2. Members(c)
          BY <4>1, <3>1, <3>2, <3>5
        <4>3. Ordered(c)
          BY <4>1, <3>2, <3>4, <3>5
        <4>. QED
          BY <2>2, <4>2, <4>3
      <3>6. CASE s[c] \notin D
        <4>1. k[c] = Append(k[c - 1], s[c])
          BY <3>3, <3>6
        <4>2. \A x : In(x, k[c]) <=> x = s[c] \/ In(x, k[c - 1])
          BY <4>1, <3>2, AppendIn
        <4>3. Members(c)
          BY <4>2, <3>1, <3>2, <3>6
        <4>4. \A x, y : Before(x, y, k[c]) <=> Before(x, y, k[c - 1]) \/ (y = s[c] /\ In(x, k[c - 1]))
          BY <4>1, <3>2, AppendBefore
        <4>5. Ordered(c)
          BY <4>4, <3>2, <3>4, <3>6
        <4>. QED
          BY <2>2, <4>3, <4>5
      <3>. QED
        BY <3>5, <3>6
    <2>. QED
      BY <2>3, <2>4
  <1>3. Ordered(Len(s))
    <2>1. Len(s) \in 0..Len(s)
      OBVIOUS
    <2>2. ~(Len(s) \in T)
      <3>. HIDE DEF T
      <3>. QED
        BY <1>2
    <2>. HIDE DEF Ordered, Members
    <2>. QED
      BY <2>1, <2>2
  <1>4. \A x, y : Upto(x, y, Len(s)) <=> Before(x, y, s)
    BY DEF Before
  <1>. HIDE DEF Upto
  <1>. QED
    BY <1>1, <1>3, <1>4

\* Among the elements that are left the head is before all others.
LEMMA WithoutHead ==
  ASSUME NEW S, NEW s \in Seq(S), NEW D, Without(s, D) # <<>>
  PROVE  LET h == Head(Without(s, D))
         IN /\ h \in S /\ In(h, s) /\ h \notin D
            /\ \A x : In(x, s) /\ x \notin D /\ x # h => Before(h, x, s)
  <1>. DEFINE w == Without(s, D)
              h == Head(w)
  <1>1. w \in Seq(S) /\ \A x : In(x, w) <=> x \notin D /\ In(x, s)
    BY WithoutIn
  <1>2. \A x, y : Before(x, y, w) <=> x \notin D /\ y \notin D /\ Before(x, y, s)
    BY WithoutBefore
  <1>3. w # <<>>
    OBVIOUS
  <1>. HIDE DEF w
  <1>4. Head(w) = w[1] /\ 1 \in 1..Len(w) /\ h \in S /\ Len(w) \in Nat \ {0}
    BY <1>1, <1>3, TailAt
  <1>5. In(h, w)
    BY <1>4 DEF In
  <1>6. ASSUME NEW x, In(x, w), x # h PROVE Before(h, x, w)
    <2>1. PICK i \in 1..Len(w) : w[i] = x
      BY <1>6 DEF In
    <2>2. 1 < i
      BY <1>4, <1>6, <2>1
    <2>. QED
      BY <1>4, <2>1, <2>2 DEF Before
  <1>. QED
    BY <1>1, <1>2, <1>4, <1>5, <1>6 DEF w

-----------------------------------------------------------------------------
(* Tags and chains.                                                        *)

\* A tag has one place in one chain.
LEMMA ChainFacts ==
  ASSUME MountTypes, TagInv
  PROVE  /\ \A t : Used(t) => t \in Tags
         /\ \A t, o : Follows(t, o) => Precedes(o, t) /\ ~Heads(t) /\ o # t /\ Heads(o)
         /\ \A t, o, q : Follows(t, o) /\ Follows(t, q) => o = q
         /\ \A t, u : Precedes(t, u) => /\ t # u /\ t \in Tags /\ u \in Tags /\ Used(t)
                                       /\ \E o : Follows(u, o) /\ (t = o \/ Follows(t, o))
  <1>1. ASSUME NEW c \in Clients
        PROVE  chain[c] \in Seq(Tags) /\ Distinct(chain[c]) /\ Len(chain[c]) \in Nat /\ \A i \in 1..Len(chain[c]) : chain[c][i] \in Tags
    BY DEF MountTypes, TagInv
  <1>2. ASSUME NEW c \in Clients, NEW d \in Clients, NEW i \in 1..Len(chain[c]), NEW j \in 1..Len(chain[d]), chain[c][i] = chain[d][j]
        PROVE  c = d /\ i = j
    <2>1. In(chain[c][i], chain[c]) /\ In(chain[c][i], chain[d])
      BY <1>2 DEF In
    <2>2. c = d
      BY <2>1 DEF TagInv
    <2>. QED
      BY <2>2, <1>1, <1>2 DEF Distinct
  <1>3. \A c \in Clients : chain[c] # <<>> => 1 \in 1..Len(chain[c])
    BY <1>1
  <1>4. \A c \in Clients : \A i \in 2..Len(chain[c]) : i \in 1..Len(chain[c]) /\ 1 \in 1..Len(chain[c]) /\ 1 < i
    BY <1>1
  <1>5. ASSUME NEW t, Heads(t) PROVE \E c \in Clients : 1 \in 1..Len(chain[c]) /\ chain[c][1] = t
    BY <1>3, <1>5 DEF Heads
  <1>6. ASSUME NEW t, NEW o, Follows(t, o)
        PROVE  \E c \in Clients : \E i \in 1..Len(chain[c]) : 1 \in 1..Len(chain[c]) /\ 1 < i /\ chain[c][i] = t /\ chain[c][1] = o
    BY <1>4, <1>6 DEF Follows
  <1>7. \A t : Used(t) => t \in Tags
    BY <1>1, <1>5, <1>6 DEF Used
  <1>8. ASSUME NEW t, NEW o, Follows(t, o) PROVE Precedes(o, t) /\ ~Heads(t) /\ o # t /\ Heads(o)
    <2>0. PICK c \in Clients : \E i \in 1..Len(chain[c]) : 1 \in 1..Len(chain[c]) /\ 1 < i /\ chain[c][i] = t /\ chain[c][1] = o
      BY <1>6, <1>8
    <2>1. PICK i \in 1..Len(chain[c]) : 1 \in 1..Len(chain[c]) /\ 1 < i /\ chain[c][i] = t /\ chain[c][1] = o
      BY <2>0
    <2>2. Precedes(o, t)
      BY <2>1 DEF Precedes
    <2>3. o # t
      BY <2>1, <1>2
    <2>4. ASSUME Heads(t) PROVE FALSE
      <3>1. PICK d \in Clients : 1 \in 1..Len(chain[d]) /\ chain[d][1] = t
        BY <2>4, <1>5
      <3>2. 1 = i
        BY <3>1, <2>1, <1>2
      <3>. QED
        BY <3>2, <2>1
    <2>5. Heads(o)
      BY <2>1, <1>1 DEF Heads
    <2>. QED
      BY <2>2, <2>3, <2>4, <2>5
  <1>9. ASSUME NEW t, NEW o, NEW q, Follows(t, o), Follows(t, q) PROVE o = q
    <2>1. PICK c \in Clients : \E i \in 1..Len(chain[c]) : chain[c][i] = t /\ chain[c][1] = o
      BY <1>6, <1>9
    <2>2. PICK d \in Clients : \E j \in 1..Len(chain[d]) : chain[d][j] = t /\ chain[d][1] = q
      BY <1>6, <1>9
    <2>. QED
      BY <2>1, <2>2, <1>2
  <1>10. ASSUME NEW t, NEW u, Precedes(t, u)
         PROVE /\ t # u /\ t \in Tags /\ u \in Tags /\ Used(t)
               /\ \E o : Follows(u, o) /\ (t = o \/ Follows(t, o))
    <2>0. PICK c \in Clients : \E i, j \in 1..Len(chain[c]) : i < j /\ chain[c][i] = t /\ chain[c][j] = u
      BY <1>10 DEF Precedes
    <2>1. PICK i, j \in 1..Len(chain[c]) : i < j /\ chain[c][i] = t /\ chain[c][j] = u
      BY <2>0
    <2>2. t # u /\ t \in Tags /\ u \in Tags /\ chain[c] # <<>>
      <3>1. t = u => i = j
        BY <2>1, <1>2
      <3>2. chain[c] # <<>>
        BY <2>1, <1>1
      <3>. QED
        BY <3>1, <3>2, <2>1, <1>1
    <2>3. j \in 2..Len(chain[c]) /\ (i = 1 \/ i \in 2..Len(chain[c]))
      BY <2>1, <1>1
    <2>4. Follows(u, chain[c][1])
      BY <2>1, <2>3 DEF Follows
    <2>5. t = chain[c][1] \/ Follows(t, chain[c][1])
      BY <2>1, <2>3 DEF Follows
    <2>6. Used(t)
      BY <2>2, <2>5 DEF Used, Heads
    <2>. QED
      BY <2>2, <2>4, <2>5, <2>6
  <1>. QED
    BY <1>7, <1>8, <1>9, <1>10

\* Chains do not change.
LEMMA SameChains ==
  ASSUME UNCHANGED chain
  PROVE  /\ \A t, u : Precedes(t, u)' <=> Precedes(t, u)
         /\ \A t, o : Follows(t, o)' <=> Follows(t, o)
         /\ \A t : (Heads(t)' <=> Heads(t)) /\ (Used(t)' <=> Used(t))
  BY DEF Precedes, Follows, Heads, Used

\* What stands for a place, now and next.
LEMMA PlaceTypes ==
  \A t, m, a : /\ Place(t, m, a) => m \in 0..5 /\ a \in Nat /\ (m \in {1, 2, 5} => a = 0)
               /\ Place(t, m, a)' => m \in 0..5 /\ a \in Nat /\ (m \in {1, 2, 5} => a = 0)
  <1>1. \A t, i : OnSrv(t, i) \/ OnMnt(t, i) \/ OnSrv(t, i)' \/ OnMnt(t, i)' => i \in Nat
    BY DEF OnSrv, OnMnt
  <1>2. \A t, k, i : OnList(t, k, i) \/ OnList(t, k, i)' => i \in Nat
    BY DEF OnList
  <1>. QED
    BY <1>1, <1>2 DEF Place

\* What is on its way is of a call.
LEMMA PlaceUsed ==
  ASSUME Carriers
  PROVE  \A t, m, a : Place(t, m, a) /\ m # 5 => Used(t)
  <1>1. \A t, i : OnSrv(t, i) => Used(t)
    BY DEF OnSrv, Carriers, Names, Used
  <1>2. \A t : OnReq(t) => Used(t)
    BY DEF OnReq, Carriers, Names, Used
  <1>3. \A t, k : OnExq(t, k) \/ OnJob(t, k) => Used(t)
    BY DEF Carriers, Used
  <1>4. \A t, k, i : OnList(t, k, i) => Used(t)
    BY DEF Carriers, Used
  <1>5. \A t, i : OnMnt(t, i) => Used(t)
    BY DEF Carriers
  <1>. QED
    BY <1>1, <1>2, <1>3, <1>4, <1>5 DEF Place

-----------------------------------------------------------------------------
(* A tag goes ahead.                                                       *)

\* How many places the tags that stay where they are move up: e.srv and
\* e.mnt on the connection, one on a list for the tags in e.list.
Back(e, t, m) ==
  IF m = 0 THEN e.srv ELSE IF m = 4 THEN e.mnt ELSE IF m = 3 /\ t \in e.list THEN 1 ELSE 0

\* What a step that moves one tag may do to the others: messages move up on the
\* connection, either way, or a tag moves up on its list.
Shifts == [srv : {0, 1}, mnt : {0, 1}, list : SUBSET Tags]

\* x goes from its stage to a later one, the others stay.
Goes(x, m, n, b) == \A i, a : Place(x, i, a)' => i = n /\ a = b /\ n > m
\* The tags but x stay where they are, but for that.
Stay(x, e) == \A t \in Tags : t # x => \A i, a : Place(t, i, a)' => Place(t, i, a + Back(e, t, i))

\* If x goes ahead, and not past a tag that is before it, the order is kept.
LEMMA GoesAhead ==
  ASSUME MountTypes, TagInv, UNCHANGED chain, Once, InLine,
         NEW e \in Shifts, NEW x, Stay(x, e),
         \A t, u : t # x /\ u # x /\ Precedes(t, u) => (\A i, j : Place(t, 3, i) /\ Place(u, 3, j) => (t \in e.list <=> u \in e.list)),
         NEW m, NEW a, NEW n \in Nat, NEW b, x \in Tags => Place(x, m, a) /\ Goes(x, m, n, b),
         Place(x, n, b)' => \A t : Precedes(t, x) => \A i, j : Place(t, i, j)' => Ahead(i, j, n, b)
  PROVE  Once' /\ InLine'
  <1>1. \A t, i, j : Place(t, i, j) => i \in 0..5 /\ j \in Nat
    BY PlaceTypes
  <1>2. \A t, i, j : Place(t, i, j)' => i \in 0..5 /\ j \in Nat /\ (i \in {1, 2, 5} => j = 0)
    BY PlaceTypes
  <1>3. \A t, i : Back(e, t, i) \in {0, 1}
    BY DEF Back, Shifts
  <1>4. Once'
    <2>1. SUFFICES ASSUME NEW t \in Tags, NEW i, NEW j, NEW p, NEW q, Place(t, i, p)', Place(t, j, q)'
                   PROVE  i = j /\ p = q
      BY DEF Once
    <2>2. CASE t = x
      BY <2>1, <2>2 DEF Goes
    <2>3. CASE t # x
      <3>1. Place(t, i, p + Back(e, t, i)) /\ Place(t, j, q + Back(e, t, j))
        BY <2>1, <2>3 DEF Stay
      <3>2. i = j /\ p + Back(e, t, i) = q + Back(e, t, i)
        BY <3>1 DEF Once
      <3>3. p \in Nat /\ q \in Nat
        BY <2>1, <1>2
      <3>. QED
        BY <3>2, <3>3, <1>3
    <2>. QED
      BY <2>2, <2>3
  <1>5. InLine'
    <2>1. SUFFICES ASSUME NEW t, NEW u, Precedes(t, u)', NEW i, NEW j, NEW p, NEW q, Place(t, i, p)', Place(u, j, q)'
                   PROVE  Ahead(i, p, j, q)
      BY DEF InLine, Ahead
    <2>2. Precedes(t, u) /\ t # u /\ t \in Tags /\ u \in Tags
      BY <2>1, SameChains, ChainFacts
    <2>3. i \in 0..5 /\ j \in 0..5 /\ p \in Nat /\ q \in Nat
      BY <2>1, <1>2
    <2>4. CASE t = x
      <3>1. i = n /\ p = b /\ n > m /\ Place(x, m, a) /\ Place(u, j, q + Back(e, u, j))
        BY <2>1, <2>2, <2>4 DEF Goes, Stay
      <3>2. Ahead(m, a, j, q + Back(e, u, j)) /\ m \in 0..5
        BY <3>1, <2>2, <2>4, <1>1 DEF InLine
      <3>. QED
        BY <3>1, <3>2, <2>3 DEF Ahead
    <2>5. CASE u = x
      <3>1. j = n /\ q = b
        BY <2>1, <2>2, <2>5 DEF Goes
      <3>. QED
        BY <3>1, <2>1, <2>2, <2>5
    <2>6. CASE t # x /\ u # x
      <3>1. Place(t, i, p + Back(e, t, i)) /\ Place(u, j, q + Back(e, u, j))
        BY <2>1, <2>2, <2>6 DEF Stay
      <3>2. Ahead(i, p + Back(e, t, i), j, q + Back(e, u, j))
        BY <3>1, <2>2 DEF InLine
      <3>3. i = j => Back(e, t, i) = Back(e, u, j)
        BY <3>1, <2>2, <2>6 DEF Back
      <3>4. PICK v \in {0, 1} : v = Back(e, t, i)
        BY <1>3
      <3>5. CASE i > j
        BY <3>5 DEF Ahead
      <3>6. CASE i = j
        <4>1. p + v < q + v \/ i = 5
          BY <3>2, <3>3, <3>4, <3>6, <2>3 DEF Ahead
        <4>. QED
          BY <4>1, <3>6, <2>3 DEF Ahead
      <3>. QED
        BY <3>2, <3>5, <3>6, <2>3 DEF Ahead
    <2>. QED
      BY <2>4, <2>5, <2>6
  <1>. QED
    BY <1>4, <1>5

\* Where the tags are, if only x changes its stage, from m to n, where b is
\* its place; it may vanish.
Moved(x, m, n, b, e) ==
  /\ \A t, i : OnSrv(t, i)' => OnSrv(t, i + e.srv) /\ (t = x => m # 0)
  /\ \A t, k : OnExq(t, k)' => (OnExq(t, k) /\ (t = x => m # 1)) \/ (t = x /\ n = 1 /\ b = 0)
  /\ \A t : OnReq(t)' => (OnReq(t) /\ (t = x => m # 2)) \/ (t = x /\ n = 2 /\ b = 0)
  /\ \A t, k : OnJob(t, k)' => (OnJob(t, k) /\ t \notin e.list /\ (t = x => m # 3)) \/ (t = x /\ n = 3 /\ b = 0)
  /\ \A t, k, i : OnList(t, k, i)' =>
       (OnList(t, k, IF t \in e.list THEN i + 1 ELSE i) /\ (t = x => m # 3)) \/ (t = x /\ n = 3 /\ b = i)
  /\ \A t, i : OnMnt(t, i)' => (OnMnt(t, i + e.mnt) /\ (t = x => m # 4)) \/ (t = x /\ n = 4 /\ b = i)
  /\ \A t \in Tags : Done(t)' => (Done(t) /\ (t = x => m # 5)) \/ (t = x /\ n = 5 /\ b = 0)

\* On a list the tags in e.list and others are not of one call.
Split(x, e) ==
  \A t, u : t # x /\ u # x /\ Precedes(t, u) =>
    \A i, j : Place(t, 3, i) /\ Place(u, 3, j) => (t \in e.list <=> u \in e.list)

\* And x does not pass a tag that is before it.
Keeps(x, m, a, n, b, e) ==
  \A t, o : Precedes(t, x) /\ t \in Tags /\ t # x /\ Follows(x, o) /\ (t = o \/ Follows(t, o)) =>
    \A i, j : i \in 0..5 /\ j \in Nat /\ Place(t, i, j)' /\ Place(t, i, j + Back(e, t, i)) /\ Ahead(i, j + Back(e, t, i), m, a)
      => Ahead(i, j, n, b)

\* Then the tags stay each in one place and in order.
LEMMA Advance ==
  ASSUME MountTypes, TagInv, UNCHANGED chain, Once, InLine,
         NEW e \in Shifts, NEW x, NEW m, NEW a, NEW n \in Nat, NEW b,
         n > m, x \in Tags => Place(x, m, a), Moved(x, m, n, b, e), Split(x, e),
         Place(x, n, b)' => Keeps(x, m, a, n, b, e)
  PROVE  Once' /\ InLine'
  <1>1. ASSUME NEW t \in Tags, NEW i, NEW j, Place(t, i, j)'
        PROVE  (Place(t, i, j + Back(e, t, i)) /\ (t = x => i # m)) \/ (t = x /\ i = n /\ j = b)
    <2>1. i \in 0..5 /\ j \in Nat
      BY <1>1, PlaceTypes
    <2>2. CASE i = 0
      <3>1. OnSrv(t, j)' /\ Back(e, t, i) = e.srv
        BY <1>1, <2>2 DEF Place, Back
      <3>2. OnSrv(t, j + e.srv) /\ (t = x => m # 0)
        BY <3>1 DEF Moved
      <3>. QED
        BY <2>2, <3>1, <3>2 DEF Place
    <2>3. CASE i = 4
      <3>1. OnMnt(t, j)' /\ Back(e, t, i) = e.mnt
        BY <1>1, <2>3 DEF Place, Back
      <3>2. (OnMnt(t, j + e.mnt) /\ (t = x => m # 4)) \/ (t = x /\ n = 4 /\ b = j)
        BY <3>1 DEF Moved
      <3>. QED
        BY <2>3, <3>1, <3>2 DEF Place
    <2>4. CASE i = 3
      <3>1. Back(e, t, i) = (IF t \in e.list THEN 1 ELSE 0)
        BY <2>4 DEF Back
      <3>2. CASE j = 0 /\ \E k : OnJob(t, k)'
        <4>1. PICK k : OnJob(t, k)'
          BY <3>2
        <4>2. (OnJob(t, k) /\ t \notin e.list /\ (t = x => m # 3)) \/ (t = x /\ n = 3 /\ b = 0)
          BY <4>1 DEF Moved
        <4>. QED
          BY <2>4, <3>1, <3>2, <4>2 DEF Place
      <3>3. CASE \E k : OnList(t, k, j)'
        <4>1. PICK k : OnList(t, k, j)'
          BY <3>3
        <4>2. (OnList(t, k, IF t \in e.list THEN j + 1 ELSE j) /\ (t = x => m # 3)) \/ (t = x /\ n = 3 /\ b = j)
          BY <4>1 DEF Moved
        <4>3. (IF t \in e.list THEN j + 1 ELSE j) = j + Back(e, t, i)
          BY <2>1, <3>1
        <4>4. OnList(t, k, j + Back(e, t, i)) => Place(t, 3, j + Back(e, t, i))
          BY DEF Place
        <4>. QED
          BY <2>4, <4>2, <4>3, <4>4
      <3>. QED
        BY <1>1, <2>4, <3>2, <3>3 DEF Place
    <2>5. CASE i \in {1, 2, 5}
      <3>1. Back(e, t, i) = 0 /\ j = 0
        BY <1>1, <2>5, PlaceTypes DEF Back
      <3>2. (Place(t, i, j) /\ (t = x => i # m)) \/ (t = x /\ i = n /\ j = b)
        <4>1. CASE i = 1
          <5>1. PICK k : OnExq(t, k)'
            BY <1>1, <4>1 DEF Place
          <5>. QED
            BY <3>1, <4>1, <5>1 DEF Place, Moved
        <4>2. CASE i = 2
          BY <1>1, <3>1, <4>2 DEF Place, Moved
        <4>3. CASE i = 5
          BY <1>1, <3>1, <4>3 DEF Place, Moved
        <4>. QED
          BY <2>5, <4>1, <4>2, <4>3
      <3>. QED
        BY <2>1, <3>1, <3>2
    <2>. QED
      BY <2>1, <2>2, <2>3, <2>4, <2>5
  <1>2. Stay(x, e)
    BY <1>1 DEF Stay
  <1>3. x \in Tags => Place(x, m, a) /\ Goes(x, m, n, b)
    <2>1. SUFFICES ASSUME x \in Tags, NEW i, NEW j, Place(x, i, j)' PROVE i = n /\ j = b
      BY DEF Goes
    <2>. QED
      BY <1>1, <2>1 DEF Once
  <1>4. ASSUME Place(x, n, b)', NEW t, Precedes(t, x), NEW i, NEW j, Place(t, i, j)' PROVE Ahead(i, j, n, b)
    <2>1. PICK o : Follows(x, o) /\ (t = o \/ Follows(t, o)) /\ t # x /\ t \in Tags /\ x \in Tags
      BY <1>4, ChainFacts
    <2>2. i \in 0..5 /\ j \in Nat
      BY <1>4, PlaceTypes
    <2>3. Place(t, i, j + Back(e, t, i))
      BY <1>1, <1>4, <2>1
    <2>4. Ahead(i, j + Back(e, t, i), m, a)
      BY <1>3, <1>4, <2>1, <2>3 DEF InLine
    <2>. QED
      BY <1>4, <2>1, <2>2, <2>3, <2>4 DEF Keeps
  <1>. QED
    BY <1>2, <1>3, <1>4, GoesAhead DEF Split

\* Nothing is taken off a list.
LEMMA NoSplit ==
  ASSUME NEW x, NEW e, e.list = {}
  PROVE  Split(x, e)
  BY DEF Split

\* What carries a tag carried it, or is named rightly.
LEMMA CarriersKeep ==
  ASSUME Carriers, UNCHANGED chain,
         \A i \in 1..Len(toSrv') : \E j \in 1..Len(toSrv) : toSrv'[i] = toSrv[j],
         epc' = "flush" => \E y : y = ereq' /\ Names(y),
         \A t, k : OnExq(t, k)' \/ OnJob(t, k)' => Heads(t),
         \A t, k, i : OnList(t, k, i)' => \E o : o = rec'[k].tag /\ Follows(t, o),
         \A t, i : OnMnt(t, i)' => Used(t)
  PROVE  Carriers'
  <1>1. \A y : Names(y)' <=> Names(y)
    BY SameChains DEF Names
  <1>2. ASSUME NEW i \in 1..Len(toSrv') PROVE Names(toSrv[i])'
    <2>1. PICK y : y = toSrv'[i]
      OBVIOUS
    <2>2. Names(y)
      BY <2>1 DEF Carriers
    <2>. QED
      BY <2>1, <2>2, <1>1
  <1>3. ASSUME epc' = "flush" PROVE Names(ereq)'
    <2>1. PICK y : y = ereq' /\ Names(y)
      BY <1>3
    <2>. QED
      BY <2>1, <1>1
  <1>4. \A t, k : (OnExq(t, k) \/ OnJob(t, k) => Heads(t))'
    BY SameChains
  <1>5. ASSUME NEW t, NEW k, NEW i, OnList(t, k, i)' PROVE Follows(t, rec[k].tag)'
    <2>1. PICK o : o = rec'[k].tag /\ Follows(t, o)
      BY <1>5
    <2>2. Follows(t, o)'
      BY <2>1, SameChains
    <2>. QED
      BY <2>1, <2>2
  <1>6. \A t, i : (OnMnt(t, i) => Used(t))'
    BY SameChains
  <1>. QED
    BY <1>2, <1>3, <1>4, <1>5, <1>6 DEF Carriers

\* The next message for the server.
LEMMA HeadOfSrv ==
  ASSUME ServerTypes, Carriers, toSrv # <<>>, toSrv' = Tail(toSrv), NEW m, m = Head(toSrv)
  PROVE  /\ m \in TMessages /\ m.tag \in Tags /\ Names(m) /\ Place(m.tag, 0, 1)
         /\ \A t, i : OnSrv(t, i)' => i \in Nat \ {0} /\ OnSrv(t, i + 1)
         /\ \A i \in 1..Len(toSrv') : \E j \in 1..Len(toSrv) : toSrv'[i] = toSrv[j]
  <1>1. toSrv \in Seq(TMessages)
    BY DEF ServerTypes
  <1>2. /\ m = toSrv[1] /\ 1 \in 1..Len(toSrv) /\ Len(toSrv') = Len(toSrv) - 1 /\ Len(toSrv) \in Nat /\ m \in TMessages
        /\ \A i \in 1..(Len(toSrv) - 1) : toSrv'[i] = toSrv[i + 1] /\ i + 1 \in 1..Len(toSrv)
    BY <1>1, TailAt
  <1>3. OnSrv(m.tag, 1)
    BY <1>2 DEF OnSrv
  <1>. QED
    BY <1>2, <1>3 DEF Place, Carriers, OnSrv, TMessages

-----------------------------------------------------------------------------
(* The server's steps and the tags.                                        *)

\* All that is known while the connection stands.
Sound == Sides /\ Tagged /\ ~hung

\* There is one request with a given tag that a flush can be for.
LEMMA LiveFacts ==
  ASSUME Sound
  PROVE  /\ \A k \in Calls : Live(k) => In(k, work) /\ SomeAt(k, Working)
         /\ \A k, l \in Calls : Live(k) /\ Live(l) /\ rec[k].tag = rec[l].tag => k = l
         /\ \A t, k : OnJob(t, k) => k \in Calls /\ Live(k) /\ rec[k].tag = t /\ Heads(t) /\ ~rec[k].finished
         /\ \A t, k, i : OnList(t, k, i) => k \in Calls /\ Live(k) /\ Follows(t, rec[k].tag) /\ ~rec[k].finished
  <1>1. ServerTypes /\ CallInv /\ SlaveInv /\ RecInv /\ Carriers /\ LiveFirst /\ ~hung
    BY DEF Sound, Sides, ServerInv, Tagged
  <1>2. \A k \in Calls : SomeAt(k, Busy) => SomeAt(k, Working)
    BY DEF SomeAt, At, Busy, Working
  <1>3. ASSUME NEW k \in Calls, Live(k) PROVE In(k, work) /\ SomeAt(k, Working)
    <2>1. SomeAt(k, Working)
      BY <1>1, <1>2, <1>3 DEF Live, RecInv
    <2>2. PICK s \in Slaves : job[s] = k /\ spc[s] \in Working
      BY <2>1 DEF SomeAt, At
    <2>3. ~rec[k].shut
      BY <1>1 DEF RecInv
    <2>. QED
      BY <1>1, <2>1, <2>2, <2>3 DEF SlaveInv
  <1>4. \A k, l \in Calls : ~(Before(k, l, work) /\ Before(l, k, work))
    <2>1. Distinct(work) /\ work \in Seq(Calls)
      BY <1>1 DEF RecInv, ServerTypes
    <2>2. SUFFICES ASSUME NEW k \in Calls, NEW l \in Calls, Before(k, l, work), Before(l, k, work) PROVE FALSE
      OBVIOUS
    <2>3. PICK i, j \in 1..Len(work) : i < j /\ work[i] = k /\ work[j] = l
      BY <2>2 DEF Before
    <2>4. PICK p, q \in 1..Len(work) : p < q /\ work[p] = l /\ work[q] = k
      BY <2>2 DEF Before
    <2>5. i = q /\ j = p
      BY <2>1, <2>3, <2>4 DEF Distinct
    <2>. QED
      BY <2>3, <2>4, <2>5
  <1>5. \A k, l \in Calls : Live(k) /\ Live(l) /\ rec[k].tag = rec[l].tag => k = l
    BY <1>1, <1>3, <1>4 DEF LiveFirst
  <1>6. \A t, k : OnJob(t, k) => k \in Calls /\ Live(k) /\ rec[k].tag = t /\ Heads(t)
    BY <1>1 DEF OnJob, Live, Carriers
  <1>7. ASSUME NEW t, NEW k, NEW i, OnList(t, k, i) PROVE k \in Calls /\ Live(k) /\ Follows(t, rec[k].tag)
    <2>1. k \in Calls /\ i \in 1..Len(rec[k].flush) /\ rec[k].flush \in Seq(TMessages)
      BY <1>1, <1>7 DEF OnList, ServerTypes, ExqRecs
    <2>2. rec[k].flush # <<>>
      BY <2>1
    <2>. QED
      BY <1>1, <1>7, <2>1, <2>2 DEF Live, Carriers
  <1>8. ASSUME NEW k \in Calls, Live(k) PROVE ~rec[k].finished
    <2>1. CASE rec[k].flush # <<>>
      BY <1>1, <2>1 DEF RecInv
    <2>2. CASE SomeAt(k, Busy)
      <3>1. SUFFICES ASSUME SomeAt(k, {"remove"}) PROVE FALSE
        BY <1>1 DEF RecInv
      <3>2. PICK s \in Slaves : job[s] = k /\ spc[s] \in Busy
        BY <2>2 DEF SomeAt, At
      <3>3. PICK r \in Slaves : job[r] = k /\ spc[r] = "remove"
        BY <3>1 DEF SomeAt, At
      <3>4. r = s
        BY <3>2, <3>3, <1>1, CallsAre DEF CallInv
      <3>. QED
        BY <3>2, <3>3, <3>4 DEF Busy
    <2>. QED
      BY <1>8, <2>1, <2>2 DEF Live
  <1>. QED
    BY <1>3, <1>5, <1>6, <1>7, <1>8

\* A request is read.
LEMMA EnqueueTags ==
  ASSUME Sound, Enqueue, UNCHANGED mvars
  PROVE  Tagged'
  <1>0. PICK m : m = Head(toSrv)
    OBVIOUS
  <1>1. PICK x, k : x = m.tag /\ k = m.call
    OBVIOUS
  <1>2. ServerTypes /\ CallInv /\ SlaveInv /\ RecInv /\ MountTypes /\ TagInv /\ Once /\ OneExq /\ Carriers /\ InLine /\ LiveFirst
    BY DEF Sound, Sides, ServerInv, MountInv, Tagged
  <1>3. /\ toSrv # <<>> /\ toSrv' = Tail(toSrv) /\ m.type = "T"
        /\ UNCHANGED <<epc, ereq, exql, fsl, work, spc, job, performed, done, toMnt, hung, killed>>
        /\ exq' = Append(exq, k) \/ exq' = exq
        /\ rec' = [rec EXCEPT ![k].tag = x]
    BY <1>0, <1>1 DEF Enqueue
  <1>4. /\ toSrv' \in Seq(TMessages) /\ m \in TMessages
        /\ k \in Calls /\ ~In(k, exq) /\ ~HasJob(k)
        /\ toSrv \in Seq(TMessages) /\ exq \in Seq(Calls) /\ rec \in [Calls -> ExqRecs]
    BY <1>0, <1>1, <1>2, <1>3, OneAtATime DEF ServerTypes
  <1>5. /\ m.tag \in Tags /\ Names(m) /\ Place(m.tag, 0, 1)
        /\ \A t, i : OnSrv(t, i)' => i \in Nat \ {0} /\ OnSrv(t, i + 1)
        /\ \A i \in 1..Len(toSrv') : \E j \in 1..Len(toSrv) : toSrv'[i] = toSrv[j]
    BY <1>0, <1>2, <1>3, HeadOfSrv
  <1>6. x \in Tags /\ Heads(x) /\ Place(x, 0, 1)
    BY <1>1, <1>3, <1>5 DEF Names
  <1>7. /\ \A l \in Calls : l # k => rec'[l] = rec[l]
        /\ rec'[k].tag = x /\ rec'[k].flush = rec[k].flush
        /\ \A C : ~SomeAt(k, C)
        /\ \A l : \A C : SomeAt(l, C)' <=> SomeAt(l, C)
    <2>1. \A C : ~SomeAt(k, C)
      BY <1>4 DEF SomeAt, At, HasJob
    <2>2. \A l : \A C : SomeAt(l, C)' <=> SomeAt(l, C)
      BY <1>3 DEF SomeAt, At
    <2>3. rec[k] \in ExqRecs
      BY <1>4
    <2>. QED
      BY <1>3, <1>4, <2>1, <2>2, <2>3 DEF ExqRecs
  <1>8. rec[k].flush = <<>>
    BY <1>2, <1>4, <1>7 DEF RecInv
  <1>9. \A t, i : OnSrv(t, i)' => i \in Nat \ {0} /\ OnSrv(t, i + 1)
    BY <1>5
  <1>10. \A t, l : OnExq(t, l)' => OnExq(t, l) \/ (t = x /\ l = k)
    <2>1. \A l : In(l, exq') => l = k \/ In(l, exq)
      BY <1>3, <1>4, AppendIn
    <2>. QED
      BY <2>1, <1>7 DEF OnExq
  <1>11. /\ \A t : OnReq(t)' <=> OnReq(t)
         /\ \A t, l : OnJob(t, l)' <=> OnJob(t, l)
         /\ \A t, l, i : OnList(t, l, i)' <=> OnList(t, l, i)
         /\ \A t, i : OnMnt(t, i)' <=> OnMnt(t, i)
         /\ \A t : Done(t)' <=> Done(t)
    <2>1. \A t, l : OnJob(t, l)' <=> OnJob(t, l)
      BY <1>7 DEF OnJob
    <2>2. \A t, l, i : OnList(t, l, i)' <=> OnList(t, l, i)
      BY <1>7 DEF OnList
    <2>. QED
      BY <2>1, <2>2, <1>3 DEF OnReq, OnMnt, Done, mvars
  <1>. DEFINE e == [srv |-> 1, mnt |-> 0, list |-> {}]
  <1>12. e \in Shifts /\ e.srv = 1 /\ e.mnt = 0 /\ e.list = {}
    BY DEF Shifts
  <1>. HIDE DEF e
  <1>13. Moved(x, 0, 1, 0, e)
    <2>1. \A t, i : OnMnt(t, i) => OnMnt(t, i + e.mnt)
      BY <1>12 DEF OnMnt
    <2>2. \A t, i : OnSrv(t, i)' => OnSrv(t, i + e.srv) /\ t # x
      <3>1. SUFFICES ASSUME NEW t, NEW i, OnSrv(t, i)' PROVE OnSrv(t, i + e.srv) /\ t # x
        OBVIOUS
      <3>2. i \in Nat \ {0} /\ OnSrv(t, i + 1)
        BY <1>9, <3>1
      <3>3. Place(t, 0, i + 1)
        BY <3>2 DEF Place
      <3>. QED
        BY <3>2, <3>3, <1>2, <1>6, <1>12 DEF Once
    <2>3. \A t : t \notin e.list
      BY <1>12
    <2>4. \A t, l, i : OnList(t, l, i)' => OnList(t, l, IF t \in e.list THEN i + 1 ELSE i)
      BY <2>3, <1>11
    <2>5. \A t, l : OnJob(t, l)' => OnJob(t, l) /\ t \notin e.list
      BY <2>3, <1>11
    <2>6. \A t, l : OnExq(t, l)' => (OnExq(t, l) /\ (t = x => 0 # 1)) \/ (t = x /\ 1 = 1 /\ 0 = 0)
      BY <1>10
    <2>7. \A t : (OnReq(t)' => OnReq(t) /\ (t = x => 0 # 2)) /\ (Done(t)' => Done(t) /\ (t = x => 0 # 5))
      BY <1>11
    <2>8. \A t, i : OnMnt(t, i)' => OnMnt(t, i + e.mnt) /\ (t = x => 0 # 4)
      BY <2>1, <1>11
    <2>. QED
      BY <2>2, <2>4, <2>5, <2>6, <2>7, <2>8 DEF Moved
  <1>14. Keeps(x, 0, 1, 1, 0, e)
    <2>1. \A t : ~Precedes(t, x)
      BY <1>2, <1>6, ChainFacts
    <2>. QED
      BY <2>1 DEF Keeps
  <1>15. UNCHANGED chain
    BY DEF mvars
  <1>16. Split(x, e)
    BY <1>12, NoSplit
  <1>17. Once' /\ InLine'
    BY <1>2, <1>6, <1>12, <1>13, <1>14, <1>15, <1>16, Advance
  <1>18. OneExq'
    <2>1. \A l : ~OnExq(x, l)
      <3>1. ~Place(x, 1, 0)
        BY <1>2, <1>6 DEF Once
      <3>. QED
        BY <3>1 DEF Place
    <2>. QED
      BY <2>1, <1>2, <1>10 DEF OneExq
  <1>19. Carriers'
    <2>1. epc' = "flush" => \E y : y = ereq' /\ Names(y)
      BY <1>2, <1>3 DEF Carriers
    <2>2. \A t, l : OnExq(t, l)' \/ OnJob(t, l)' => Heads(t)
      BY <1>2, <1>6, <1>10, <1>11 DEF Carriers
    <2>3. \A t, l, i : OnList(t, l, i)' => \E o : o = rec'[l].tag /\ Follows(t, o)
      <3>0. \A t, l, i : OnList(t, l, i) => l \in Calls /\ l # k
        BY <1>8 DEF OnList
      <3>1. \A t, l, i : OnList(t, l, i)' => OnList(t, l, i) /\ l \in Calls /\ l # k
        BY <3>0, <1>11
      <3>. QED
        BY <3>1, <1>2, <1>7 DEF Carriers
    <2>4. \A t, i : OnMnt(t, i)' => Used(t)
      BY <1>2, <1>11 DEF Carriers
    <2>. QED
      BY <2>1, <2>2, <2>3, <2>4, <1>2, <1>5, <1>15, CarriersKeep
  <1>20. LiveFirst'
    <2>1. \A l \in Calls : Live(l)' <=> Live(l)
      BY <1>7 DEF Live
    <2>2. ~In(k, work)
      BY <1>2, <1>7 DEF RecInv
    <2>. QED
      BY <2>1, <2>2, <1>2, <1>3, <1>7 DEF LiveFirst
  <1>. QED
    BY <1>17, <1>18, <1>19, <1>20 DEF Tagged

\* A reply goes on the end of the connection.
LEMMA Replied ==
  ASSUME toMnt \in Seq(RMessages), ~hung, NEW r \in RMessages, Exreply(r)
  PROVE  \E b \in Nat : /\ \A t, i : OnMnt(t, i)' => OnMnt(t, i) \/ (t = r.tag /\ i = b)
                        /\ \A t, i : OnMnt(t, i) => i \in Nat /\ i < b
  <1>1. /\ Append(toMnt, r) \in Seq(RMessages) /\ Len(Append(toMnt, r)) = Len(toMnt) + 1
        /\ \A i \in 1..Len(toMnt) : Append(toMnt, r)[i] = toMnt[i]
        /\ Append(toMnt, r)[Len(toMnt) + 1] = r
    BY AppendAt
  <1>2. toMnt' = Append(toMnt, r) /\ Len(toMnt) \in Nat
    BY DEF Exreply
  <1>3. Len(toMnt') = Len(toMnt) + 1 /\ toMnt'[Len(toMnt) + 1] = r /\ \A i \in 1..Len(toMnt) : toMnt'[i] = toMnt[i]
    BY <1>1, <1>2
  <1>4. \A t, i : OnMnt(t, i)' => OnMnt(t, i) \/ (t = r.tag /\ i = Len(toMnt) + 1)
    BY <1>2, <1>3 DEF OnMnt
  <1>5. \A t, i : OnMnt(t, i) => i \in Nat /\ i < Len(toMnt) + 1
    BY <1>2 DEF OnMnt
  <1>. QED
    BY <1>2, <1>4, <1>5

\* The answer to a flush.
LEMMA RflushIs ==
  ASSUME NEW m \in TMessages, m.type = "Tflush"
  PROVE  Rflush(m) \in RMessages /\ Rflush(m).tag = m.tag /\ m.tag \in Tags /\ (Names(m) <=> Follows(m.tag, m.oldtag))
  BY DEF Rflush, RMessages, TMessages, Names

\* A flush is read, and its request discarded and the flush answered, or not found.
LEMMA FlushQueuedTags ==
  ASSUME Sound, FlushQueued, UNCHANGED mvars
  PROVE  Tagged'
  <1>0. PICK m : m = Head(toSrv)
    OBVIOUS
  <1>1. PICK x, o : x = m.tag /\ o = m.oldtag
    OBVIOUS
  <1>2. ServerTypes /\ CallInv /\ SlaveInv /\ RecInv /\ MountTypes /\ TagInv /\ Once /\ OneExq /\ Carriers /\ InLine /\ LiveFirst /\ ~hung
    BY DEF Sound, Sides, ServerInv, MountInv, Tagged
  <1>. DEFINE found == WithTag(exq, o)
  <1>3. /\ epc = "recv" /\ toSrv # <<>> /\ toSrv' = Tail(toSrv) /\ m.type = "Tflush" /\ exql = NoOne
        /\ UNCHANGED <<tail, lost, exql, fsl, work, spc, job, performed, done, hung, killed>>
        /\ \/ /\ found # <<>> /\ exq' = Without(exq, {Head(found)})
              /\ rec' = [rec EXCEPT ![Head(found)] = BlankExq]
              /\ Exreply(Rflush(m)) /\ UNCHANGED <<epc, ereq>>
           \/ /\ found = <<>> /\ ereq' = m /\ epc' = "flush"
              /\ UNCHANGED <<exq, rec, toMnt>>
    BY <1>0, <1>1 DEF FlushQueued
  <1>4. /\ m \in TMessages /\ m.tag \in Tags /\ Names(m) /\ Place(m.tag, 0, 1)
        /\ \A t, i : OnSrv(t, i)' => i \in Nat \ {0} /\ OnSrv(t, i + 1)
        /\ \A i \in 1..Len(toSrv') : \E j \in 1..Len(toSrv) : toSrv'[i] = toSrv[j]
    BY <1>0, <1>2, <1>3, HeadOfSrv
  <1>5. x \in Tags /\ Follows(x, o) /\ Place(x, 0, 1) /\ Rflush(m) \in RMessages /\ Rflush(m).tag = x
    BY <1>1, <1>3, <1>4, RflushIs
  <1>6. /\ \A l : \A C : SomeAt(l, C)' <=> SomeAt(l, C)
        /\ \A l : ~SomeAt(l, {"dispatch"})
    BY <1>2, <1>3, WireAssumption DEF SomeAt, At, SlaveInv
  <1>7. /\ exq \in Seq(Calls) /\ rec \in [Calls -> ExqRecs] /\ work \in Seq(Calls)
        /\ toMnt \in Seq(RMessages)
    BY <1>2 DEF ServerTypes
  <1>8. /\ found \in Seq(Calls) /\ \A l : In(l, found) <=> In(l, exq) /\ rec[l].tag = o
    <2>1. \A l : In(l, exq) => l \in Calls
      BY <1>7, InSet
    <2>2. /\ WithTag(exq, o) \in Seq(Calls)
          /\ \A l : In(l, WithTag(exq, o)) <=> l \notin {k \in Calls : rec[k].tag # o} /\ In(l, exq)
      BY <1>7, WithoutIn DEF WithTag
    <2>. QED
      BY <2>1, <2>2
  <1>. HIDE DEF found
  <1>9. UNCHANGED chain /\ UNCHANGED reply
    BY DEF mvars
  <1>. DEFINE e == [srv |-> 1, mnt |-> 0, list |-> {}]
  <1>10. e \in Shifts /\ e.srv = 1 /\ e.mnt = 0 /\ e.list = {} /\ Split(x, e)
    BY NoSplit DEF Shifts
  <1>. HIDE DEF e
  <1>11. \A t, i : OnSrv(t, i)' => OnSrv(t, i + e.srv) /\ t # x
    <2>1. SUFFICES ASSUME NEW t, NEW i, OnSrv(t, i)' PROVE OnSrv(t, i + e.srv) /\ t # x
      OBVIOUS
    <2>2. i \in Nat \ {0} /\ OnSrv(t, i + 1)
      BY <1>4, <2>1
    <2>3. Place(t, 0, i + 1)
      BY <2>2 DEF Place
    <2>. QED
      BY <2>2, <2>3, <1>2, <1>5, <1>10 DEF Once
  <1>12. \A t : ~OnReq(t) /\ (Done(t)' <=> Done(t)) /\ t \notin e.list
    BY <1>3, <1>9, <1>10 DEF OnReq, Done
  <1>13. \A t, i : Ahead(0, i + e.srv, 0, 1) => i \notin Nat
    BY <1>10 DEF Ahead
  <1>14. \A t, l : Follows(t, o) => ~OnExq(t, l)
    BY <1>2, ChainFacts DEF Carriers
  <1>15. LiveFirst' /\ (\A t, l, i : OnList(t, l, i)' => OnList(t, l, i) /\ rec'[l] = rec[l])
         /\ (\A t, l : OnJob(t, l)' => OnJob(t, l))
         /\ (\A t, l : OnExq(t, l)' => OnExq(t, l) /\ (found = <<>> \/ l # Head(found)))
         /\ (found # <<>> => OnExq(o, Head(found)))
    <2>1. CASE found = <<>>
      <3>1. UNCHANGED <<exq, rec, work>>
        BY <1>3, <2>1
      <3>2. /\ \A t, l, i : OnList(t, l, i)' => OnList(t, l, i) /\ rec'[l] = rec[l]
            /\ \A t, l : OnJob(t, l)' => OnJob(t, l)
            /\ \A t, l : OnExq(t, l)' => OnExq(t, l)
        BY <1>6, <3>1 DEF OnList, OnJob, OnExq
      <3>3. LiveFirst'
        BY <1>2, <1>6, <3>1 DEF LiveFirst, Live
      <3>. QED
        BY <2>1, <3>2, <3>3
    <2>2. CASE found # <<>>
      <3>1. PICK h : h = Head(found)
        OBVIOUS
      <3>2. h \in Calls /\ In(h, exq) /\ rec[h].tag = o
        <4>1. h = found[1] /\ 1 \in 1..Len(found)
          BY <1>8, <2>2, <3>1, TailAt
        <4>2. In(h, found)
          BY <4>1 DEF In
        <4>. QED
          BY <4>2, <1>7, <1>8, InSet
      <3>3. exq' = Without(exq, {h}) /\ rec' = [rec EXCEPT ![h] = BlankExq]
        BY <1>3, <2>2, <3>1
      <3>4. \A C : ~SomeAt(h, C)
        BY <1>2, <3>2 DEF CallInv, HasJob, SomeAt, At
      <3>5. rec[h].flush = <<>> /\ ~In(h, work)
        BY <1>2, <3>2, <3>4 DEF RecInv
      <3>6. /\ \A l \in Calls : l # h => rec'[l] = rec[l]
            /\ rec'[h].flush = <<>>
        BY <1>7, <3>2, <3>3 DEF BlankExq
      <3>7. \A l : In(l, exq') => In(l, exq) /\ l # h
        BY <1>7, <3>3, WithoutIn
      <3>8. \A t, l : OnExq(t, l)' => OnExq(t, l) /\ l # h
        BY <1>6, <3>4, <3>6, <3>7 DEF OnExq
      <3>9. \A t, l : OnJob(t, l)' => OnJob(t, l)
        BY <1>6, <3>4, <3>6 DEF OnJob
      <3>10. \A t, l, i : OnList(t, l, i)' => OnList(t, l, i) /\ rec'[l] = rec[l]
        <4>1. SUFFICES ASSUME NEW t, NEW l, NEW i, OnList(t, l, i)' PROVE OnList(t, l, i) /\ rec'[l] = rec[l]
          OBVIOUS
        <4>2. l # h /\ l \in Calls
          BY <3>6, <4>1 DEF OnList
        <4>. QED
          BY <3>6, <4>1, <4>2 DEF OnList
      <3>11. LiveFirst'
        <4>1. \A l \in Calls : Live(l)' => Live(l) /\ l # h
          BY <1>6, <3>4, <3>6 DEF Live
        <4>. QED
          BY <4>1, <1>2, <1>3, <3>5, <3>6 DEF LiveFirst
      <3>12. OnExq(o, h)
        BY <3>2 DEF OnExq
      <3>. QED
        BY <3>1, <3>8, <3>9, <3>10, <3>11, <3>12
    <2>. QED
      BY <2>1, <2>2
  <1>16. OneExq'
    BY <1>2, <1>15 DEF OneExq
  <1>17. \A l : found = <<>> => ~OnExq(o, l)
    <2>1. found = <<>> => \A l : ~In(l, found)
      BY EmptyIn
    <2>. QED
      BY <2>1, <1>6, <1>8 DEF OnExq
  <1>18. \A l : ~OnExq(o, l)'
    BY <1>2, <1>15, <1>17 DEF OneExq
  <1>19. \A t, i, j : t = o \/ Follows(t, o) => i # 1 \/ ~Place(t, i, j)'
    <2>1. SUFFICES ASSUME NEW t, NEW j, t = o \/ Follows(t, o), Place(t, 1, j)' PROVE FALSE
      OBVIOUS
    <2>2. PICK l : OnExq(t, l)'
      BY <2>1 DEF Place
    <2>. QED
      BY <2>1, <2>2, <1>14, <1>15, <1>18
  <1>20. /\ \A t, l, i : OnList(t, l, i)' => OnList(t, l, IF t \in e.list THEN i + 1 ELSE i)
         /\ \A t, l : OnJob(t, l)' => OnJob(t, l) /\ t \notin e.list
    BY <1>12, <1>15
  <1>21. CASE found = <<>>
    <2>1. UNCHANGED <<exq, rec, toMnt>> /\ ereq' = m /\ epc' = "flush"
      BY <1>3, <1>21
    <2>2. Moved(x, 0, 2, 0, e)
      <3>1. \A t, i : OnMnt(t, i)' => OnMnt(t, i + e.mnt)
        BY <1>10, <2>1 DEF OnMnt
      <3>2. \A t : OnReq(t)' => t = x
        BY <1>1, <2>1 DEF OnReq
      <3>. QED
        BY <3>1, <3>2, <1>11, <1>12, <1>15, <1>20 DEF Moved
    <2>3. Keeps(x, 0, 1, 2, 0, e)
      <3>1. SUFFICES ASSUME NEW t, NEW q, Precedes(t, x), t \in Tags, t # x, Follows(x, q), t = q \/ Follows(t, q),
                            NEW i, NEW j, i \in 0..5, j \in Nat, Place(t, i, j)', Place(t, i, j + Back(e, t, i)),
                            Ahead(i, j + Back(e, t, i), 0, 1)
                     PROVE  Ahead(i, j, 2, 0)
        BY DEF Keeps
      <3>2. q = o
        BY <1>2, <1>5, <3>1, ChainFacts
      <3>3. i # 0
        BY <1>13, <3>1 DEF Back
      <3>4. i # 1
        BY <1>19, <3>1, <3>2
      <3>5. i # 2
        <4>1. OnReq(t)' => t = x
          BY <1>1, <2>1 DEF OnReq
        <4>. QED
          BY <4>1, <3>1 DEF Place
      <3>. QED
        BY <3>1, <3>3, <3>4, <3>5 DEF Ahead
    <2>4. Once' /\ InLine'
      <3>1. 2 > 0 /\ 2 \in Nat
        OBVIOUS
      <3>. QED
        BY <3>1, <1>2, <1>5, <1>9, <1>10, <2>2, <2>3, Advance
    <2>5. Carriers'
      <3>1. epc' = "flush" => \E y : y = ereq' /\ Names(y)
        BY <1>4, <2>1
      <3>2. \A t, l : OnExq(t, l)' \/ OnJob(t, l)' => Heads(t)
        BY <1>2, <1>15 DEF Carriers
      <3>3. \A t, l, i : OnList(t, l, i)' => \E p : p = rec'[l].tag /\ Follows(t, p)
        BY <1>2, <1>15 DEF Carriers
      <3>4. \A t, i : OnMnt(t, i)' => Used(t)
        BY <1>2, <2>1 DEF Carriers, OnMnt
      <3>. QED
        BY <3>1, <3>2, <3>3, <3>4, <1>2, <1>4, <1>9, CarriersKeep
    <2>. QED
      BY <2>4, <2>5, <1>15, <1>16 DEF Tagged
  <1>22. CASE found # <<>>
    <2>1. Exreply(Rflush(m)) /\ UNCHANGED <<epc, ereq>>
      BY <1>3, <1>22
    <2>2. PICK b \in Nat : /\ \A t, i : OnMnt(t, i)' => OnMnt(t, i) \/ (t = x /\ i = b)
                           /\ \A t, i : OnMnt(t, i) => i \in Nat /\ i < b
      BY <1>2, <1>5, <1>7, <2>1, Replied
    <2>3. \A t : ~OnReq(t)'
      BY <1>12, <2>1 DEF OnReq
    <2>4. Place(o, 1, 0)
      BY <1>15, <1>22 DEF Place
    <2>5. Moved(x, 0, 4, b, e)
      <3>1. \A t, i : OnMnt(t, i)' => OnMnt(t, i + e.mnt) \/ (t = x /\ b = i)
        <4>1. \A t, i : OnMnt(t, i) => i + e.mnt = i
          BY <1>10, <2>2
        <4>. QED
          BY <4>1, <2>2
      <3>. QED
        BY <3>1, <2>3, <1>11, <1>12, <1>15, <1>20 DEF Moved
    <2>6. Keeps(x, 0, 1, 4, b, e)
      <3>1. SUFFICES ASSUME NEW t, NEW q, Precedes(t, x), t \in Tags, t # x, Follows(x, q), t = q \/ Follows(t, q),
                            NEW i, NEW j, i \in 0..5, j \in Nat, Place(t, i, j)', Place(t, i, j + Back(e, t, i)),
                            Ahead(i, j + Back(e, t, i), 0, 1)
                     PROVE  Ahead(i, j, 4, b)
        BY DEF Keeps
      <3>2. q = o
        BY <1>2, <1>5, <3>1, ChainFacts
      <3>3. i # 0
        BY <1>13, <3>1 DEF Back
      <3>4. i # 1
        BY <1>19, <3>1, <3>2
      <3>5. i # 2
        BY <2>3, <3>1 DEF Place
      <3>6. i # 3
        <4>1. CASE t = o
          BY <4>1, <3>1, <2>4, <1>2 DEF Once
        <4>2. CASE Follows(t, o)
          <5>1. Precedes(o, t)
            BY <1>2, <4>2, ChainFacts
          <5>2. Ahead(1, 0, i, j + Back(e, t, i))
            BY <5>1, <3>1, <2>4, <1>2 DEF InLine
          <5>. QED
            BY <5>2 DEF Ahead
        <4>. QED
          BY <3>1, <3>2, <4>1, <4>2
      <3>7. i = 4 => j < b
        <4>1. i = 4 => OnMnt(t, j)'
          BY <3>1 DEF Place
        <4>. QED
          BY <4>1, <3>1, <2>2
      <3>8. i \in 0..5 /\ j \in Nat
        BY <3>1
      <3>. QED
        BY <3>3, <3>4, <3>5, <3>6, <3>7, <3>8 DEF Ahead
    <2>7. Once' /\ InLine'
      <3>1. 4 > 0 /\ 4 \in Nat
        OBVIOUS
      <3>. QED
        BY <3>1, <1>2, <1>5, <1>9, <1>10, <2>5, <2>6, Advance
    <2>8. Carriers'
      <3>1. epc' # "flush"
        BY <1>3, <2>1
      <3>2. \A t, l : OnExq(t, l)' \/ OnJob(t, l)' => Heads(t)
        BY <1>2, <1>15 DEF Carriers
      <3>3. \A t, l, i : OnList(t, l, i)' => \E p : p = rec'[l].tag /\ Follows(t, p)
        BY <1>2, <1>15 DEF Carriers
      <3>4. \A t, i : OnMnt(t, i)' => Used(t)
        BY <1>2, <1>5, <2>2 DEF Carriers, Used
      <3>. QED
        BY <3>1, <3>2, <3>3, <3>4, <1>2, <1>4, <1>9, CarriersKeep
    <2>. QED
      BY <2>7, <2>8, <1>15, <1>16 DEF Tagged
  <1>. QED
    BY <1>21, <1>22

\* Of two elements of a queue one is before the other.
LEMMA BeforeOnce ==
  ASSUME NEW S, NEW s \in Seq(S), Distinct(s), NEW x, NEW y, Before(x, y, s), Before(y, x, s)
  PROVE  FALSE
  <1>1. PICK i, j \in 1..Len(s) : i < j /\ s[i] = x /\ s[j] = y
    BY DEF Before
  <1>2. PICK p, q \in 1..Len(s) : p < q /\ s[p] = y /\ s[q] = x
    BY DEF Before
  <1>3. i = q /\ j = p
    BY <1>1, <1>2 DEF Distinct
  <1>. QED
    BY <1>1, <1>2, <1>3

\* A flush goes on the list of its request, or is answered.
LEMMA FlushStartedTags ==
  ASSUME Sound, FlushStarted, UNCHANGED mvars
  PROVE  Tagged'
  <1>1. PICK m, x, o : m = ereq /\ x = m.tag /\ o = m.oldtag
    OBVIOUS
  <1>2. ServerTypes /\ CallInv /\ SlaveInv /\ RecInv /\ MountTypes /\ TagInv /\ Once /\ OneExq /\ Carriers /\ InLine /\ LiveFirst /\ ~hung
    BY DEF Sound, Sides, ServerInv, MountInv, Tagged
  <1>. DEFINE found == WithTag(work, o)
              pending == found # <<>> /\ ~rec[Head(found)].finished
  <1>3. /\ epc = "flush" /\ epc' = "recv"
        /\ UNCHANGED <<exq, tail, lost, exql, work, spc, job, performed, done, toSrv, hung>>
        /\ pending => rec' = [rec EXCEPT ![Head(found)].flush = Append(@, m)] /\ UNCHANGED toMnt
        /\ ~pending => Exreply(Rflush(m)) /\ UNCHANGED rec
    BY <1>1 DEF FlushStarted, EStep
  <1>4. /\ m \in TMessages /\ m.type = "Tflush" /\ Names(m) /\ OnReq(x)
    BY <1>1, <1>2, <1>3 DEF ServerTypes, Carriers, OnReq
  <1>5. x \in Tags /\ Follows(x, o) /\ Place(x, 2, 0) /\ Rflush(m) \in RMessages /\ Rflush(m).tag = x /\ \A y : ~Follows(o, y)
    <2>1. x \in Tags /\ Follows(x, o) /\ Rflush(m) \in RMessages /\ Rflush(m).tag = x
      BY <1>1, <1>4, RflushIs
    <2>2. Heads(o)
      BY <2>1, <1>2, ChainFacts
    <2>3. \A y : ~Follows(o, y)
      BY <2>2, <1>2, ChainFacts
    <2>. QED
      BY <2>1, <2>3, <1>4 DEF Place
  <1>6. \A l : \A C : SomeAt(l, C)' <=> SomeAt(l, C)
    BY <1>3 DEF SomeAt, At
  <1>7. /\ rec \in [Calls -> ExqRecs] /\ work \in Seq(Calls) /\ Distinct(work)
        /\ toMnt \in Seq(RMessages)
    BY <1>2 DEF ServerTypes, RecInv
  <1>8. /\ found \in Seq(Calls) /\ \A l : In(l, found) <=> In(l, work) /\ rec[l].tag = o
        /\ found # <<>> => /\ Head(found) \in Calls /\ In(Head(found), work) /\ rec[Head(found)].tag = o
                           /\ \A l : In(l, work) /\ rec[l].tag = o /\ l # Head(found) => Before(Head(found), l, work)
    <2>. DEFINE D == {k \in Calls : rec[k].tag # o}
    <2>1. \A l : In(l, work) => l \in Calls
      BY <1>7, InSet
    <2>2. found = Without(work, D)
      BY DEF WithTag
    <2>3. found \in Seq(Calls) /\ \A l : In(l, found) <=> l \notin D /\ In(l, work)
      BY <1>7, <2>2, WithoutIn
    <2>4. found # <<>> => /\ Head(found) \in Calls /\ In(Head(found), work) /\ Head(found) \notin D
                          /\ \A l : In(l, work) /\ l \notin D /\ l # Head(found) => Before(Head(found), l, work)
      <3>. HIDE DEF D, found
      <3>. QED
        BY <1>7, <2>2, WithoutHead
    <2>. HIDE DEF found
    <2>. QED
      BY <2>1, <2>3, <2>4
  <1>. HIDE DEF found
  <1>9. UNCHANGED chain /\ UNCHANGED reply
    BY DEF mvars
  <1>. DEFINE e == [srv |-> 0, mnt |-> 0, list |-> {}]
  <1>10. e \in Shifts /\ e.srv = 0 /\ e.mnt = 0 /\ e.list = {} /\ Split(x, e)
    BY NoSplit DEF Shifts
  <1>. HIDE DEF e
  <1>11. \A l : l \in Calls /\ Live(l) /\ rec[l].tag = o => pending /\ l = Head(found)
    <2>1. SUFFICES ASSUME NEW l, l \in Calls, Live(l), rec[l].tag = o PROVE pending /\ l = Head(found)
      OBVIOUS
    <2>2. In(l, work) /\ ~rec[l].finished
      <3>1. In(l, work)
        BY <2>1, LiveFacts
      <3>2. ~rec[l].finished
        <4>1. CASE rec[l].flush # <<>>
          BY <4>1, <1>2, <2>1 DEF RecInv
        <4>2. CASE SomeAt(l, Busy)
          <5>1. OnJob(o, l)
            BY <4>2, <2>1 DEF OnJob
          <5>. QED
            BY <5>1, LiveFacts
        <4>. QED
          BY <2>1, <4>1, <4>2 DEF Live
      <3>. QED
        BY <3>1, <3>2
    <2>3. found # <<>>
      BY <2>1, <2>2, <1>8, EmptyIn
    <2>4. l = Head(found)
      <3>1. SUFFICES ASSUME l # Head(found) PROVE FALSE
        OBVIOUS
      <3>2. Before(Head(found), l, work)
        BY <2>1, <2>2, <2>3, <3>1, <1>8
      <3>3. Before(l, Head(found), work)
        BY <2>1, <2>2, <2>3, <3>1, <1>2, <1>8 DEF LiveFirst
      <3>. QED
        BY <1>7, <3>2, <3>3, BeforeOnce
    <2>. QED
      BY <2>2, <2>3, <2>4
  <1>12. \A t, l, i : (t = o \/ Follows(t, o)) /\ OnList(t, l, i) => pending /\ l = Head(found)
    <2>1. SUFFICES ASSUME NEW t, NEW l, NEW i, t = o \/ Follows(t, o), OnList(t, l, i) PROVE pending /\ l = Head(found)
      OBVIOUS
    <2>2. l \in Calls /\ Live(l) /\ Follows(t, rec[l].tag)
      BY <2>1, LiveFacts
    <2>3. rec[l].tag = o
      BY <2>1, <2>2, <1>2, <1>5, ChainFacts
    <2>. QED
      BY <1>11, <2>2, <2>3
  <1>13. \A t, l : (t = o \/ Follows(t, o)) /\ OnJob(t, l) => pending
    <2>1. SUFFICES ASSUME NEW t, NEW l, t = o \/ Follows(t, o), OnJob(t, l) PROVE pending
      OBVIOUS
    <2>2. l \in Calls /\ Live(l) /\ rec[l].tag = t /\ Heads(t)
      BY <2>1, LiveFacts
    <2>3. t = o
      BY <2>1, <2>2, <1>2, ChainFacts
    <2>. QED
      BY <1>11, <2>2, <2>3
  <1>14. /\ \A t, i : OnSrv(t, i)' => OnSrv(t, i + e.srv)
         /\ \A t : ~OnReq(t)' /\ (Done(t)' => Done(t)) /\ t \notin e.list
    <2>1. \A t, i : OnSrv(t, i) => i + 0 = i
      BY DEF OnSrv
    <2>. QED
      BY <2>1, <1>3, <1>9, <1>10 DEF OnSrv, OnReq, Done
  <1>15. \A i \in 1..Len(toSrv') : \E j \in 1..Len(toSrv) : toSrv'[i] = toSrv[j]
    BY <1>3
  <1>16. \A t, i, j : Place(t, i, j)' /\ i \in 0..5 /\ Ahead(i, j + Back(e, t, i), 2, 0) /\ j \in Nat => i > 2
    <2>1. SUFFICES ASSUME NEW t, NEW j, Place(t, 2, j)' PROVE FALSE
      BY DEF Ahead
    <2>. QED
      BY <1>14, <2>1 DEF Place
  <1>17. CASE pending
    <2>1. PICK k : k = Head(found)
      OBVIOUS
    <2>2. k \in Calls /\ In(k, work) /\ rec[k].tag = o /\ rec' = [rec EXCEPT ![k].flush = Append(@, m)] /\ UNCHANGED toMnt
      BY <1>3, <1>8, <1>17, <2>1
    <2>3. PICK b : b = Len(rec[k].flush) + 1
      OBVIOUS
    <2>4. /\ b \in Nat \ {0} /\ Len(rec'[k].flush) = b /\ rec'[k].flush[b] = m
          /\ \A i \in 1..Len(rec[k].flush) : rec'[k].flush[i] = rec[k].flush[i]
          /\ \A i : i \in 1..b => i \in 1..Len(rec[k].flush) \/ i = b
          /\ \A i : i \in 1..Len(rec[k].flush) => i < b
          /\ rec'[k].tag = o /\ rec'[k].flush # <<>>
          /\ \A l \in Calls : l # k => rec'[l] = rec[l]
      <3>1. rec[k] \in ExqRecs /\ rec[k].flush \in Seq(TMessages) /\ Len(rec[k].flush) \in Nat
        BY <1>7, <2>2 DEF ExqRecs
      <3>2. rec'[k] = [rec[k] EXCEPT !.flush = Append(rec[k].flush, m)]
        BY <1>7, <2>2
      <3>3. rec'[k].flush = Append(rec[k].flush, m) /\ rec'[k].tag = o
        BY <2>2, <3>1, <3>2 DEF ExqRecs
      <3>4. /\ Append(rec[k].flush, m) \in Seq(TMessages) /\ Len(Append(rec[k].flush, m)) = Len(rec[k].flush) + 1
            /\ \A i \in 1..Len(rec[k].flush) : Append(rec[k].flush, m)[i] = rec[k].flush[i]
            /\ Append(rec[k].flush, m)[Len(rec[k].flush) + 1] = m
        BY <1>4, <3>1, AppendAt
      <3>5. rec'[k].flush # <<>>
        BY <3>1, <3>3, <3>4
      <3>6. \A l \in Calls : l # k => rec'[l] = rec[l]
        BY <1>7, <2>2
      <3>7. b \in Nat \ {0} /\ \A i : (i \in 1..b => i \in 1..Len(rec[k].flush) \/ i = b) /\ (i \in 1..Len(rec[k].flush) => i < b)
        BY <2>3, <3>1
      <3>. QED
        BY <2>3, <3>3, <3>4, <3>5, <3>6, <3>7
    <2>5. \A t, l, i : OnList(t, l, i)' => OnList(t, l, i) \/ (t = x /\ l = k /\ i = b)
      <3>1. SUFFICES ASSUME NEW t, NEW l, NEW i, OnList(t, l, i)' PROVE OnList(t, l, i) \/ (t = x /\ l = k /\ i = b)
        OBVIOUS
      <3>2. l \in Calls /\ i \in 1..Len(rec'[l].flush) /\ rec'[l].flush[i].tag = t
        BY <3>1 DEF OnList
      <3>3. CASE l # k
        BY <3>2, <3>3, <2>4 DEF OnList
      <3>4. CASE l = k
        BY <3>2, <3>4, <2>4, <1>1 DEF OnList
      <3>. QED
        BY <3>3, <3>4
    <2>6. (\A t, l : OnExq(t, l)' <=> OnExq(t, l)) /\ (\A t, l : OnJob(t, l)' <=> OnJob(t, l)) /\ (\A l \in Calls : rec'[l].tag = rec[l].tag)
      <3>1. \A l \in Calls : rec'[l].tag = rec[l].tag
        BY <2>2, <2>4
      <3>. QED
        BY <3>1, <1>3, <1>6 DEF OnExq, OnJob
    <2>7. \A t, i : OnMnt(t, i)' => OnMnt(t, i + e.mnt)
      <3>1. \A t, i : OnMnt(t, i) => i + 0 = i
        BY DEF OnMnt
      <3>. QED
        BY <3>1, <2>2, <1>10 DEF OnMnt
    <2>8. Moved(x, 2, 3, b, e)
      <3>1. \A l : ~OnJob(x, l)
        BY <1>2, <1>5 DEF Once, Place
      <3>2. \A t, l, i : OnList(t, l, i)' => OnList(t, l, IF t \in e.list THEN i + 1 ELSE i) \/ (t = x /\ b = i)
        BY <1>14, <2>5
      <3>3. \A t, l : OnJob(t, l)' => OnJob(t, l) /\ t \notin e.list
        BY <1>14, <2>6
      <3>. QED
        BY <3>2, <3>3, <1>14, <2>6, <2>7 DEF Moved
    <2>9. Keeps(x, 2, 0, 3, b, e)
      <3>1. SUFFICES ASSUME NEW t, NEW q, Precedes(t, x), t \in Tags, t # x, Follows(x, q), t = q \/ Follows(t, q),
                            NEW i, NEW j, i \in 0..5, j \in Nat, Place(t, i, j)', Place(t, i, j + Back(e, t, i)),
                            Ahead(i, j + Back(e, t, i), 2, 0)
                     PROVE  Ahead(i, j, 3, b)
        BY DEF Keeps
      <3>2. q = o
        BY <1>2, <1>5, <3>1, ChainFacts
      <3>3. i > 2
        BY <1>16, <3>1
      <3>4. i = 3 => j < b
        <4>1. SUFFICES ASSUME i = 3 PROVE j < b
          OBVIOUS
        <4>2. CASE j = 0
          BY <4>2, <2>4
        <4>3. CASE \E l : OnList(t, l, j)'
          <5>1. PICK l : OnList(t, l, j)'
            BY <4>3
          <5>2. OnList(t, l, j)
            BY <5>1, <2>5, <3>1
          <5>3. l = k
            BY <5>2, <1>12, <2>1, <3>1, <3>2
          <5>. QED
            BY <5>2, <5>3, <2>4 DEF OnList
        <4>. QED
          BY <3>1, <4>1, <4>2, <4>3 DEF Place
      <3>. QED
        BY <3>1, <3>3, <3>4 DEF Ahead
    <2>10. Once' /\ InLine'
      <3>. HIDE DEF pending
      <3>1. 3 > 2 /\ 3 \in Nat
        OBVIOUS
      <3>. QED
        BY <1>2, <1>5, <1>9, <1>10, <2>8, <2>9, <3>1, Advance
    <2>11. Carriers'
      <3>1. epc' # "flush"
        BY <1>3
      <3>2. \A t, l : OnExq(t, l)' \/ OnJob(t, l)' => Heads(t)
        BY <1>2, <2>6 DEF Carriers
      <3>3. \A t, l, i : OnList(t, l, i)' => \E p : p = rec'[l].tag /\ Follows(t, p)
        <4>1. \A t, l, i : OnList(t, l, i) => l \in Calls /\ Follows(t, rec[l].tag)
          BY <1>2 DEF Carriers, OnList
        <4>. QED
          BY <4>1, <1>5, <2>2, <2>5, <2>6
      <3>4. \A t, i : OnMnt(t, i)' => Used(t)
        BY <1>2, <2>2 DEF Carriers, OnMnt
      <3>. QED
        BY <3>1, <3>2, <3>3, <3>4, <1>2, <1>9, <1>15, CarriersKeep
    <2>12. OneExq'
      BY <1>2, <2>6 DEF OneExq
    <2>13. LiveFirst'
      <3>1. \A l \in Calls : Live(l)' => Live(l) \/ l = k
        BY <1>6, <2>4 DEF Live
      <3>2. \A l : In(l, work) /\ rec[l].tag = o /\ l # k => Before(k, l, work)
        BY <1>8, <1>17, <2>1
      <3>. QED
        BY <3>1, <3>2, <1>2, <1>3, <2>2, <2>6 DEF LiveFirst
    <2>. QED
      BY <2>10, <2>11, <2>12, <2>13 DEF Tagged
  <1>18. CASE ~pending
    <2>1. Exreply(Rflush(m)) /\ UNCHANGED rec
      BY <1>3, <1>18
    <2>2. PICK b \in Nat : /\ \A t, i : OnMnt(t, i)' => OnMnt(t, i) \/ (t = x /\ i = b)
                           /\ \A t, i : OnMnt(t, i) => i \in Nat /\ i < b
      BY <1>2, <1>5, <1>7, <2>1, Replied
    <2>3. /\ \A t, l : OnExq(t, l)' <=> OnExq(t, l)
          /\ \A t, l : OnJob(t, l)' <=> OnJob(t, l)
          /\ \A t, l, i : OnList(t, l, i)' <=> OnList(t, l, i)
      BY <2>1, <1>3, <1>6 DEF OnExq, OnJob, OnList
    <2>4. Moved(x, 2, 4, b, e)
      <3>1. \A t, i : OnMnt(t, i)' => OnMnt(t, i + e.mnt) \/ (t = x /\ b = i)
        <4>1. \A t, i : OnMnt(t, i) => i + e.mnt = i
          BY <1>10, <2>2
        <4>. QED
          BY <4>1, <2>2
      <3>2. \A t, l, i : OnList(t, l, i)' => OnList(t, l, IF t \in e.list THEN i + 1 ELSE i)
        BY <1>14, <2>3
      <3>3. \A t, l : OnJob(t, l)' => OnJob(t, l) /\ t \notin e.list
        BY <1>14, <2>3
      <3>. QED
        BY <3>1, <3>2, <3>3, <1>14, <2>3 DEF Moved
    <2>5. Keeps(x, 2, 0, 4, b, e)
      <3>1. SUFFICES ASSUME NEW t, NEW q, Precedes(t, x), t \in Tags, t # x, Follows(x, q), t = q \/ Follows(t, q),
                            NEW i, NEW j, i \in 0..5, j \in Nat, Place(t, i, j)', Place(t, i, j + Back(e, t, i)),
                            Ahead(i, j + Back(e, t, i), 2, 0)
                     PROVE  Ahead(i, j, 4, b)
        BY DEF Keeps
      <3>2. q = o
        BY <1>2, <1>5, <3>1, ChainFacts
      <3>3. i > 2
        BY <1>16, <3>1
      <3>4. i # 3
        <4>1. SUFFICES ASSUME i = 3 PROVE FALSE
          OBVIOUS
        <4>2. (\E l : OnJob(t, l)') \/ \E l : OnList(t, l, j)'
          BY <3>1, <4>1 DEF Place
        <4>3. (\E l : OnJob(t, l)) \/ \E l : OnList(t, l, j)
          BY <4>2, <2>3
        <4>. QED
          BY <4>3, <1>12, <1>13, <1>18, <3>1, <3>2
      <3>5. i = 4 => j < b
        <4>1. i = 4 => OnMnt(t, j)'
          BY <3>1 DEF Place
        <4>. QED
          BY <4>1, <3>1, <2>2
      <3>. QED
        BY <3>1, <3>3, <3>4, <3>5 DEF Ahead
    <2>6. Once' /\ InLine'
      <3>. HIDE DEF pending
      <3>1. 4 > 2 /\ 4 \in Nat
        OBVIOUS
      <3>. QED
        BY <3>1, <1>2, <1>5, <1>9, <1>10, <2>4, <2>5, Advance
    <2>7. Carriers'
      <3>1. epc' # "flush"
        BY <1>3
      <3>2. \A t, l : OnExq(t, l)' \/ OnJob(t, l)' => Heads(t)
        BY <1>2, <2>3 DEF Carriers
      <3>3. \A t, l, i : OnList(t, l, i)' => \E p : p = rec'[l].tag /\ Follows(t, p)
        BY <1>2, <2>1, <2>3 DEF Carriers
      <3>4. \A t, i : OnMnt(t, i)' => Used(t)
        BY <1>2, <1>5, <2>2 DEF Carriers, Used
      <3>. QED
        BY <3>1, <3>2, <3>3, <3>4, <1>2, <1>9, <1>15, CarriersKeep
    <2>8. OneExq'
      BY <1>2, <2>3 DEF OneExq
    <2>9. LiveFirst'
      BY <1>2, <1>3, <1>6, <2>1 DEF LiveFirst, Live
    <2>. QED
      BY <2>6, <2>7, <2>8, <2>9 DEF Tagged
  <1>. QED
    BY <1>17, <1>18

\* Nothing goes from its place, though something may vanish.
LEMMA StillTags ==
  ASSUME MountTypes, TagInv, Once, OneExq, Carriers, InLine, UNCHANGED <<chain, toSrv, epc, ereq>>,
         \A t : Done(t)' => Done(t), \A t, i : OnMnt(t, i)' => OnMnt(t, i),
         \A t, k : (OnExq(t, k)' => OnExq(t, k)) /\ (OnJob(t, k)' => OnJob(t, k)),
         \A t, k, i : OnList(t, k, i)' => OnList(t, k, i) /\ rec'[k].tag = rec[k].tag
  PROVE  Once' /\ OneExq' /\ Carriers' /\ InLine'
  <1>1. \A t, m, a : Place(t, m, a)' => Place(t, m, a)
    <2>1. (\A t, i : OnSrv(t, i)' <=> OnSrv(t, i)) /\ (\A t : OnReq(t)' <=> OnReq(t))
      BY DEF OnSrv, OnReq
    <2>. QED
      BY <2>1 DEF Place
  <1>2. Once'
    BY <1>1 DEF Once
  <1>3. InLine'
    BY <1>1, SameChains DEF InLine, Ahead
  <1>4. OneExq'
    BY DEF OneExq
  <1>5. Carriers'
    <2>1. \A i \in 1..Len(toSrv') : \E j \in 1..Len(toSrv) : toSrv'[i] = toSrv[j]
      OBVIOUS
    <2>2. epc' = "flush" => \E y : y = ereq' /\ Names(y)
      BY DEF Carriers
    <2>3. \A t, k : OnExq(t, k)' \/ OnJob(t, k)' => Heads(t)
      BY DEF Carriers
    <2>4. \A t, k, i : OnList(t, k, i)' => \E o : o = rec'[k].tag /\ Follows(t, o)
      BY DEF Carriers
    <2>5. \A t, i : OnMnt(t, i)' => Used(t)
      BY DEF Carriers
    <2>. QED
      BY <2>1, <2>2, <2>3, <2>4, <2>5, CarriersKeep
  <1>. QED
    BY <1>2, <1>3, <1>4, <1>5

\* Where the request of a slave was and is.
LEMMA SlaveAt ==
  ASSUME ServerTypes, CallInv, SlaveInv, NEW s \in Slaves, NEW a, NEW b, a # "wait", Moves(s, a, b),
         job' = job, NEW k, k = job[s]
  PROVE  /\ k \in Calls /\ ~In(k, exq)
         /\ \A C : (SomeAt(k, C) <=> a \in C) /\ (SomeAt(k, C)' <=> b \in C)
         /\ \A l : l # k => (\A C : SomeAt(l, C)' <=> SomeAt(l, C))
  <1>1. spc[s] = a /\ spc'[s] = b /\ \A r \in Slaves : r # s => spc'[r] = spc[r]
    BY DEF Moves
  <1>2. /\ k \in Calls /\ ~In(k, exq) /\ \A r \in Slaves : job[r] = k => r = s
    BY <1>1, OneSlave
  <1>3. ASSUME NEW C PROVE (SomeAt(k, C) <=> a \in C) /\ (SomeAt(k, C)' <=> b \in C)
    BY <1>1, <1>2 DEF SomeAt, At
  <1>4. ASSUME NEW l, NEW C, l # k PROVE SomeAt(l, C)' <=> SomeAt(l, C)
    BY <1>1, <1>4 DEF SomeAt, At
  <1>. QED
    BY <1>2, <1>3, <1>4

\* A slave takes a request.
LEMMA TakeTags ==
  ASSUME Sound, NEW s \in Slaves, Take(s), UNCHANGED mvars
  PROVE  Tagged'
  <1>1. ServerTypes /\ CallInv /\ SlaveInv /\ RecInv /\ MountTypes /\ TagInv /\ Once /\ OneExq /\ Carriers /\ InLine /\ LiveFirst /\ KillHitsItsRequest
    BY DEF Sound, Sides, ServerInv, MountInv, Tagged
  <1>2. UNCHANGED <<epc, ereq, tail, lost, fsl, work, rec, performed, done, toSrv, toMnt, hung>>
    BY DEF Take, wirevars
  <1>3. /\ exq # <<>> /\ Moves(s, "wait", "dispatch") /\ job' = [job EXCEPT ![s] = Head(exq)] /\ exq' = Tail(exq)
    <2>1. killed[s] => spc[s] # "wait"
      BY <1>1 DEF KillHitsItsRequest
    <2>. QED
      BY <2>1, <1>1, SlaveMoves DEF Take, SStep, Hold, SPC
  <1>4. /\ Head(exq) \in Calls /\ In(Head(exq), exq) /\ \A l : In(l, exq') => In(l, exq)
    BY <1>1, <1>3, TailIn DEF ServerTypes, CallInv
  <1>5. \A l : (SomeAt(l, {"dispatch"})' => SomeAt(l, {"dispatch"}) \/ l = Head(exq)) /\ (SomeAt(l, Busy)' => SomeAt(l, Busy))
    <2>1. \A r \in Slaves : r # s => job'[r] = job[r] /\ spc'[r] = spc[r]
      BY <1>1, <1>3 DEF ServerTypes, Moves
    <2>2. job'[s] = Head(exq) /\ spc'[s] = "dispatch"
      BY <1>1, <1>3 DEF ServerTypes, Moves
    <2>. QED
      BY <2>1, <2>2 DEF SomeAt, At, Busy
  <1>6. /\ \A t, l : (OnExq(t, l)' => OnExq(t, l)) /\ (OnJob(t, l)' => OnJob(t, l))
        /\ \A t, l, i : OnList(t, l, i)' => OnList(t, l, i) /\ rec'[l].tag = rec[l].tag
        /\ \A t, i : OnMnt(t, i)' => OnMnt(t, i)
        /\ \A t : Done(t)' => Done(t)
    BY <1>2, <1>4, <1>5 DEF OnExq, OnJob, OnList, OnMnt, Done, mvars
  <1>7. Once' /\ OneExq' /\ Carriers' /\ InLine'
    BY <1>1, <1>2, <1>6, StillTags DEF mvars
  <1>8. LiveFirst'
    BY <1>1, <1>2, <1>5 DEF LiveFirst, Live
  <1>. QED
    BY <1>7, <1>8 DEF Tagged

\* It puts it on the work list.
LEMMA DispatchTags ==
  ASSUME Sound, NEW s \in Slaves, Dispatch(s), UNCHANGED mvars
  PROVE  Tagged'
  <1>0. PICK k, x : k = job[s] /\ x = rec[k].tag
    OBVIOUS
  <1>1. ServerTypes /\ CallInv /\ SlaveInv /\ RecInv /\ MountTypes /\ TagInv /\ Once /\ OneExq /\ Carriers /\ InLine /\ LiveFirst
    BY DEF Sound, Sides, ServerInv, MountInv, Tagged
  <1>2. /\ UNCHANGED <<epc, ereq, exq, tail, lost, fsl, job, performed, done, toSrv, toMnt, hung>>
        /\ Moves(s, "dispatch", "fcall")
        /\ rec' = [rec EXCEPT ![k].slave = s, ![k].busy = TRUE] /\ work' = <<k>> \o work
    BY <1>1, SlaveMoves, <1>0 DEF Dispatch, wirevars, SPC
  <1>3. /\ k \in Calls /\ ~In(k, exq)
        /\ \A C : (SomeAt(k, C) <=> "dispatch" \in C) /\ (SomeAt(k, C)' <=> "fcall" \in C)
        /\ \A l : l # k => (\A C : SomeAt(l, C)' <=> SomeAt(l, C))
    BY <1>0, <1>1, <1>2, SlaveAt
  <1>4. rec \in [Calls -> ExqRecs] /\ work \in Seq(Calls)
    BY <1>1 DEF ServerTypes
  <1>5. \A l \in Calls : rec'[l].tag = rec[l].tag /\ rec'[l].flush = rec[l].flush
    <2>1. PICK q : q = [rec[k] EXCEPT !.slave = s, !.busy = TRUE]
      OBVIOUS
    <2>2. rec[k] \in ExqRecs
      BY <1>3, <1>4
    <2>3. q.tag = rec[k].tag /\ q.flush = rec[k].flush
      BY <2>1, <2>2 DEF ExqRecs
    <2>4. rec' = [rec EXCEPT ![k] = q]
      BY <1>2, <1>3, <1>4, <2>1, <2>2 DEF ExqRecs
    <2>. QED
      BY <2>3, <2>4, <1>3, <1>4
  <1>6. OnExq(x, k) /\ Place(x, 1, 0) /\ Heads(x) /\ x \in Tags
    <2>1. OnExq(x, k)
      BY <1>0, <1>3 DEF OnExq
    <2>2. Heads(x)
      BY <1>1, <2>1 DEF Carriers
    <2>. QED
      BY <1>1, <2>1, <2>2, ChainFacts DEF Place, Used
  <1>7. \A t, l : OnExq(t, l)' => OnExq(t, l) /\ t # x
    <2>1. \A t, l : OnExq(t, l)' => OnExq(t, l) /\ l # k
      BY <1>2, <1>3, <1>5 DEF OnExq
    <2>. QED
      BY <2>1, <1>1, <1>6 DEF OneExq
  <1>8. \A t, l : OnJob(t, l)' => OnJob(t, l) \/ t = x
    BY <1>0, <1>3, <1>5 DEF OnJob
  <1>9. \A t, l, i : OnList(t, l, i)' => OnList(t, l, i)
    BY <1>5 DEF OnList
  <1>. DEFINE e == [srv |-> 0, mnt |-> 0, list |-> {}]
  <1>10. e \in Shifts /\ e.srv = 0 /\ e.mnt = 0 /\ e.list = {} /\ Split(x, e)
    BY NoSplit DEF Shifts
  <1>. HIDE DEF e
  <1>11. Moved(x, 1, 3, 0, e)
    <2>1. (\A t, i : OnSrv(t, i) => i + 0 = i) /\ (\A t, i : OnMnt(t, i) => i + 0 = i)
      BY DEF OnSrv, OnMnt
    <2>2. (\A t, i : OnSrv(t, i)' => OnSrv(t, i + e.srv)) /\ (\A t, i : OnMnt(t, i)' => OnMnt(t, i + e.mnt))
      BY <2>1, <1>2, <1>10 DEF OnSrv, OnMnt
    <2>3. /\ \A t : (OnReq(t)' => OnReq(t)) /\ (Done(t)' => Done(t)) /\ t \notin e.list
      BY <1>2, <1>10 DEF OnReq, Done, mvars
    <2>4. \A t, l, i : OnList(t, l, i)' => OnList(t, l, IF t \in e.list THEN i + 1 ELSE i)
      BY <2>3, <1>9
    <2>. QED
      BY <2>2, <2>3, <2>4, <1>7, <1>8 DEF Moved
  <1>12. Keeps(x, 1, 0, 3, 0, e)
    BY <1>1, <1>6, ChainFacts DEF Keeps
  <1>13. Once' /\ InLine'
    <2>1. 3 > 1 /\ 3 \in Nat /\ UNCHANGED chain
      BY DEF mvars
    <2>. QED
      BY <2>1, <1>1, <1>6, <1>10, <1>11, <1>12, Advance
  <1>14. OneExq'
    BY <1>1, <1>7 DEF OneExq
  <1>15. Carriers'
    <2>1. \A i \in 1..Len(toSrv') : \E j \in 1..Len(toSrv) : toSrv'[i] = toSrv[j]
      BY <1>2
    <2>2. epc' = "flush" => \E y : y = ereq' /\ Names(y)
      BY <1>1, <1>2 DEF Carriers
    <2>3. \A t, l : OnExq(t, l)' \/ OnJob(t, l)' => Heads(t)
      BY <1>1, <1>6, <1>7, <1>8 DEF Carriers
    <2>4. \A t, l, i : OnList(t, l, i)' => \E o : o = rec'[l].tag /\ Follows(t, o)
      <3>1. \A t, l, i : OnList(t, l, i) => l \in Calls
        BY DEF OnList
      <3>. QED
        BY <3>1, <1>1, <1>5, <1>9 DEF Carriers
    <2>5. \A t, i : OnMnt(t, i)' => Used(t)
      BY <1>1, <1>2 DEF Carriers, OnMnt
    <2>6. UNCHANGED chain
      BY DEF mvars
    <2>. QED
      BY <2>1, <2>2, <2>3, <2>4, <2>5, <2>6, <1>1, CarriersKeep
  <1>16. LiveFirst'
    <2>1. \A l \in Calls : Live(l)' => Live(l) \/ l = k
      BY <1>3, <1>5 DEF Live
    <2>2. \A a, b : Before(a, b, work) \/ (a = k /\ In(b, work)) => Before(a, b, work')
      <3>1. \A a, b : Before(a, b, work) \/ (a = k /\ In(b, work)) => Before(a, b, <<k>> \o work)
        BY <1>3, <1>4, ConsBefore
      <3>. QED
        BY <3>1, <1>2
    <2>3. \A l : In(l, work') <=> l = k \/ In(l, work)
      <3>1. \A l : In(l, <<k>> \o work) <=> l = k \/ In(l, work)
        BY <1>3, <1>4, ConsIn
      <3>. QED
        BY <3>1, <1>2
    <2>4. ASSUME NEW l \in Calls, Live(l), rec[l].tag = x PROVE FALSE
      <3>1. CASE SomeAt(l, Busy)
        <4>1. Place(x, 3, 0)
          BY <2>4, <3>1 DEF Place, OnJob
        <4>. QED
          BY <4>1, <1>1, <1>6 DEF Once
      <3>2. CASE rec[l].flush # <<>>
        <4>1. 1 \in 1..Len(rec[l].flush)
          <5>1. rec[l].flush \in Seq(TMessages)
            BY <1>4 DEF ExqRecs
          <5>. QED
            BY <5>1, <3>2
        <4>2. PICK y : OnList(y, l, 1)
          BY <4>1 DEF OnList
        <4>3. Follows(y, x) /\ Place(y, 3, 1)
          BY <4>2, <2>4, <1>1 DEF Carriers, Place
        <4>4. Precedes(x, y)
          BY <4>3, <1>1, ChainFacts
        <4>5. Ahead(1, 0, 3, 1)
          BY <4>3, <4>4, <1>1, <1>6 DEF InLine
        <4>. QED
          BY <4>5 DEF Ahead
      <3>. QED
        BY <2>4, <3>1, <3>2 DEF Live
    <2>5. SUFFICES ASSUME NEW a \in Calls, NEW b \in Calls, In(a, work'), In(b, work'), a # b, Live(a)', rec'[a].tag = rec'[b].tag
                   PROVE  Before(a, b, work')
      BY DEF LiveFirst, Before
    <2>6. rec[a].tag = rec[b].tag
      BY <2>5, <1>5
    <2>7. CASE a = k
      BY <2>2, <2>3, <2>5, <2>7
    <2>8. CASE a # k
      <3>1. Live(a) /\ In(a, work)
        BY <2>1, <2>3, <2>5, <2>8
      <3>2. b # k
        BY <3>1, <2>4, <2>6, <1>0
      <3>. QED
        BY <3>1, <3>2, <2>2, <2>3, <2>5, <2>6, <1>1 DEF LiveFirst
    <2>. QED
      BY <2>7, <2>8
  <1>. QED
    BY <1>13, <1>14, <1>15, <1>16 DEF Tagged

\* It does the request.
LEMMA FcallTags ==
  ASSUME Sound, NEW s \in Slaves, Fcall(s), UNCHANGED mvars
  PROVE  Tagged'
  <1>0. PICK k : k = job[s]
    OBVIOUS
  <1>1. ServerTypes /\ CallInv /\ SlaveInv /\ RecInv /\ MountTypes /\ TagInv /\ Once /\ OneExq /\ Carriers /\ InLine /\ LiveFirst
    BY DEF Sound, Sides, ServerInv, MountInv, Tagged
  <1>2. /\ UNCHANGED <<epc, ereq, exq, tail, lost, fsl, work, job, toSrv, toMnt, hung>>
        /\ Moves(s, "fcall", "complete")
        /\ rec' = rec \/ rec' = [rec EXCEPT ![k].err = TRUE]
    BY <1>0, <1>1, SlaveMoves DEF Fcall, wirevars, SPC
  <1>3. /\ k \in Calls /\ ~In(k, exq)
        /\ \A C : (SomeAt(k, C) <=> "fcall" \in C) /\ (SomeAt(k, C)' <=> "complete" \in C)
        /\ \A l : l # k => (\A C : SomeAt(l, C)' <=> SomeAt(l, C))
    BY <1>0, <1>1, <1>2, SlaveAt
  <1>4. \A l \in Calls : rec'[l].tag = rec[l].tag /\ rec'[l].flush = rec[l].flush
    <2>1. rec \in [Calls -> ExqRecs]
      BY <1>1 DEF ServerTypes
    <2>2. rec[k] \in ExqRecs
      BY <1>3, <2>1
    <2>. QED
      BY <1>2, <2>1, <2>2 DEF ExqRecs
  <1>5. \A l : SomeAt(l, Busy)' <=> SomeAt(l, Busy)
    BY <1>3 DEF Busy
  <1>6. /\ \A t, l : (OnExq(t, l)' => OnExq(t, l)) /\ (OnJob(t, l)' => OnJob(t, l))
        /\ \A t, l, i : OnList(t, l, i)' => OnList(t, l, i) /\ rec'[l].tag = rec[l].tag
        /\ \A t, i : OnMnt(t, i)' => OnMnt(t, i)
        /\ \A t : Done(t)' => Done(t)
    <2>1. \A l : SomeAt(l, {"dispatch"})' => SomeAt(l, {"dispatch"})
      BY <1>3
    <2>. QED
      BY <2>1, <1>2, <1>4, <1>5 DEF OnExq, OnJob, OnList, OnMnt, Done, mvars
  <1>7. Once' /\ OneExq' /\ Carriers' /\ InLine'
    BY <1>1, <1>2, <1>6, StillTags DEF mvars
  <1>8. LiveFirst'
    BY <1>1, <1>2, <1>4, <1>5 DEF LiveFirst, Live
  <1>. QED
    BY <1>7, <1>8 DEF Tagged

\* It replies, or does not for a flush.
LEMMA CompleteTags ==
  ASSUME Sound, NEW s \in Slaves, Complete(s), UNCHANGED mvars
  PROVE  Tagged'
  <1>0. PICK k, x : k = job[s] /\ x = rec[k].tag
    OBVIOUS
  <1>. DEFINE r == [type |-> IF rec[k].err THEN "Rerror" ELSE "R", tag |-> x, call |-> k]
  <1>1. ServerTypes /\ CallInv /\ SlaveInv /\ RecInv /\ MountTypes /\ TagInv /\ Once /\ OneExq /\ Carriers /\ InLine /\ LiveFirst /\ ~hung
    BY DEF Sound, Sides, ServerInv, MountInv, Tagged
  <1>2. /\ UNCHANGED <<epc, ereq, exq, tail, lost, fsl, work, job, toSrv, hung>>
        /\ Moves(s, "complete", "flushes")
        /\ rec' = [rec EXCEPT ![k].busy = FALSE]
        /\ Exreply(r) \/ toMnt' = toMnt
    BY <1>0, <1>1, SlaveMoves DEF Complete, wirevars, SPC
  <1>3. /\ k \in Calls /\ ~In(k, exq)
        /\ \A C : (SomeAt(k, C) <=> "complete" \in C) /\ (SomeAt(k, C)' <=> "flushes" \in C)
        /\ \A l : l # k => (\A C : SomeAt(l, C)' <=> SomeAt(l, C))
    BY <1>0, <1>1, <1>2, SlaveAt
  <1>4. rec \in [Calls -> ExqRecs] /\ rec[k] \in ExqRecs /\ toMnt \in Seq(RMessages)
    BY <1>1, <1>3 DEF ServerTypes
  <1>5. \A l \in Calls : rec'[l].tag = rec[l].tag /\ rec'[l].flush = rec[l].flush
    BY <1>2, <1>4 DEF ExqRecs
  <1>6. OnJob(x, k) /\ Place(x, 3, 0) /\ Heads(x) /\ x \in Tags /\ Live(k)
    <2>1. OnJob(x, k)
      BY <1>0, <1>3 DEF OnJob, Busy
    <2>. QED
      BY <1>1, <2>1, LiveFacts, ChainFacts DEF Place, Used
  <1>7. \A t, l : OnJob(t, l)' => OnJob(t, l) /\ t # x
    <2>1. \A t, l : OnJob(t, l)' => OnJob(t, l) /\ l # k
      BY <1>3, <1>5 DEF OnJob, Busy
    <2>2. \A l : OnJob(x, l) => l = k
      BY <1>0, <1>3, <1>6, LiveFacts
    <2>. QED
      BY <2>1, <2>2
  <1>8. \A t, l, i : OnList(t, l, i)' => OnList(t, l, i) /\ t # x /\ rec'[l].tag = rec[l].tag
    <2>1. \A t, l, i : OnList(t, l, i)' => OnList(t, l, i) /\ rec'[l].tag = rec[l].tag
      BY <1>5 DEF OnList
    <2>2. \A t, l, i : OnList(t, l, i) => t # x
      BY <1>1, <1>6, ChainFacts DEF Carriers
    <2>. QED
      BY <2>1, <2>2
  <1>9. \A t, l : OnExq(t, l)' => OnExq(t, l)
    <2>1. \A l : SomeAt(l, {"dispatch"})' => SomeAt(l, {"dispatch"})
      BY <1>3
    <2>. QED
      BY <2>1, <1>2, <1>5 DEF OnExq
  <1>10. LiveFirst'
    <2>1. \A l \in Calls : Live(l)' => Live(l)
      BY <1>3, <1>5 DEF Live, Busy
    <2>. QED
      BY <2>1, <1>1, <1>2, <1>5 DEF LiveFirst
  <1>11. UNCHANGED chain /\ \A t : Done(t)' => Done(t)
    BY DEF mvars, Done
  <1>12. CASE toMnt' = toMnt
    <2>1. \A t, i : OnMnt(t, i)' => OnMnt(t, i)
      BY <1>12 DEF OnMnt
    <2>2. Once' /\ OneExq' /\ Carriers' /\ InLine'
      BY <2>1, <1>1, <1>2, <1>7, <1>8, <1>9, <1>11, StillTags
    <2>. QED
      BY <2>2, <1>10 DEF Tagged
  <1>13. CASE Exreply(r)
    <2>1. r \in RMessages /\ r.tag = x
      BY <1>3, <1>6 DEF RMessages
    <2>. HIDE DEF r
    <2>2. PICK b \in Nat : /\ \A t, i : OnMnt(t, i)' => OnMnt(t, i) \/ (t = x /\ i = b)
                           /\ \A t, i : OnMnt(t, i) => i \in Nat /\ i < b
      BY <1>1, <1>4, <1>13, <2>1, Replied
    <2>. DEFINE e == [srv |-> 0, mnt |-> 0, list |-> {}]
    <2>3. e \in Shifts /\ e.srv = 0 /\ e.mnt = 0 /\ e.list = {} /\ Split(x, e)
      BY NoSplit DEF Shifts
    <2>. HIDE DEF e
    <2>4. Moved(x, 3, 4, b, e)
      <3>1. \A t, i : OnMnt(t, i)' => OnMnt(t, i + e.mnt) \/ (t = x /\ b = i)
        <4>1. \A t, i : OnMnt(t, i) => i + e.mnt = i
          BY <2>2, <2>3
        <4>. QED
          BY <4>1, <2>2
      <3>2. \A t, i : OnSrv(t, i)' => OnSrv(t, i + e.srv)
        <4>1. \A t, i : OnSrv(t, i) => i + 0 = i
          BY DEF OnSrv
        <4>. QED
          BY <4>1, <1>2, <2>3 DEF OnSrv
      <3>3. \A t : (OnReq(t)' => OnReq(t)) /\ t \notin e.list
        BY <1>2, <2>3 DEF OnReq
      <3>4. \A t, l, i : OnList(t, l, i)' => OnList(t, l, IF t \in e.list THEN i + 1 ELSE i) /\ t # x
        BY <3>3, <1>8
      <3>. QED
        BY <3>1, <3>2, <3>3, <3>4, <1>7, <1>9, <1>11 DEF Moved
    <2>5. Keeps(x, 3, 0, 4, b, e)
      BY <1>1, <1>6, ChainFacts DEF Keeps
    <2>6. Once' /\ InLine'
      <3>1. 4 > 3 /\ 4 \in Nat
        OBVIOUS
      <3>. QED
        BY <3>1, <1>1, <1>6, <1>11, <2>3, <2>4, <2>5, Advance
    <2>7. OneExq'
      BY <1>1, <1>9 DEF OneExq
    <2>8. Carriers'
      <3>1. \A i \in 1..Len(toSrv') : \E j \in 1..Len(toSrv) : toSrv'[i] = toSrv[j]
        BY <1>2
      <3>2. epc' = "flush" => \E y : y = ereq' /\ Names(y)
        BY <1>1, <1>2 DEF Carriers
      <3>3. \A t, l : OnExq(t, l)' \/ OnJob(t, l)' => Heads(t)
        BY <1>1, <1>7, <1>9 DEF Carriers
      <3>4. \A t, l, i : OnList(t, l, i)' => \E o : o = rec'[l].tag /\ Follows(t, o)
        BY <1>1, <1>8 DEF Carriers
      <3>5. \A t, i : OnMnt(t, i)' => Used(t)
        BY <1>1, <1>6, <2>2 DEF Carriers, Used
      <3>. QED
        BY <3>1, <3>2, <3>3, <3>4, <3>5, <1>1, <1>11, CarriersKeep
    <2>. QED
      BY <2>6, <2>7, <2>8, <1>10 DEF Tagged
  <1>. QED
    BY <1>2, <1>12, <1>13

\* It takes the request off the work list.
LEMMA FinishTags ==
  ASSUME Sound, NEW s \in Slaves, Finish(s), UNCHANGED mvars
  PROVE  Tagged'
  <1>0. PICK k : k = job[s]
    OBVIOUS
  <1>1. ServerTypes /\ CallInv /\ SlaveInv /\ RecInv /\ MountTypes /\ TagInv /\ Once /\ OneExq /\ Carriers /\ InLine /\ LiveFirst
    BY DEF Sound, Sides, ServerInv, MountInv, Tagged
  <1>2. /\ UNCHANGED <<epc, ereq, exq, tail, lost, fsl, toSrv, toMnt, hung>>
        /\ Moves(s, "remove", "wait") /\ job' = [job EXCEPT ![s] = NoCall]
        /\ rec' = [rec EXCEPT ![k] = BlankExq] /\ work' = Without(work, {k})
    BY <1>0, <1>1, SlaveMoves DEF Finish, wirevars, SPC
  <1>3. k \in Calls /\ ~In(k, exq) /\ \A r \in Slaves : job[r] = k => r = s
    BY <1>0, <1>1, <1>2, OneSlave DEF Moves
  <1>4. rec \in [Calls -> ExqRecs] /\ job \in [Slaves -> Calls \cup {NoCall}] /\ work \in Seq(Calls)
    BY <1>1 DEF ServerTypes
  <1>5. (\A l \in Calls : l # k => rec'[l] = rec[l]) /\ rec'[k].flush = <<>>
    BY <1>2, <1>3, <1>4 DEF BlankExq
  <1>6. \A l \in Calls : \A C : SomeAt(l, C)' => SomeAt(l, C) /\ l # k
    <2>1. \A r \in Slaves : r # s => job'[r] = job[r] /\ spc'[r] = spc[r] /\ job[r] # k
      BY <1>2, <1>3, <1>4 DEF Moves
    <2>2. job'[s] = NoCall
      BY <1>2, <1>4
    <2>. QED
      BY <2>1, <2>2, CallsAre DEF SomeAt, At
  <1>7. /\ \A t, l : (OnExq(t, l)' => OnExq(t, l)) /\ (OnJob(t, l)' => OnJob(t, l))
        /\ \A t, l, i : OnList(t, l, i)' => OnList(t, l, i) /\ rec'[l].tag = rec[l].tag
        /\ \A t, i : OnMnt(t, i)' => OnMnt(t, i)
        /\ \A t : Done(t)' => Done(t)
    <2>1. \A t, l : OnExq(t, l)' => OnExq(t, l)
      BY <1>2, <1>3, <1>5, <1>6 DEF OnExq
    <2>2. \A t, l : OnJob(t, l)' => OnJob(t, l)
      BY <1>5, <1>6 DEF OnJob
    <2>3. \A t, l, i : OnList(t, l, i)' => OnList(t, l, i) /\ rec'[l].tag = rec[l].tag
      <3>1. SUFFICES ASSUME NEW t, NEW l, NEW i, OnList(t, l, i)' PROVE OnList(t, l, i) /\ rec'[l].tag = rec[l].tag
        OBVIOUS
      <3>2. l \in Calls /\ l # k
        BY <3>1, <1>5 DEF OnList
      <3>. QED
        BY <3>1, <3>2, <1>5 DEF OnList
    <2>. QED
      BY <2>1, <2>2, <2>3, <1>2 DEF OnMnt, Done, mvars
  <1>8. Once' /\ OneExq' /\ Carriers' /\ InLine'
    BY <1>1, <1>2, <1>7, StillTags DEF mvars
  <1>9. LiveFirst'
    <2>1. \A l \in Calls : Live(l)' => Live(l) /\ l # k
      BY <1>5, <1>6 DEF Live
    <2>2. /\ \A l : In(l, work') <=> l # k /\ In(l, work)
          /\ \A a, b : Before(a, b, work') <=> a # k /\ b # k /\ Before(a, b, work)
      <3>1. /\ \A l : In(l, Without(work, {k})) <=> l \notin {k} /\ In(l, work)
            /\ \A a, b : Before(a, b, Without(work, {k})) <=> a \notin {k} /\ b \notin {k} /\ Before(a, b, work)
        BY <1>4, WithoutIn, WithoutBefore
      <3>. QED
        BY <3>1, <1>2
    <2>3. SUFFICES ASSUME NEW a \in Calls, NEW b \in Calls, In(a, work'), In(b, work'), a # b, Live(a)', rec'[a].tag = rec'[b].tag
                   PROVE  Before(a, b, work')
      BY DEF LiveFirst, Before
    <2>4. a # k /\ b # k /\ In(a, work) /\ In(b, work) /\ Live(a) /\ rec[a].tag = rec[b].tag
      BY <2>1, <2>2, <2>3, <1>5
    <2>5. Before(a, b, work)
      BY <2>3, <2>4, <1>1 DEF LiveFirst
    <2>. QED
      BY <2>2, <2>4, <2>5
  <1>. QED
    BY <1>8, <1>9 DEF Tagged

\* It answers the next flush, or promises that there will be no more.
LEMMA NextFlushTags ==
  ASSUME Sound, NEW s \in Slaves, NextFlush(s), UNCHANGED mvars
  PROVE  Tagged'
  <1>0. PICK k, o : k = job[s] /\ o = rec[k].tag
    OBVIOUS
  <1>. DEFINE more == rec[k].flush # <<>>
  <1>1. ServerTypes /\ CallInv /\ SlaveInv /\ RecInv /\ MountTypes /\ TagInv /\ Once /\ OneExq /\ Carriers /\ InLine /\ LiveFirst /\ ~hung
    BY DEF Sound, Sides, ServerInv, MountInv, Tagged
  <1>2. spc[s] = "flushes"
    BY DEF NextFlush, SStep
  <1>3. k \in Calls /\ ~rec[k].shut
    <2>1. k \in Calls
      BY <1>0, <1>1, <1>2, OneSlave
    <2>. QED
      BY <2>1, <1>1 DEF RecInv
  <1>4. /\ UNCHANGED <<epc, ereq, exq, tail, lost, fsl, work, job, toSrv, hung>>
        /\ more => /\ Moves(s, "flushes", "flushes") /\ rec' = [rec EXCEPT ![k].flush = Tail(@)]
                   /\ Exreply(Rflush(Head(rec[k].flush)))
        /\ ~more => Moves(s, "flushes", "remove") /\ rec' = [rec EXCEPT ![k].finished = TRUE] /\ toMnt' = toMnt
    BY <1>0, <1>1, <1>3, SlaveMoves DEF NextFlush, SPC
  <1>5. /\ ~In(k, exq) /\ ~SomeAt(k, Busy) /\ ~SomeAt(k, {"dispatch"})
        /\ \A l : (SomeAt(l, Busy)' => SomeAt(l, Busy)) /\ (SomeAt(l, {"dispatch"})' => SomeAt(l, {"dispatch"}))
    <2>1. PICK b : Moves(s, "flushes", b) /\ b \in {"flushes", "remove"}
      BY <1>4
    <2>2. /\ ~In(k, exq)
          /\ \A C : (SomeAt(k, C) <=> "flushes" \in C) /\ (SomeAt(k, C)' <=> b \in C)
          /\ \A l : l # k => (\A C : SomeAt(l, C)' <=> SomeAt(l, C))
      <3>. HIDE DEF more
      <3>1. job' = job /\ "flushes" # "wait"
        BY <1>4
      <3>. QED
        BY <1>0, <1>1, <2>1, <3>1, SlaveAt
    <2>. QED
      BY <2>1, <2>2 DEF Busy
  <1>6. rec \in [Calls -> ExqRecs] /\ rec[k] \in ExqRecs /\ rec[k].flush \in Seq(TMessages) /\ toMnt \in Seq(RMessages)
    BY <1>1, <1>3 DEF ServerTypes, ExqRecs
  <1>7. /\ \A l \in Calls : l # k => rec'[l] = rec[l]
        /\ rec'[k].tag = o
        /\ rec'[k].flush = IF more THEN Tail(rec[k].flush) ELSE rec[k].flush
    <2>1. CASE more
      <3>1. rec' = [rec EXCEPT ![k] = [rec[k] EXCEPT !.flush = Tail(rec[k].flush)]]
        BY <1>3, <1>4, <1>6, <2>1
      <3>. QED
        BY <1>0, <1>3, <1>6, <2>1, <3>1 DEF ExqRecs
    <2>2. CASE ~more
      BY <1>0, <1>3, <1>4, <1>6, <2>2 DEF ExqRecs
    <2>. QED
      BY <2>1, <2>2
  <1>8. /\ \A t, l : (OnExq(t, l)' => OnExq(t, l)) /\ (OnJob(t, l)' => OnJob(t, l))
        /\ UNCHANGED chain /\ \A t : Done(t)' => Done(t)
    BY <1>0, <1>4, <1>5, <1>7 DEF OnExq, OnJob, Done, mvars
  <1>9. LiveFirst'
    <2>1. \A l \in Calls : Live(l)' => Live(l)
      <3>1. \A l \in Calls : rec'[l].flush # <<>> => rec[l].flush # <<>>
        BY <1>7
      <3>. QED
        BY <3>1, <1>5 DEF Live
    <2>2. \A l \in Calls : rec'[l].tag = rec[l].tag
      BY <1>0, <1>7
    <2>. QED
      BY <2>1, <2>2, <1>1, <1>4 DEF LiveFirst
  <1>10. CASE ~more
    <2>1. \A t, l, i : OnList(t, l, i)' => OnList(t, l, i) /\ rec'[l].tag = rec[l].tag
      BY <1>0, <1>7, <1>10 DEF OnList
    <2>2. \A t, i : OnMnt(t, i)' => OnMnt(t, i)
      BY <1>4, <1>10 DEF OnMnt
    <2>3. Once' /\ OneExq' /\ Carriers' /\ InLine'
      BY <2>1, <2>2, <1>1, <1>4, <1>8, StillTags
    <2>. QED
      BY <2>3, <1>9 DEF Tagged
  <1>11. CASE more
    <2>1. PICK m, x : m = Head(rec[k].flush) /\ x = m.tag
      OBVIOUS
    <2>2. /\ m = rec[k].flush[1] /\ 1 \in 1..Len(rec[k].flush) /\ m \in TMessages
          /\ \A i : i \in 1..Len(rec'[k].flush) => /\ i + 1 \in 1..Len(rec[k].flush) /\ i \in Nat \ {0}
                                                   /\ rec'[k].flush[i] = rec[k].flush[i + 1]
      <3>1. rec'[k].flush = Tail(rec[k].flush)
        BY <1>7, <1>11
      <3>. QED
        BY <3>1, <1>6, <1>11, <2>1, TailAt
    <2>3. OnList(x, k, 1) /\ Place(x, 3, 1) /\ Live(k)
      <3>1. OnList(x, k, 1)
        BY <1>3, <2>1, <2>2 DEF OnList
      <3>. QED
        BY <3>1, <1>11 DEF Place, Live
    <2>4. Follows(x, o) /\ x \in Tags
      BY <2>3, <1>0, <1>1, ChainFacts DEF Carriers, Used
    <2>5. Rflush(m) \in RMessages /\ Rflush(m).tag = x
      BY <2>1, <2>2, <2>4 DEF Rflush, RMessages
    <2>6. PICK b \in Nat : /\ \A t, i : OnMnt(t, i)' => OnMnt(t, i) \/ (t = x /\ i = b)
                           /\ \A t, i : OnMnt(t, i) => i \in Nat /\ i < b
      <3>1. Exreply(Rflush(m))
        BY <1>4, <1>11, <2>1
      <3>. HIDE DEF more
      <3>. QED
        BY <1>1, <1>6, <2>5, <3>1, Replied
    <2>7. \A t, l, i : OnList(t, l, i) /\ Follows(t, o) => l = k
      <3>1. SUFFICES ASSUME NEW t, NEW l, NEW i, OnList(t, l, i), Follows(t, o) PROVE l = k
        OBVIOUS
      <3>2. l \in Calls /\ Live(l) /\ Follows(t, rec[l].tag)
        BY <3>1, LiveFacts
      <3>3. rec[l].tag = o
        BY <3>1, <3>2, <1>1, ChainFacts
      <3>. QED
        BY <3>2, <3>3, <1>0, <1>3, <2>3, LiveFacts
    <2>8. \A t, l : OnJob(t, l) => t # o /\ \A q : ~Follows(t, q)
      <3>1. SUFFICES ASSUME NEW t, NEW l, OnJob(t, l) PROVE t # o /\ \A q : ~Follows(t, q)
        OBVIOUS
      <3>2. l \in Calls /\ Live(l) /\ rec[l].tag = t /\ Heads(t) /\ SomeAt(l, Busy)
        BY <3>1, LiveFacts DEF OnJob
      <3>3. t # o
        BY <3>2, <1>0, <1>3, <1>5, <2>3, LiveFacts
      <3>. QED
        BY <3>2, <3>3, <1>1, ChainFacts
    <2>. DEFINE e == [srv |-> 0, mnt |-> 0, list |-> {t \in Tags : \E i : OnList(t, k, i)}]
    <2>9. e \in Shifts /\ e.srv = 0 /\ e.mnt = 0 /\ \A t : t \in e.list <=> t \in Tags /\ \E i : OnList(t, k, i)
      BY DEF Shifts
    <2>. HIDE DEF e
    <2>10. \A t, i : OnList(t, k, i) => Follows(t, o) /\ t \in Tags /\ t \in e.list
      <3>1. \A t, i : OnList(t, k, i) => Follows(t, o)
        BY <1>0, <1>1 DEF Carriers
      <3>2. \A t : Follows(t, o) => t \in Tags
        BY <1>1, ChainFacts
      <3>. QED
        BY <3>1, <3>2, <2>9
    <2>11. \A t : t \in e.list => Follows(t, o)
      BY <2>9, <2>10
    <2>12. \A t, l, i : OnList(t, l, i)' => OnList(t, l, IF t \in e.list THEN i + 1 ELSE i) /\ t # x
      <3>1. SUFFICES ASSUME NEW t, NEW l, NEW i, OnList(t, l, i)' PROVE OnList(t, l, IF t \in e.list THEN i + 1 ELSE i) /\ t # x
        OBVIOUS
      <3>2. CASE l = k
        <4>1. i + 1 \in 1..Len(rec[k].flush) /\ i \in Nat \ {0} /\ rec[k].flush[i + 1].tag = t
          BY <2>2, <3>1, <3>2 DEF OnList
        <4>2. OnList(t, k, i + 1)
          BY <4>1, <1>3 DEF OnList
        <4>3. t = x => i + 1 = 1
          BY <4>2, <1>1, <2>3, <2>4 DEF Once, Place
        <4>. QED
          BY <3>2, <4>1, <4>2, <4>3, <2>10
      <3>3. CASE l # k
        <4>1. OnList(t, l, i)
          BY <3>1, <3>3, <1>7 DEF OnList
        <4>. QED
          BY <4>1, <3>3, <2>4, <2>7, <2>11
      <3>. QED
        BY <3>2, <3>3
    <2>13. Moved(x, 3, 4, b, e)
      <3>1. \A t, i : OnMnt(t, i)' => OnMnt(t, i + e.mnt) \/ (t = x /\ b = i)
        <4>1. \A t, i : OnMnt(t, i) => i + e.mnt = i
          BY <2>6, <2>9
        <4>. QED
          BY <4>1, <2>6
      <3>2. \A t, i : OnSrv(t, i)' => OnSrv(t, i + e.srv)
        <4>1. \A t, i : OnSrv(t, i) => i + 0 = i
          BY DEF OnSrv
        <4>. QED
          BY <4>1, <1>4, <2>9 DEF OnSrv
      <3>3. \A t : OnReq(t)' => OnReq(t)
        BY <1>4 DEF OnReq
      <3>4. \A t, l : OnJob(t, l)' => OnJob(t, l) /\ t \notin e.list /\ t # x
        BY <1>8, <2>4, <2>8, <2>11
      <3>. QED
        BY <3>1, <3>2, <3>3, <3>4, <1>8, <2>12 DEF Moved
    <2>14. Split(x, e)
      <3>1. SUFFICES ASSUME NEW t, NEW u, t # x, u # x, Precedes(t, u), NEW i, NEW j, Place(t, 3, i), Place(u, 3, j)
                     PROVE  t \in e.list <=> u \in e.list
        BY DEF Split
      <3>2. PICK q : Follows(u, q) /\ (t = q \/ Follows(t, q))
        BY <3>1, <1>1, ChainFacts
      <3>3. PICK l : OnList(u, l, j)
        BY <3>1, <3>2, <2>8 DEF Place
      <3>4. CASE t \in e.list
        <4>1. Follows(t, o)
          BY <3>4, <2>11
        <4>2. q = o
          BY <3>2, <4>1, <1>1, ChainFacts
        <4>. QED
          BY <3>2, <3>3, <3>4, <4>2, <2>7, <2>10
      <3>5. CASE u \in e.list
        <4>1. q = o
          BY <3>2, <3>5, <2>11, <1>1, ChainFacts
        <4>2. PICK p : OnList(t, p, i)
          BY <3>1, <3>2, <4>1, <2>8 DEF Place
        <4>3. Follows(t, o)
          <5>1. t # o
            BY <4>2, <2>4, <1>1, ChainFacts DEF Carriers
          <5>. QED
            BY <5>1, <3>2, <4>1
        <4>. QED
          BY <3>5, <4>2, <4>3, <2>7, <2>10
      <3>. QED
        BY <3>4, <3>5
    <2>15. Keeps(x, 3, 1, 4, b, e)
      <3>1. SUFFICES ASSUME NEW t, NEW q, Precedes(t, x), t \in Tags, t # x, Follows(x, q), t = q \/ Follows(t, q),
                            NEW i, NEW j, i \in 0..5, j \in Nat, Place(t, i, j)', Place(t, i, j + Back(e, t, i)),
                            Ahead(i, j + Back(e, t, i), 3, 1)
                     PROVE  Ahead(i, j, 4, b)
        BY DEF Keeps
      <3>2. q = o
        BY <1>1, <2>4, <3>1, ChainFacts
      <3>3. i # 3
        <4>1. SUFFICES ASSUME i = 3 PROVE FALSE
          OBVIOUS
        <4>2. j = 0
          <5>1. Back(e, t, i) \in {0, 1}
            BY <2>9 DEF Back
          <5>. QED
            BY <5>1, <3>1, <4>1 DEF Ahead
        <4>3. PICK l : OnJob(t, l)'
          <5>1. \A l : ~OnList(t, l, 0)'
            BY DEF OnList
          <5>. QED
            BY <5>1, <3>1, <4>1, <4>2 DEF Place
        <4>. QED
          BY <4>3, <1>8, <2>8, <3>1, <3>2
      <3>4. i > 2
        BY <3>1 DEF Ahead
      <3>5. i = 4 => j < b
        <4>1. i = 4 => OnMnt(t, j)'
          BY <3>1 DEF Place
        <4>. QED
          BY <4>1, <3>1, <2>6
      <3>. QED
        BY <3>1, <3>3, <3>4, <3>5 DEF Ahead
    <2>16. Once' /\ InLine'
      <3>1. 4 > 3 /\ 4 \in Nat
        OBVIOUS
      <3>. HIDE DEF more
      <3>. QED
        BY <3>1, <1>1, <1>8, <2>3, <2>9, <2>13, <2>14, <2>15, Advance
    <2>17. OneExq'
      BY <1>1, <1>8 DEF OneExq
    <2>18. Carriers'
      <3>1. \A i \in 1..Len(toSrv') : \E j \in 1..Len(toSrv) : toSrv'[i] = toSrv[j]
        BY <1>4
      <3>2. epc' = "flush" => \E y : y = ereq' /\ Names(y)
        BY <1>1, <1>4 DEF Carriers
      <3>3. \A t, l : OnExq(t, l)' \/ OnJob(t, l)' => Heads(t)
        BY <1>1, <1>8 DEF Carriers
      <3>4. \A t, l, i : OnList(t, l, i)' => \E p : p = rec'[l].tag /\ Follows(t, p)
        <4>1. SUFFICES ASSUME NEW t, NEW l, NEW i, OnList(t, l, i)' PROVE Follows(t, rec[l].tag) /\ rec'[l].tag = rec[l].tag
          OBVIOUS
        <4>2. PICK j : OnList(t, l, j)
          BY <4>1, <2>12
        <4>3. l \in Calls
          BY <4>2 DEF OnList
        <4>. QED
          BY <4>2, <4>3, <1>0, <1>1, <1>7 DEF Carriers
      <3>5. \A t, i : OnMnt(t, i)' => Used(t)
        BY <1>1, <2>4, <2>6 DEF Carriers, Used
      <3>. QED
        BY <3>1, <3>2, <3>3, <3>4, <3>5, <1>1, <1>8, CarriersKeep
    <2>. QED
      BY <2>16, <2>17, <2>18, <1>9 DEF Tagged
  <1>. QED
    BY <1>10, <1>11

-----------------------------------------------------------------------------
(* The mount driver's steps and the tags.                                  *)

\* Nothing that the tags are about changes.
LEMMA QuietTags ==
  ASSUME Tagged, UNCHANGED <<chain, reply, toSrv, toMnt, epc, ereq, exq, work, rec, spc, job>>
  PROVE  Tagged'
  <1>1. \A l : \A C : SomeAt(l, C)' <=> SomeAt(l, C)
    BY DEF SomeAt, At
  <1>2. /\ \A t, i : (OnSrv(t, i)' <=> OnSrv(t, i)) /\ (OnMnt(t, i)' <=> OnMnt(t, i))
        /\ \A t, l : (OnExq(t, l)' <=> OnExq(t, l)) /\ (OnJob(t, l)' <=> OnJob(t, l))
        /\ \A t, l, i : OnList(t, l, i)' <=> OnList(t, l, i)
        /\ \A t : (OnReq(t)' <=> OnReq(t)) /\ (Done(t)' <=> Done(t))
    BY <1>1 DEF OnSrv, OnMnt, OnExq, OnJob, OnList, OnReq, Done
  <1>3. \A t, m, a : Place(t, m, a)' <=> Place(t, m, a)
    BY <1>2 DEF Place
  <1>4. Once' /\ OneExq'
    BY <1>2, <1>3 DEF Tagged, Once, OneExq
  <1>5. InLine'
    BY <1>3, SameChains DEF Tagged, InLine, Ahead
  <1>6. Carriers'
    <2>1. /\ \A i \in 1..Len(toSrv') : \E j \in 1..Len(toSrv) : toSrv'[i] = toSrv[j]
          /\ epc' = "flush" => \E y : y = ereq' /\ Names(y)
      BY DEF Tagged, Carriers
    <2>2. /\ \A t, l : OnExq(t, l)' \/ OnJob(t, l)' => Heads(t)
          /\ \A t, l, i : OnList(t, l, i)' => \E o : o = rec'[l].tag /\ Follows(t, o)
          /\ \A t, i : OnMnt(t, i)' => Used(t)
      BY <1>2 DEF Tagged, Carriers
    <2>. QED
      BY <2>1, <2>2, CarriersKeep DEF Tagged
  <1>7. LiveFirst'
    BY <1>1 DEF Tagged, LiveFirst, Live
  <1>. QED
    BY <1>4, <1>5, <1>6, <1>7 DEF Tagged

\* What the server has stays where it is.
LEMMA ServerStays ==
  ASSUME UNCHANGED evars
  PROVE  /\ UNCHANGED <<epc, ereq, exq, work, rec, spc, job>>
         /\ \A t, l : (OnExq(t, l)' <=> OnExq(t, l)) /\ (OnJob(t, l)' <=> OnJob(t, l))
         /\ \A t, l, i : OnList(t, l, i)' <=> OnList(t, l, i)
         /\ \A t : OnReq(t)' <=> OnReq(t)
         /\ LiveFirst => LiveFirst'
  <1>1. UNCHANGED <<epc, ereq, exq, work, rec, spc, job>>
    BY DEF evars
  <1>2. \A l : \A C : SomeAt(l, C)' <=> SomeAt(l, C)
    BY <1>1 DEF SomeAt, At
  <1>. QED
    BY <1>1, <1>2 DEF OnExq, OnJob, OnList, OnReq, LiveFirst, Live

\* The reader takes a reply.
LEMMA ReadTags ==
  ASSUME Sound, NEW c \in Clients, Read(c), UNCHANGED evars
  PROVE  Tagged'
  <1>1. ServerTypes /\ MountTypes /\ TagInv /\ Once /\ OneExq /\ Carriers /\ InLine /\ LiveFirst /\ Tagged
    BY DEF Sound, Sides, ServerInv, MountInv, Tagged
  <1>2. UNCHANGED <<chain, toSrv>>
    BY DEF Read
  <1>3. /\ UNCHANGED <<epc, ereq, exq, work, rec, spc, job>>
        /\ \A t, l : (OnExq(t, l)' <=> OnExq(t, l)) /\ (OnJob(t, l)' <=> OnJob(t, l))
        /\ \A t, l, i : OnList(t, l, i)' <=> OnList(t, l, i)
        /\ \A t : OnReq(t)' <=> OnReq(t)
        /\ LiveFirst'
    BY <1>1, ServerStays
  <1>4. CASE UNCHANGED <<reply, toMnt>>
    BY <1>1, <1>2, <1>3, <1>4, QuietTags
  <1>5. CASE toMnt # <<>> /\ toMnt' = Tail(toMnt) /\ Mountmux(c, Head(toMnt))
    <2>1. PICK m, x : m = Head(toMnt) /\ x = m.tag
      OBVIOUS
    <2>2. toMnt \in Seq(RMessages)
      BY <1>1 DEF ServerTypes
    <2>3. /\ m = toMnt[1] /\ 1 \in 1..Len(toMnt) /\ Len(toMnt') = Len(toMnt) - 1 /\ Len(toMnt) \in Nat /\ m \in RMessages
          /\ \A i \in 1..(Len(toMnt) - 1) : toMnt'[i] = toMnt[i + 1] /\ i + 1 \in 1..Len(toMnt)
      BY <1>5, <2>1, <2>2, TailAt
    <2>4. OnMnt(x, 1) /\ Place(x, 4, 1) /\ x \in Tags
      BY <2>1, <2>3 DEF OnMnt, Place, RMessages
    <2>5. \A t, i : OnMnt(t, i)' => i \in Nat \ {0} /\ OnMnt(t, i + 1) /\ t # x
      <3>1. \A t, i : OnMnt(t, i)' => i \in Nat \ {0} /\ OnMnt(t, i + 1)
        BY <2>3 DEF OnMnt
      <3>2. ASSUME NEW i, OnMnt(x, i)' PROVE FALSE
        <4>1. i \in Nat \ {0} /\ Place(x, 4, i + 1)
          BY <3>1, <3>2 DEF Place
        <4>2. i + 1 = 1
          BY <4>1, <2>4, <1>1 DEF Once
        <4>. QED
          BY <4>1, <4>2
      <3>. QED
        BY <3>1, <3>2
    <2>6. \A t \in Tags : Done(t)' => Done(t) \/ t = x
      <3>1. reply \in [Tags -> RMessages \cup {NoReply}]
        BY <1>1 DEF MountTypes
      <3>2. reply' = reply \/ reply' = [reply EXCEPT ![x] = m]
        BY <1>5, <2>1 DEF Mountmux
      <3>. QED
        BY <3>1, <3>2 DEF Done
    <2>. DEFINE e == [srv |-> 0, mnt |-> 1, list |-> {}]
    <2>7. e \in Shifts /\ e.srv = 0 /\ e.mnt = 1 /\ e.list = {} /\ Split(x, e)
      BY NoSplit DEF Shifts
    <2>. HIDE DEF e
    <2>8. Moved(x, 4, 5, 0, e)
      <3>1. \A t, i : OnSrv(t, i)' => OnSrv(t, i + e.srv)
        <4>1. \A t, i : OnSrv(t, i) => i + 0 = i
          BY DEF OnSrv
        <4>. QED
          BY <4>1, <1>2, <2>7 DEF OnSrv
      <3>2. \A t : t \notin e.list
        BY <2>7
      <3>3. \A t, l, i : OnList(t, l, i)' => OnList(t, l, IF t \in e.list THEN i + 1 ELSE i)
        BY <3>2, <1>3
      <3>4. \A t, i : OnMnt(t, i)' => OnMnt(t, i + e.mnt) /\ t # x
        BY <2>5, <2>7
      <3>. QED
        BY <3>1, <3>2, <3>3, <3>4, <1>3, <2>6 DEF Moved
    <2>9. Keeps(x, 4, 1, 5, 0, e)
      <3>1. SUFFICES ASSUME NEW t, NEW i, NEW j, i \in 0..5, j \in Nat, Ahead(i, j + Back(e, t, i), 4, 1)
                     PROVE  Ahead(i, j, 5, 0)
        BY DEF Keeps
      <3>2. i # 4
        BY <3>1, <2>7 DEF Ahead, Back
      <3>. QED
        BY <3>1, <3>2 DEF Ahead
    <2>10. Once' /\ InLine'
      <3>1. 5 > 4 /\ 5 \in Nat
        OBVIOUS
      <3>. QED
        BY <3>1, <1>1, <1>2, <2>4, <2>7, <2>8, <2>9, Advance
    <2>11. OneExq'
      BY <1>1, <1>3 DEF OneExq
    <2>12. Carriers'
      <3>1. \A i \in 1..Len(toSrv') : \E j \in 1..Len(toSrv) : toSrv'[i] = toSrv[j]
        BY <1>2
      <3>2. epc' = "flush" => \E y : y = ereq' /\ Names(y)
        BY <1>1, <1>3 DEF Carriers
      <3>3. \A t, l : OnExq(t, l)' \/ OnJob(t, l)' => Heads(t)
        BY <1>1, <1>3 DEF Carriers
      <3>4. \A t, l, i : OnList(t, l, i)' => \E o : o = rec'[l].tag /\ Follows(t, o)
        BY <1>1, <1>3 DEF Carriers
      <3>5. \A t, i : OnMnt(t, i)' => Used(t)
        BY <1>1, <2>5 DEF Carriers
      <3>. QED
        BY <3>1, <3>2, <3>3, <3>4, <3>5, <1>1, <1>2, CarriersKeep
    <2>. QED
      BY <2>10, <2>11, <2>12, <1>3 DEF Tagged
  <1>. QED
    BY <1>4, <1>5 DEF Read

\* Chains change, but not where a tag is on its way.
LEMMA StillNamed ==
  ASSUME Carriers, UNCHANGED evars, UNCHANGED toMnt,
         \A t, m, a : Place(t, m, a) /\ m # 5 => (Heads(t) => Heads(t)') /\ \A o : Follows(t, o) => Follows(t, o)',
         \A i \in 1..Len(toSrv') : (\E j \in 1..Len(toSrv) : toSrv'[i] = toSrv[j]) \/ Names(toSrv[i])'
  PROVE  Carriers'
  <1>0. /\ UNCHANGED <<epc, ereq, exq, work, rec, spc, job>>
        /\ \A t, l : (OnExq(t, l)' <=> OnExq(t, l)) /\ (OnJob(t, l)' <=> OnJob(t, l))
        /\ \A t, l, i : OnList(t, l, i)' <=> OnList(t, l, i)
        /\ \A t : OnReq(t)' <=> OnReq(t)
    BY ServerStays
  <1>1. \A t, i : OnSrv(t, i) \/ OnMnt(t, i) => (Heads(t) => Heads(t)') /\ \A o : Follows(t, o) => Follows(t, o)'
    <2>1. \A t, i : (OnSrv(t, i) => Place(t, 0, i)) /\ (OnMnt(t, i) => Place(t, 4, i))
      BY DEF Place
    <2>. QED
      BY <2>1
  <1>2. ASSUME NEW i \in 1..Len(toSrv') PROVE Names(toSrv[i])'
    <2>1. SUFFICES ASSUME NEW j \in 1..Len(toSrv), toSrv'[i] = toSrv[j] PROVE Names(toSrv[i])'
      OBVIOUS
    <2>2. Names(toSrv[j]) /\ OnSrv(toSrv[j].tag, j)
      BY DEF Carriers, OnSrv
    <2>. QED
      BY <2>1, <2>2, <1>1 DEF Names
  <1>3. ASSUME epc' = "flush" PROVE Names(ereq)'
    <2>1. Names(ereq) /\ OnReq(ereq.tag)
      BY <1>0, <1>3 DEF Carriers, OnReq
    <2>2. Place(ereq.tag, 2, 0)
      BY <2>1 DEF Place
    <2>. QED
      BY <2>1, <2>2, <1>0 DEF Names
  <1>4. ASSUME NEW t, NEW k, OnExq(t, k)' \/ OnJob(t, k)' PROVE Heads(t)'
    <2>1. Heads(t) /\ (Place(t, 1, 0) \/ Place(t, 3, 0))
      BY <1>0, <1>4 DEF Carriers, Place
    <2>. QED
      BY <2>1
  <1>5. ASSUME NEW t, NEW k, NEW i, OnList(t, k, i)' PROVE Follows(t, rec[k].tag)'
    <2>1. PICK o : o = rec[k].tag
      OBVIOUS
    <2>2. Follows(t, o) /\ Place(t, 3, i)
      BY <1>0, <1>5, <2>1 DEF Carriers, Place
    <2>. QED
      BY <2>1, <2>2, <1>0
  <1>6. ASSUME NEW t, NEW i, OnMnt(t, i)' PROVE Used(t)'
    <2>1. OnMnt(t, i) /\ Used(t)
      BY <1>6 DEF OnMnt, Carriers
    <2>. QED
      BY <2>1, <1>1 DEF Used
  <1>. QED
    BY <1>2, <1>3, <1>4, <1>5, <1>6 DEF Carriers

\* A tag that no call had is given to a request or a flush.
LEMMA TransmitTags ==
  ASSUME Sound, NEW c \in Clients, NEW k, NEW from, Transmit(c, k, from), UNCHANGED evars
  PROVE  Tagged'
  <1>1. MountTypes /\ TagInv /\ QueueInv /\ ServerTypes /\ Once /\ OneExq /\ Carriers /\ InLine /\ LiveFirst /\ ~hung
    BY DEF Sound, Sides, ServerInv, MountInv, Tagged
  <1>2. PICK x : Allocated(c, x)
    BY <1>1, MntrallocEffect DEF Transmit
  <1>3. PICK r : r = Request(chain'[c], k)
    OBVIOUS
  <1>4. /\ UNCHANGED <<reply, toMnt>>
        /\ toSrv' = toSrv \/ toSrv' = Append(toSrv, r)
    BY <1>3 DEF Transmit
  <1>5. /\ chain[c] \in Seq(Tags) /\ Len(chain[c]) \in Nat /\ x \in Tags /\ chain'[c] = Append(chain[c], x)
        /\ Len(chain'[c]) = Len(chain[c]) + 1 /\ chain'[c][Len(chain[c]) + 1] = x
        /\ \A i \in 1..Len(chain[c]) : chain'[c][i] = chain[c][i]
        /\ \A d \in Clients \ {c} : chain'[d] = chain[d]
    <2>1. chain \in [Clients -> Seq(Tags)] /\ chain[c] \in Seq(Tags) /\ x \in Tags
      BY <1>1, <1>2 DEF MountTypes, Allocated
    <2>2. chain' = [chain EXCEPT ![c] = Append(chain[c], x)]
      BY <1>2 DEF Allocated
    <2>3. /\ Len(Append(chain[c], x)) = Len(chain[c]) + 1 /\ Append(chain[c], x)[Len(chain[c]) + 1] = x
          /\ \A i \in 1..Len(chain[c]) : Append(chain[c], x)[i] = chain[c][i]
      BY <2>1, AppendAt
    <2>4. chain'[c] = Append(chain[c], x) /\ \A d \in Clients \ {c} : chain'[d] = chain[d]
      BY <2>1, <2>2
    <2>. QED
      BY <2>1, <2>3, <2>4
  <1>6. \A d \in Clients : /\ Len(chain[d]) \in Nat
                           /\ \A i \in 1..Len(chain[d]) : i \in 1..Len(chain'[d]) /\ chain'[d][i] = chain[d][i]
                           /\ \A i \in 1..Len(chain'[d]) : i \in 1..Len(chain[d]) \/ (d = c /\ i = Len(chain[c]) + 1)
    <2>1. \A d \in Clients : Len(chain[d]) \in Nat
      BY <1>1 DEF MountTypes
    <2>. QED
      BY <2>1, <1>5
  <1>7. \A d \in Clients : \A i \in 1..Len(chain[d]) : chain[d][i] # x
    BY <1>2 DEF Allocated, In
  <1>8. /\ \A t : Heads(t) => Heads(t)'
        /\ \A t, o : Follows(t, o) => Follows(t, o)'
    <2>1. ASSUME NEW t, Heads(t) PROVE Heads(t)'
      <3>1. PICK d \in Clients : chain[d] # <<>> /\ chain[d][1] = t
        BY <2>1 DEF Heads
      <3>2. 1 \in 1..Len(chain[d])
        BY <3>1, <1>1 DEF MountTypes
      <3>3. chain'[d] # <<>> /\ chain'[d][1] = t
        <4>1. CASE d = c
          BY <4>1, <3>1, <3>2, <1>5
        <4>2. CASE d # c
          BY <4>2, <3>1, <1>5
        <4>. QED
          BY <4>1, <4>2
      <3>. QED
        BY <3>3 DEF Heads
    <2>2. ASSUME NEW t, NEW o, Follows(t, o) PROVE Follows(t, o)'
      <3>1. PICK d \in Clients : \E i \in 2..Len(chain[d]) : chain[d][i] = t /\ chain[d][1] = o
        BY <2>2 DEF Follows
      <3>2. PICK i \in 2..Len(chain[d]) : chain[d][i] = t /\ chain[d][1] = o
        BY <3>1
      <3>3. i \in 1..Len(chain[d]) /\ 1 \in 1..Len(chain[d])
        BY <3>2, <1>6
      <3>4. i \in 2..Len(chain'[d]) /\ chain'[d][i] = t /\ chain'[d][1] = o
        BY <3>2, <3>3, <1>6
      <3>. QED
        BY <3>4 DEF Follows
    <2>. QED
      BY <2>1, <2>2
  <1>9. \A t, u : Precedes(t, u)' => (Precedes(t, u) /\ t # x /\ u # x) \/ (u = x /\ t # x)
    <2>1. SUFFICES ASSUME NEW t, NEW u, Precedes(t, u)' PROVE (Precedes(t, u) /\ t # x /\ u # x) \/ (u = x /\ t # x)
      OBVIOUS
    <2>2. PICK d \in Clients : \E i, j \in 1..Len(chain'[d]) : i < j /\ chain'[d][i] = t /\ chain'[d][j] = u
      BY <2>1 DEF Precedes
    <2>3. PICK i, j \in 1..Len(chain'[d]) : i < j /\ chain'[d][i] = t /\ chain'[d][j] = u
      BY <2>2
    <2>4. i \in 1..Len(chain[d])
      BY <2>3, <1>6
    <2>5. chain[d][i] = t /\ t # x
      BY <2>3, <2>4, <1>6, <1>7
    <2>6. CASE j \in 1..Len(chain[d])
      BY <2>3, <2>4, <2>5, <2>6, <1>6, <1>7 DEF Precedes
    <2>7. CASE d = c /\ j = Len(chain[c]) + 1
      BY <2>3, <2>5, <2>7, <1>5
    <2>. QED
      BY <2>3, <2>6, <2>7, <1>6
  <1>10. \A m, a : ~Place(x, m, a)
    <2>1. ~Used(x)
      <3>1. ~Heads(x)
        <4>1. SUFFICES ASSUME NEW d \in Clients, chain[d] # <<>>, chain[d][1] = x PROVE FALSE
          BY DEF Heads
        <4>2. 1 \in 1..Len(chain[d])
          BY <4>1, <1>1 DEF MountTypes
        <4>. QED
          BY <4>1, <4>2, <1>7
      <3>2. \A o : ~Follows(x, o)
        BY <1>6, <1>7 DEF Follows
      <3>. QED
        BY <3>1, <3>2 DEF Used
    <2>2. ~Done(x)
      BY <1>2 DEF Allocated
    <2>3. SUFFICES ASSUME NEW m, NEW a, Place(x, m, a) PROVE FALSE
      OBVIOUS
    <2>4. m = 5
      BY <2>1, <2>3, <1>1, PlaceUsed
    <2>. QED
      BY <2>2, <2>3, <2>4 DEF Place
  <1>11. PICK o : o = chain[c][1]
    OBVIOUS
  <1>12. /\ chain[c] = <<>> => r = [type |-> "T", tag |-> x, call |-> k]
         /\ chain[c] # <<>> => r = [type |-> "Tflush", tag |-> x, oldtag |-> o]
    <2>1. /\ chain[c] = <<>> => Request(chain'[c], k) = [type |-> "T", tag |-> x, call |-> k]
          /\ chain[c] # <<>> => Request(chain'[c], k) = [type |-> "Tflush", tag |-> x, oldtag |-> chain[c][1]]
      BY <1>1, <1>2, RequestIs
    <2>. QED
      BY <2>1, <1>3, <1>11
  <1>13. Names(r)'
    <2>1. CASE chain[c] = <<>>
      <3>1. r.type = "T" /\ r.tag = x
        BY <2>1, <1>12
      <3>2. chain'[c] # <<>> /\ chain'[c][1] = x
        BY <2>1, <1>5
      <3>3. Heads(x)'
        BY <3>2 DEF Heads
      <3>. QED
        BY <3>1, <3>3 DEF Names
    <2>2. CASE chain[c] # <<>>
      <3>1. r.type = "Tflush" /\ r.tag = x /\ r.oldtag = o
        BY <2>2, <1>12
      <3>2. 1 \in 1..Len(chain[c]) /\ Len(chain[c]) + 1 \in 2..Len(chain'[c])
        BY <2>2, <1>5
      <3>3. chain'[c][Len(chain[c]) + 1] = x /\ chain'[c][1] = o
        BY <3>2, <1>5, <1>11
      <3>4. Follows(x, o)'
        BY <3>2, <3>3 DEF Follows
      <3>. QED
        BY <3>1, <3>4 DEF Names
    <2>. QED
      BY <2>1, <2>2
  <1>14. PICK b \in Nat : /\ \A t, i : OnSrv(t, i)' => OnSrv(t, i) \/ (t = x /\ i = b)
                          /\ \A t, i : OnSrv(t, i) => i \in Nat /\ i < b
                          /\ \A i \in 1..Len(toSrv') : (\E j \in 1..Len(toSrv) : toSrv'[i] = toSrv[j]) \/ toSrv'[i] = r
    <2>1. toSrv \in Seq(TMessages) /\ Len(toSrv) \in Nat
      BY <1>1 DEF ServerTypes
    <2>2. /\ r \in TMessages => /\ Len(Append(toSrv, r)) = Len(toSrv) + 1
                                /\ \A i \in 1..Len(toSrv) : Append(toSrv, r)[i] = toSrv[i]
                                /\ Append(toSrv, r)[Len(toSrv) + 1] = r
      BY <2>1, AppendAt
    <2>3. \A t, i : OnSrv(t, i) => i \in Nat /\ i < Len(toSrv) + 1
      BY <2>1 DEF OnSrv
    <2>4. CASE toSrv' = toSrv
      BY <2>1, <2>3, <2>4 DEF OnSrv
    <2>5. CASE toSrv' = Append(toSrv, r)
      <3>1. /\ Len(Append(toSrv, r)) = Len(toSrv) + 1
            /\ \A i \in 1..Len(toSrv) : Append(toSrv, r)[i] = toSrv[i]
            /\ Append(toSrv, r)[Len(toSrv) + 1] = r
        BY <2>1
      <3>2. Len(toSrv') = Len(toSrv) + 1 /\ toSrv'[Len(toSrv) + 1] = r /\ \A i \in 1..Len(toSrv) : toSrv'[i] = toSrv[i]
        BY <2>5, <3>1
      <3>3. \A t, i : OnSrv(t, i)' => OnSrv(t, i) \/ (t = x /\ i = Len(toSrv) + 1)
        BY <2>1, <3>2, <1>12 DEF OnSrv
      <3>4. \A i \in 1..Len(toSrv') : (\E j \in 1..Len(toSrv) : toSrv'[i] = toSrv[j]) \/ toSrv'[i] = r
        BY <2>1, <3>2
      <3>. QED
        BY <2>1, <2>3, <3>3, <3>4
    <2>. QED
      BY <2>4, <2>5, <1>4
  <1>15. /\ UNCHANGED <<epc, ereq, exq, work, rec, spc, job>>
         /\ \A t, l : (OnExq(t, l)' <=> OnExq(t, l)) /\ (OnJob(t, l)' <=> OnJob(t, l))
         /\ \A t, l, i : OnList(t, l, i)' <=> OnList(t, l, i)
         /\ \A t : OnReq(t)' <=> OnReq(t)
         /\ LiveFirst'
    BY <1>1, ServerStays
  <1>16. \A t, m, a : Place(t, m, a)' => Place(t, m, a) \/ (t = x /\ m = 0 /\ a = b)
    <2>1. \A t, i : OnMnt(t, i)' <=> OnMnt(t, i)
      BY <1>4 DEF OnMnt
    <2>2. \A t : Done(t)' <=> Done(t)
      BY <1>4 DEF Done
    <2>. QED
      BY <2>1, <2>2, <1>14, <1>15 DEF Place
  <1>17. Once'
    BY <1>1, <1>10, <1>16 DEF Once
  <1>18. InLine'
    <2>1. SUFFICES ASSUME NEW t, NEW u, Precedes(t, u)', NEW m, NEW n, NEW p, NEW q, Place(t, m, p)', Place(u, n, q)'
                   PROVE  Ahead(m, p, n, q)
      BY DEF InLine, Ahead
    <2>2. t # x /\ Place(t, m, p)
      BY <2>1, <1>9, <1>16
    <2>3. CASE u = x
      <3>1. n = 0 /\ q = b
        BY <2>1, <2>3, <1>10, <1>16
      <3>2. m \in 0..5 /\ (m = 0 => p < b)
        BY <2>2, <1>14, PlaceTypes DEF Place
      <3>. QED
        BY <3>1, <3>2 DEF Ahead
    <2>4. CASE u # x
      BY <2>1, <2>2, <2>4, <1>1, <1>9, <1>16 DEF InLine
    <2>. QED
      BY <2>3, <2>4
  <1>19. OneExq'
    BY <1>1, <1>15 DEF OneExq
  <1>20. Carriers'
    <2>1. \A i \in 1..Len(toSrv') : (\E j \in 1..Len(toSrv) : toSrv'[i] = toSrv[j]) \/ Names(toSrv[i])'
      <3>1. \A i : toSrv'[i] = r => Names(toSrv[i])'
        BY <1>13 DEF Names
      <3>. QED
        BY <3>1, <1>14
    <2>. QED
      BY <2>1, <1>1, <1>4, <1>8, StillNamed
  <1>. QED
    BY <1>15, <1>17, <1>18, <1>19, <1>20 DEF Tagged

\* When the last tag of a call is answered, all are.
LEMMA AnsweredInOrder ==
  ASSUME MountTypes, TagInv, Once, InLine, NEW c \in Clients, chain[c] # <<>>, Done(Rpc(c))
  PROVE  \A t, m, a : In(t, chain[c]) /\ Place(t, m, a) => m = 5
  <1>1. chain[c] \in Seq(Tags) /\ Len(chain[c]) \in Nat \ {0}
    BY DEF MountTypes
  <1>2. PICK z : z = chain[c][Len(chain[c])]
    OBVIOUS
  <1>3. z \in Tags /\ Place(z, 5, 0)
    BY <1>1, <1>2 DEF Place, Rpc, Last
  <1>4. SUFFICES ASSUME NEW i \in 1..Len(chain[c]), NEW m, NEW a, Place(chain[c][i], m, a) PROVE m = 5
    BY DEF In
  <1>5. CASE i = Len(chain[c])
    BY <1>2, <1>3, <1>4, <1>5 DEF Once
  <1>6. CASE i # Len(chain[c])
    <2>1. Precedes(chain[c][i], z)
      <3>1. i < Len(chain[c]) /\ Len(chain[c]) \in 1..Len(chain[c])
        BY <1>1, <1>6
      <3>. QED
        BY <3>1, <1>2 DEF Precedes
    <2>2. Ahead(m, a, 5, 0)
      BY <2>1, <1>3, <1>4 DEF InLine
    <2>3. m \in 0..5
      BY <1>4, PlaceTypes
    <2>. QED
      BY <2>2, <2>3 DEF Ahead
  <1>. QED
    BY <1>5, <1>6

\* The tags of an answered call are given back.
LEMMA AnsweredTags ==
  ASSUME Sound, NEW c \in Clients, Return(c), UNCHANGED evars
  PROVE  Tagged'
  <1>1. MountTypes /\ TagInv /\ QueueInv /\ RipInv /\ ServerTypes /\ Once /\ OneExq /\ Carriers /\ InLine /\ LiveFirst /\ ~hung
    BY DEF Sound, Sides, ServerInv, MountInv, Tagged
  <1>2. UNCHANGED <<toSrv, toMnt>>
    BY DEF Return, wirevars
  <1>3. /\ Freed(chain[c]) /\ chain'[c] = <<>>
        /\ \A d \in Clients \ {c} : chain'[d] = chain[d]
    BY <1>1, ReturnTags
  <1>4. cpc[c] = "return"
    BY <1>1 DEF Return, CStep, RipInv
  <1>5. chain[c] # <<>> /\ Done(Rpc(c))
    BY <1>1, <1>4 DEF TagInv, RipInv
  <1>6. \A t, m, a : In(t, chain[c]) /\ Place(t, m, a) => m = 5
    BY <1>1, <1>5, AnsweredInOrder
  <1>7. \A t \in Tags : Done(t)' => Done(t)
    BY <1>3 DEF Freed, Done
  <1>8. /\ UNCHANGED <<epc, ereq, exq, work, rec, spc, job>>
        /\ \A t, l : (OnExq(t, l)' <=> OnExq(t, l)) /\ (OnJob(t, l)' <=> OnJob(t, l))
        /\ \A t, l, i : OnList(t, l, i)' <=> OnList(t, l, i)
        /\ \A t : OnReq(t)' <=> OnReq(t)
        /\ LiveFirst'
    BY <1>1, ServerStays
  <1>9. \A t \in Tags : \A m, a : Place(t, m, a)' => Place(t, m, a)
    <2>1. \A t, i : (OnMnt(t, i)' <=> OnMnt(t, i)) /\ (OnSrv(t, i)' <=> OnSrv(t, i))
      BY <1>2 DEF OnMnt, OnSrv
    <2>. QED
      BY <2>1, <1>7, <1>8 DEF Place
  <1>10. /\ \A d \in Clients : Len(chain[d]) \in Nat
         /\ \A d \in Clients : d = c => Len(chain'[d]) = 0
         /\ \A d \in Clients : d # c => chain'[d] = chain[d]
    BY <1>1, <1>3 DEF MountTypes
  <1>11. \A t, u : Precedes(t, u)' => Precedes(t, u)
    <2>1. SUFFICES ASSUME NEW t, NEW u, Precedes(t, u)' PROVE Precedes(t, u)
      OBVIOUS
    <2>2. PICK d \in Clients : \E i, j \in 1..Len(chain'[d]) : i < j /\ chain'[d][i] = t /\ chain'[d][j] = u
      BY <2>1 DEF Precedes
    <2>3. d # c
      BY <2>2, <1>10
    <2>. QED
      BY <2>2, <2>3, <1>10 DEF Precedes
  <1>12. \A t, m, a : Place(t, m, a) /\ m # 5 => (Heads(t) => Heads(t)') /\ \A o : Follows(t, o) => Follows(t, o)'
    <2>1. SUFFICES ASSUME NEW t, NEW m, NEW a, Place(t, m, a), m # 5
                   PROVE  (Heads(t) => Heads(t)') /\ \A o : Follows(t, o) => Follows(t, o)'
      OBVIOUS
    <2>2. ~In(t, chain[c])
      BY <2>1, <1>6
    <2>3. ASSUME Heads(t) PROVE Heads(t)'
      <3>1. PICK d \in Clients : chain[d] # <<>> /\ chain[d][1] = t
        BY <2>3 DEF Heads
      <3>2. 1 \in 1..Len(chain[d])
        BY <3>1, <1>1 DEF MountTypes
      <3>3. d # c
        BY <3>1, <3>2, <2>2 DEF In
      <3>. QED
        BY <3>1, <3>3, <1>3 DEF Heads
    <2>4. ASSUME NEW o, Follows(t, o) PROVE Follows(t, o)'
      <3>1. PICK d \in Clients : \E i \in 2..Len(chain[d]) : chain[d][i] = t /\ chain[d][1] = o
        BY <2>4 DEF Follows
      <3>2. \A i \in 2..Len(chain[d]) : i \in 1..Len(chain[d])
        BY <1>10
      <3>3. d # c
        BY <3>1, <3>2, <2>2 DEF In
      <3>. QED
        BY <3>1, <3>3, <1>3 DEF Follows
    <2>. QED
      BY <2>3, <2>4
  <1>13. Once'
    BY <1>1, <1>9 DEF Once
  <1>14. InLine'
    <2>1. \A t, u : Precedes(t, u) => t \in Tags /\ u \in Tags
      BY <1>1, ChainFacts
    <2>. QED
      BY <2>1, <1>1, <1>9, <1>11 DEF InLine, Ahead
  <1>15. OneExq'
    BY <1>1, <1>8 DEF OneExq
  <1>16. Carriers'
    <2>1. \A i \in 1..Len(toSrv') : \E j \in 1..Len(toSrv) : toSrv'[i] = toSrv[j]
      BY <1>2
    <2>. QED
      BY <2>1, <1>1, <1>2, <1>12, StillNamed
  <1>. QED
    BY <1>8, <1>13, <1>14, <1>15, <1>16 DEF Tagged

-----------------------------------------------------------------------------
(* The tags' invariant, and the discipline that follows from it.           *)

\* At first no tag is anywhere.
LEMMA InitFlushInv == Init => FlushInv
  <1>1. SUFFICES ASSUME Init PROVE Tagged
    BY DEF FlushInv
  <1>2. /\ toSrv = <<>> /\ toMnt = <<>> /\ exq = <<>> /\ work = <<>> /\ epc # "flush"
        /\ \A s \in Slaves : spc[s] = "wait"
        /\ \A k \in Calls : rec[k].flush = <<>>
        /\ \A c \in Clients : chain[c] = <<>>
        /\ \A t \in Tags : reply[t] = NoReply
    BY <1>1 DEF Init, WireInit, MInit, EInit, BlankExq
  <1>3. \A k : \A C \in {Busy, {"dispatch"}} : ~SomeAt(k, C)
    BY <1>2 DEF SomeAt, At, Busy
  <1>4. /\ \A t, i : ~OnSrv(t, i) /\ ~OnMnt(t, i)
        /\ \A t, k : ~OnExq(t, k) /\ ~OnJob(t, k)
        /\ \A t, k, i : ~OnList(t, k, i)
        /\ \A t : ~OnReq(t)
    BY <1>2, <1>3, EmptyIn DEF OnSrv, OnMnt, OnExq, OnJob, OnList, OnReq
  <1>5. \A t \in Tags : \A m, a : ~Place(t, m, a)
    BY <1>2, <1>4 DEF Place, Done
  <1>6. Once /\ OneExq
    BY <1>4, <1>5 DEF Once, OneExq
  <1>7. Carriers
    BY <1>2, <1>4 DEF Carriers
  <1>8. InLine
    BY <1>2 DEF InLine, Precedes
  <1>9. LiveFirst
    BY <1>2, EmptyIn DEF LiveFirst
  <1>. QED
    BY <1>6, <1>7, <1>8, <1>9 DEF Tagged

\* Every step keeps it.
LEMMA FlushInductive == Sides /\ FlushInv /\ [Next]_vars => FlushInv'
  <1>1. SUFFICES ASSUME Sides, FlushInv, [Next]_vars, ~hung' PROVE Tagged'
    BY DEF FlushInv
  <1>2. ASSUME hung PROVE FALSE
    <2>1. UNCHANGED hung \/ Hangup
      <3>1. ASSUME NEW c \in Clients, Mount(c) \/ NewCall(c) \/ Kill(c) PROVE UNCHANGED hung
        <4>1. ASSUME Mount(c) PROVE UNCHANGED hung
          BY <4>1 DEF Mount, MountioStep, Flush, Transmit, Gate, Attend, Read, WakeTarget, MntGate, Return, wirevars
        <4>. QED
          BY <3>1, <4>1 DEF NewCall, Call, Transmit, Kill, InterruptClient, wirevars
      <3>2. ASSUME NEW s \in Slaves, Slave(s) \/ Work(s) PROVE UNCHANGED hung
        BY <3>2 DEF Slave, Work, SlaveStep, Take, Dispatch, Fcall, Complete, NextFlush, Finish, wirevars
      <3>3. ASSUME Serve PROVE UNCHANGED hung
        BY <3>3 DEF Serve, ExportprocStep, Enqueue, FlushQueued, FlushStarted, ShutQueued, ShutStarted, wirevars
      <3>4. ASSUME UNCHANGED vars PROVE UNCHANGED hung
        BY <3>4 DEF vars, wirevars
      <3>. QED
        BY <1>1, <3>1, <3>2, <3>3, <3>4 DEF Next, Break
    <2>. QED
      BY <1>1, <1>2, <2>1 DEF Hangup
  <1>3. Sound /\ Tagged /\ RecInv
    BY <1>1, <1>2 DEF Sound, FlushInv, Sides, ServerInv
  <1>4. ASSUME NEW c \in Clients, Mount(c) PROVE Tagged'
    <2>1. MountioStep(c) /\ UNCHANGED evars
      BY <1>4 DEF Mount
    <2>2. UNCHANGED <<epc, ereq, exq, work, rec, spc, job>>
      BY <2>1 DEF evars
    <2>3. CASE Flush(c)
      BY <2>1, <2>3, <1>3, TransmitTags DEF Flush
    <2>4. CASE Gate(c) \/ Attend(c) \/ WakeTarget(c) \/ MntGate(c)
      <3>1. UNCHANGED <<chain, reply, toSrv, toMnt>>
        BY <2>4 DEF Gate, Attend, WakeTarget, MntGate, wirevars
      <3>. QED
        BY <3>1, <2>2, <1>3, QuietTags
    <2>5. CASE Read(c)
      BY <2>1, <2>5, <1>3, ReadTags
    <2>6. CASE Return(c)
      BY <2>1, <2>6, <1>3, AnsweredTags
    <2>. QED
      BY <2>1, <2>3, <2>4, <2>5, <2>6 DEF MountioStep
  <1>5. ASSUME NEW c \in Clients, NewCall(c) PROVE Tagged'
    <2>1. PICK k : k = <<c, ncalls[c] + 1>>
      OBVIOUS
    <2>2. Transmit(c, k, "idle") /\ UNCHANGED evars
      BY <1>5, <2>1 DEF NewCall, Call
    <2>. QED
      BY <2>2, <1>3, TransmitTags
  <1>6. ASSUME NEW c \in Clients, Kill(c) PROVE Tagged'
    <2>1. UNCHANGED <<chain, reply, toSrv, toMnt, epc, ereq, exq, work, rec, spc, job>>
      BY <1>6 DEF Kill, InterruptClient, evars, wirevars
    <2>. QED
      BY <2>1, <1>3, QuietTags
  <1>7. ASSUME NEW s \in Slaves, Slave(s) \/ Work(s) PROVE Tagged'
    <2>1. UNCHANGED mvars /\ (Take(s) \/ Dispatch(s) \/ Fcall(s) \/ Complete(s) \/ NextFlush(s) \/ Finish(s))
      BY <1>7 DEF Slave, Work, SlaveStep
    <2>. QED
      BY <2>1, <1>3, TakeTags, DispatchTags, FcallTags, CompleteTags, NextFlushTags, FinishTags
  <1>8. ASSUME Serve PROVE Tagged'
    <2>1. UNCHANGED mvars /\ (Enqueue \/ FlushQueued \/ FlushStarted \/ ShutQueued \/ ShutStarted)
      BY <1>8 DEF Serve, ExportprocStep
    <2>2. ~ShutQueued /\ ~ShutStarted
      BY <1>2, <1>3 DEF ShutQueued, ShutStarted, EStep, RecInv
    <2>. QED
      BY <2>1, <2>2, <1>3, EnqueueTags, FlushQueuedTags, FlushStartedTags
  <1>9. ~Break
    BY <1>1 DEF Break, Hangup
  <1>10. ASSUME UNCHANGED vars PROVE Tagged'
    <2>1. UNCHANGED <<chain, reply, toSrv, toMnt, epc, ereq, exq, work, rec, spc, job>>
      BY <1>10 DEF vars, evars, mvars, wirevars
    <2>. QED
      BY <2>1, <1>3, QuietTags
  <1>. QED
    BY <1>1, <1>4, <1>5, <1>6, <1>7, <1>8, <1>9, <1>10 DEF Next

\* What is on its way carries a tag that is in use.
LEMMA TaggedHeld ==
  ASSUME Sides, Tagged
  PROVE  InFlight \subseteq Held
  <1>1. ServerTypes /\ SlaveInv /\ RecInv /\ MountTypes /\ Carriers
    BY DEF Sides, ServerInv, MountInv, Tagged
  <1>2. \A t : Used(t) => t \in Held
    <2>1. SUFFICES ASSUME NEW t, Used(t) PROVE \E c \in Clients : t \in Range(chain[c])
      BY DEF Held
    <2>2. \E c \in Clients : \E i \in 1..Len(chain[c]) : chain[c][i] = t
      <3>1. \A c \in Clients : Len(chain[c]) \in Nat /\ (chain[c] # <<>> => 1 \in 1..Len(chain[c]))
        BY <1>1 DEF MountTypes
      <3>2. \A c \in Clients : \A i \in 2..Len(chain[c]) : i \in 1..Len(chain[c])
        BY <3>1
      <3>. QED
        BY <2>1, <3>1, <3>2 DEF Used, Heads, Follows
    <2>3. PICK c \in Clients : In(t, chain[c])
      BY <2>2 DEF In
    <2>4. chain[c] \in Seq(Tags)
      BY <1>1 DEF MountTypes
    <2>. QED
      BY <2>3, <2>4, InRange
  <1>3. \A t, m, a : Place(t, m, a) /\ m # 5 => t \in Held
    BY <1>1, <1>2, PlaceUsed
  <1>4. ASSUME NEW m \in Range(toSrv) \cup Range(toMnt) PROVE m.tag \in Held
    <2>1. /\ m \in Range(toSrv) => \E i \in 1..Len(toSrv) : toSrv[i] = m
          /\ m \in Range(toMnt) => \E i \in 1..Len(toMnt) : toMnt[i] = m
      BY <1>1, InRange DEF ServerTypes, In
    <2>2. \E i : Place(m.tag, 0, i) \/ Place(m.tag, 4, i)
      BY <1>4, <2>1 DEF Place, OnSrv, OnMnt
    <2>. QED
      BY <2>2, <1>3
  <1>5. ASSUME ereq # NoMsg PROVE ereq.tag \in Held
    <2>1. Place(ereq.tag, 2, 0)
      BY <1>1, <1>5 DEF ServerTypes, Place, OnReq
    <2>. QED
      BY <2>1, <1>3
  <1>6. \A k \in Calls : In(k, exq) \/ SomeAt(k, {"dispatch"}) => rec[k].tag \in Held
    <2>1. \A k \in Calls : In(k, exq) \/ SomeAt(k, {"dispatch"}) => Place(rec[k].tag, 1, 0)
      BY DEF Place, OnExq
    <2>. QED
      BY <2>1, <1>3
  <1>7. \A k \in Calls : SomeAt(k, Busy) => rec[k].tag \in Held
    <2>1. \A k \in Calls : SomeAt(k, Busy) => Place(rec[k].tag, 3, 0)
      BY DEF Place, OnJob
    <2>. QED
      BY <2>1, <1>3
  <1>8. ASSUME NEW s \in Slaves, spc[s] \in {"dispatch", "fcall", "complete"} PROVE rec[job[s]].tag \in Held
    <2>1. PICK k : k = job[s]
      OBVIOUS
    <2>2. k \in Calls
      BY <1>1, <1>8, <2>1 DEF SlaveInv, ServerTypes
    <2>3. SomeAt(k, {"dispatch"}) \/ SomeAt(k, Busy)
      BY <1>8, <2>1 DEF SomeAt, At, Busy
    <2>. QED
      BY <2>1, <2>2, <2>3, <1>6, <1>7
  <1>9. ASSUME NEW k \in AtServer, NEW m \in Range(rec[k].flush) PROVE m.tag \in Held
    <2>1. k \in Calls
      <3>1. (\A l \in Range(exq) : In(l, exq)) /\ \A l \in Range(work) : In(l, work)
        BY <1>1, InRange DEF ServerTypes
      <3>2. (\A l : In(l, exq) => l \in Calls) /\ \A l : In(l, work) => l \in Calls
        BY <1>1 DEF ServerTypes, In
      <3>3. \A l \in {job[s] : s \in Slaves} \ {NoCall} : l \in Calls
        BY <1>1 DEF ServerTypes
      <3>. QED
        BY <3>1, <3>2, <3>3 DEF AtServer
    <2>2. rec[k].flush \in Seq(TMessages)
      BY <1>1, <2>1 DEF ServerTypes, ExqRecs
    <2>3. PICK i \in 1..Len(rec[k].flush) : rec[k].flush[i] = m
      BY <2>2, InRange DEF In
    <2>4. Place(m.tag, 3, i)
      BY <2>1, <2>3 DEF Place, OnList
    <2>. QED
      BY <2>4, <1>3
  <1>10. \A k \in Range(exq) : rec[k].tag \in Held
    <2>1. \A k \in Range(exq) : k \in Calls /\ In(k, exq)
      BY <1>1, InRange DEF ServerTypes, In
    <2>. QED
      BY <2>1, <1>6
  <1>. QED
    BY <1>4, <1>5, <1>8, <1>9, <1>10 DEF InFlight

\* While the connection stands a tag stays with its call as long as any message
\* that carries it may still reach the mount driver: the answer to a flush
\* comes after all that the server has to say of the request.
THEOREM TagsOutliveMessages == Spec => []TagDiscipline
  <1>1. Sides /\ FlushInv => TagDiscipline
    BY TaggedHeld DEF FlushInv, TagDiscipline
  <1>. QED
    BY <1>1, InitFlushInv, FlushInductive, SpecSides, PTL DEF Spec

-----------------------------------------------------------------------------
(***************************************************************************)
(* The two sides implement RpcService.                                     *)
(*                                                                         *)
(* Effects and Truthful say when a call may still have its effect, and     *)
(* what a reply tells of it; they hold throughout.  While the connection   *)
(* stands everything that carries a call carries the tag of its request    *)
(* (Carried), and with the order of the tags it follows that the answer a  *)
(* client goes by is its own (Answered).  Once the connection is broken    *)
(* tags are reused and Carried is lost; but no reply is added, and who has *)
(* sent nothing since keeps the answers that were on the way.              *)
(***************************************************************************)

\* The request k is on its way to the server,
Sending(k) == \E i \in 1..Len(toSrv) : toSrv[i].type = "T" /\ toSrv[i].call = k
\* and may yet have its effect: it is on its way, queued or with a slave.
Pending(k) == Sending(k) \/ In(k, exq) \/ SomeAt(k, {"dispatch", "fcall"})
\* The request k has come to nothing, or to an error, and has no effect from now on.
Settled(k) == Made(k) /\ k \notin done /\ ~Pending(k)
\* The request k is with the server and not yet answered.
Active(k) == In(k, exq) \/ SomeAt(k, {"dispatch", "fcall", "complete"})
\* It has been done, and the slave is still at it.
Late == {"complete", "flushes", "remove"}

\* A call that is in progress is the last its client has made.
Outcomes ==
  /\ \A k \in Calls :
       /\ outcome[k] = "none" <=> ~Made(k)
       /\ outcome[k] = "called" <=> k[2] = ncalls[k[1]] /\ chain[k[1]] # <<>>
  /\ \A c \in Clients : chain[c] # <<>> => ncalls[c] > 0

\* Exq.err is set where the request ends in an error; otherwise it is done.
Errors ==
  \A k \in Calls :
    /\ rec[k].err => SomeAt(k, Late)
    /\ SomeAt(k, {"complete"}) => (k \in done <=> ~rec[k].err)

\* A call has its effect once, after it was made and before it is answered, and
\* has had it if it was done.
Effects ==
  /\ performed \in [Calls -> {0, 1}]
  /\ \A k \in Calls :
       /\ k \in done => performed[k] = 1
       /\ outcome[k] = "none" => performed[k] = 0
       /\ Pending(k) => performed[k] = 0 /\ outcome[k] \in {"called", "fail"}

\* A reply tells what became of the call it answers.
Honest(m) ==
  /\ m.type = "R" => m.call \in done
  /\ m.type = "Rerror" => Settled(m.call)
Truthful ==
  /\ \A i \in 1..Len(toMnt) : Honest(toMnt[i])
  /\ \A t \in Tags : Honest(reply[t])

\* t is the tag of the request of the call k.
Named(t, k) == \E c \in Clients : chain[c] # <<>> /\ chain[c][1] = t /\ k = ThisCall(c)
\* The message m is the reply to the request, or to a flush, of a call.
Reply(m) == IF m.type = "Rflush" THEN \E o : Follows(m.tag, o) ELSE Named(m.tag, m.call)
\* The result of the call k is on its way to the client.
OnItsWay(k) == \E i \in 1..Len(toMnt) : toMnt[i].type = "R" /\ toMnt[i].call = k

\* What carries a call carries its tag, and its result is not lost.
Carried ==
  /\ \A i \in 1..Len(toSrv) : toSrv[i].type = "T" => Named(toSrv[i].tag, toSrv[i].call)
  /\ \A k \in Calls : Active(k) => Named(rec[k].tag, k)
  /\ \A i \in 1..Len(toMnt) : Reply(toMnt[i])
  /\ \A t \in Tags : Done(t) => reply[t].tag = t /\ Reply(reply[t])
  /\ \A k \in Calls : \A t : Named(t, k) /\ k \in done => SomeAt(k, {"complete"}) \/ OnItsWay(k) \/ Done(t)

\* The call of c fails, or goes on to fail, because the connection broke.
Doomed(c) == hung /\ cpc[c] \in {"eintr", "fail"}
\* The request of c is answered or has come to nothing.
Decided(c) == Done(chain[c][1]) \/ Settled(ThisCall(c))
\* A reply with a tag of c is the one to its request, or comes when that is
\* decided, or after the one to its request.
OwnReply(c, i) ==
  IF toMnt[i].type = "Rflush"
  THEN /\ toMnt[i].tag # chain[c][1]
       /\ Decided(c) \/ \E j \in 1..(i - 1) : toMnt[j].tag = chain[c][1]
  ELSE toMnt[i].tag = chain[c][1] /\ toMnt[i].call = ThisCall(c)
OwnDone(c, t) ==
  IF reply[t].type = "Rflush" THEN t # chain[c][1] /\ Decided(c)
  ELSE t = chain[c][1] /\ reply[t].call = ThisCall(c)
Answered(c) ==
  /\ \A i \in 1..Len(toMnt) : In(toMnt[i].tag, chain[c]) => OwnReply(c, i)
  /\ \A t \in Tags : In(t, chain[c]) /\ Done(t) => OwnDone(c, t)
AllAnswered == \A c \in Clients : chain[c] # <<>> /\ ~Doomed(c) => Answered(c)

\* All of it.
Calling == Outcomes /\ Errors /\ Effects /\ Truthful
RpcInv == Calling /\ (~hung => Carried) /\ AllAnswered
-----------------------------------------------------------------------------
(* What every step keeps.                                                  *)

\* What has become of the call k is what it was.
AsBefore(k) == performed'[k] = performed[k] /\ (k \in done' <=> k \in done)
\* No call that was made becomes pending, and only a pending one is done.
Onward ==
  /\ \A k \in Calls : Made(k) => Made(k)' /\ (Pending(k)' => Pending(k))
  /\ \A k \in Calls : (k \in done => k \in done') /\ (k \in done' => k \in done \/ Pending(k))

\* What is settled stays so.
LEMMA SettledKeeps ==
  ASSUME Onward
  PROVE  \A k \in Calls : Settled(k) => Settled(k)'
  BY DEF Onward, Settled

\* What was true of a reply stays true.
LEMMA HonestKeeps ==
  ASSUME Onward
  PROVE  /\ \A m \in RMessages : Honest(m) => Honest(m)'
         /\ Honest(NoReply)'
  <1>1. ASSUME NEW m \in RMessages, Honest(m) PROVE Honest(m)'
    <2>1. CASE m.type = "R"
      <3>1. m.call \in Calls /\ m.call \in done /\ m.type # "Rerror"
        BY <1>1, <2>1 DEF Honest, RMessages
      <3>2. m.call \in done'
        BY <3>1 DEF Onward
      <3>. QED
        BY <3>1, <3>2 DEF Honest
    <2>2. CASE m.type = "Rerror"
      <3>1. m.call \in Calls /\ Settled(m.call) /\ m.type # "R"
        BY <1>1, <2>2 DEF Honest, RMessages
      <3>2. Settled(m.call)'
        BY <3>1, SettledKeeps
      <3>. QED
        BY <3>1, <3>2 DEF Honest
    <2>3. CASE m.type \notin {"R", "Rerror"}
      BY <2>3 DEF Honest
    <2>. QED
      BY <2>1, <2>2, <2>3
  <1>2. Honest(NoReply)'
    BY DEF Honest, NoReply
  <1>. QED
    BY <1>1, <1>2

\* A request named by a tag has one.
LEMMA NamedOnce ==
  ASSUME NEW t, NEW u, NEW k, Named(t, k), Named(u, k)
  PROVE  t = u
  BY DEF Named, ThisCall

\* Who has a tag at the head of its chain, has the call that it names.
LEMMA NamedIs ==
  ASSUME MountTypes, TagInv, NEW c \in Clients, chain[c] # <<>>
  PROVE  /\ In(chain[c][1], chain[c]) /\ chain[c][1] \in Tags /\ Named(chain[c][1], ThisCall(c))
         /\ \A t, k : Named(t, k) /\ In(t, chain[c]) => t = chain[c][1] /\ k = ThisCall(c)
         /\ \A t : Named(t, ThisCall(c)) => t = chain[c][1]
  <1>1. \A d \in Clients : chain[d] # <<>> => In(chain[d][1], chain[d]) /\ chain[d][1] \in Tags
    BY DEF MountTypes, In
  <1>2. Named(chain[c][1], ThisCall(c))
    BY DEF Named
  <1>3. ASSUME NEW t, NEW k, Named(t, k), In(t, chain[c]) PROVE t = chain[c][1] /\ k = ThisCall(c)
    <2>1. PICK d \in Clients : chain[d] # <<>> /\ chain[d][1] = t /\ k = ThisCall(d)
      BY <1>3 DEF Named
    <2>2. d = c
      BY <1>1, <1>3, <2>1 DEF TagInv
    <2>. QED
      BY <2>1, <2>2
  <1>4. \A t : Named(t, ThisCall(c)) => t = chain[c][1]
    BY DEF Named, ThisCall
  <1>. QED
    BY <1>1, <1>2, <1>3, <1>4

\* The calls that are numbered.
LEMMA CallIs ==
  ASSUME NEW k \in Calls
  PROVE  k[1] \in Clients /\ k[2] \in 1..MaxCalls /\ k = <<k[1], k[2]>>
  BY DEF Calls

\* The call in progress has been made.
LEMMA ThisCallMade ==
  ASSUME Outcomes, CountInv, NEW c \in Clients, chain[c] # <<>>
  PROVE  ThisCall(c) \in Calls /\ Made(ThisCall(c)) /\ outcome[ThisCall(c)] = "called"
  <1>1. ncalls[c] \in 1..MaxCalls
    BY WireAssumption DEF CountInv, Outcomes
  <1>2. ThisCall(c) \in Calls /\ ThisCall(c)[1] = c /\ ThisCall(c)[2] = ncalls[c]
    BY <1>1 DEF Calls, ThisCall
  <1>. QED
    BY <1>1, <1>2 DEF Outcomes, Made
-----------------------------------------------------------------------------
(* What the steps of the server keep.                                      *)

\* k is read from the connection, and its tag with it.
Arrives(k) == \E i \in 1..Len(toSrv) : toSrv[i].type = "T" /\ toSrv[i].call = k /\ rec'[k].tag = toSrv[i].tag
\* m answers a flush, or says how a request was done.
Tells(m) ==
  IF m.type = "Rflush" THEN \E o : Follows(m.tag, o)
  ELSE /\ m.call \in Calls /\ SomeAt(m.call, {"complete"}) /\ m.tag = rec[m.call].tag
       /\ m.type = IF rec[m.call].err THEN "Rerror" ELSE "R"

\* What the server does, as the calls see it.
Served ==
  /\ \A i \in 1..Len(toSrv') : \E j \in 1..Len(toSrv) : toSrv'[i] = toSrv[j]
  /\ \A k \in Calls : In(k, exq') \/ SomeAt(k, {"dispatch", "fcall"})' => Pending(k)
  /\ performed' \in [Calls -> {0, 1}]
  /\ \A k \in Calls : AsBefore(k) \/ (Pending(k) /\ ~Pending(k)' /\ performed'[k] = 1 /\ SomeAt(k, {"complete"})')
  /\ Errors'
  /\ \A k \in Calls : Active(k)' => (Active(k) /\ rec'[k].tag = rec[k].tag) \/ Arrives(k)
  /\ \A k \in Calls : SomeAt(k, {"complete"}) /\ k \in done /\ ~hung => SomeAt(k, {"complete"})' \/ OnItsWay(k)'
  /\ toMnt' = toMnt \/ (~hung /\ \E m \in RMessages : Tells(m) /\ toMnt' = Append(toMnt, m))

\* A request that has been done is not pending.
LEMMA DoneIsPast ==
  ASSUME CallInv, NEW k \in Calls, SomeAt(k, {"complete"})
  PROVE  Made(k) /\ ~Pending(k)
  <1>1. PICK s \in Slaves : job[s] = k /\ spc[s] = "complete"
    BY DEF SomeAt, At
  <1>2. k # NoCall
    BY CallsAre
  <1>3. Made(k) /\ \A r \in Slaves : job[r] = k => r = s
    BY <1>1, <1>2 DEF CallInv
  <1>4. ~SomeAt(k, {"dispatch", "fcall"})
    BY <1>1, <1>3 DEF SomeAt, At
  <1>5. HasJob(k)
    BY <1>1 DEF HasJob
  <1>. QED
    BY <1>3, <1>4, <1>5 DEF CallInv, Pending, Sending

\* A step of the server that serves the calls keeps what is known of them.
LEMMA ServedKeeps ==
  ASSUME Sides, Calling, ~hung => Carried, Served, UNCHANGED mvars, UNCHANGED hung
  PROVE  Calling' /\ (~hung' => Carried') /\ Onward
  <1>1. /\ Outcomes /\ Errors /\ Effects /\ Truthful /\ CallInv /\ ServerTypes
        /\ UNCHANGED <<outcome, ncalls, chain, reply>>
    BY DEF Calling, Sides, ServerInv, mvars
  <1>2. \A k \in Calls : Pending(k)' => Pending(k)
    <2>1. \A k : Sending(k)' => Sending(k)
      BY DEF Served, Sending
    <2>. QED
      BY <2>1 DEF Served, Pending
  <1>3. Onward
    BY <1>1, <1>2 DEF Onward, Served, Made, AsBefore, Effects
  <1>4. Outcomes'
    BY <1>1 DEF Outcomes, Made
  <1>5. Effects'
    <2>1. ASSUME NEW k \in Calls
          PROVE  /\ k \in done' => performed'[k] = 1
                 /\ outcome'[k] = "none" => performed'[k] = 0
                 /\ Pending(k)' => performed'[k] = 0 /\ outcome'[k] \in {"called", "fail"}
      <3>1. AsBefore(k) \/ (Pending(k) /\ ~Pending(k)' /\ performed'[k] = 1)
        BY DEF Served
      <3>. QED
        BY <3>1, <1>1, <1>2 DEF Effects, AsBefore
    <2>2. performed' \in [Calls -> {0, 1}]
      BY DEF Served
    <2>. QED
      BY <2>1, <2>2 DEF Effects
  <1>6. \A k \in Calls : k \in done => k \in done'
    BY <1>3 DEF Onward
  <1>7. toMnt \in Seq(RMessages)
    BY <1>1 DEF ServerTypes
  <1>8. \A i \in 1..Len(toMnt) : toMnt[i] \in RMessages
    BY <1>7
  <1>9. \A i \in 1..Len(toMnt') : (i \in 1..Len(toMnt) /\ toMnt'[i] = toMnt[i]) \/ (~hung /\ \E m \in RMessages : toMnt'[i] = m /\ Tells(m))
    <2>1. CASE toMnt' = toMnt
      BY <2>1
    <2>2. ASSUME ~hung, NEW m \in RMessages, Tells(m), toMnt' = Append(toMnt, m)
          PROVE  \A i \in 1..Len(toMnt') : (i \in 1..Len(toMnt) /\ toMnt'[i] = toMnt[i]) \/ (toMnt'[i] = m)
      BY <1>7, <2>2, AppendAt
    <2>. QED
      BY <2>1, <2>2 DEF Served
  <1>10. \A i \in 1..Len(toMnt) : i \in 1..Len(toMnt') /\ toMnt'[i] = toMnt[i]
    <2>1. CASE toMnt' = toMnt
      BY <2>1
    <2>2. ASSUME NEW m \in RMessages, toMnt' = Append(toMnt, m)
          PROVE  \A i \in 1..Len(toMnt) : i \in 1..Len(toMnt') /\ toMnt'[i] = toMnt[i]
      BY <1>7, <2>2, AppendAt
    <2>. QED
      BY <2>1, <2>2 DEF Served
  <1>11. \A m \in RMessages : Tells(m) => Honest(m)'
    <2>1. SUFFICES ASSUME NEW m \in RMessages, Tells(m) PROVE Honest(m)'
      OBVIOUS
    <2>2. CASE m.type = "Rflush"
      BY <2>2 DEF Honest
    <2>3. CASE m.type # "Rflush"
      <3>1. /\ m.call \in Calls /\ SomeAt(m.call, {"complete"})
            /\ m.type = IF rec[m.call].err THEN "Rerror" ELSE "R"
        BY <2>1, <2>3 DEF Tells
      <3>2. m.call \in done <=> ~rec[m.call].err
        BY <3>1, <1>1 DEF Errors
      <3>3. Made(m.call) /\ ~Pending(m.call)
        BY <3>1, <1>1, DoneIsPast
      <3>4. m.type = "R" => m.call \in done
        BY <3>1, <3>2
      <3>5. m.type = "Rerror" => Settled(m.call)
        BY <3>1, <3>2, <3>3 DEF Settled
      <3>6. Honest(m)
        BY <3>4, <3>5 DEF Honest
      <3>. QED
        BY <3>6, <1>3, HonestKeeps
    <2>. QED
      BY <2>2, <2>3
  <1>12. Truthful'
    <2>1. \A i \in 1..Len(toMnt') : \E m : m = toMnt'[i] /\ Honest(m)'
      BY <1>1, <1>3, <1>8, <1>9, <1>11, HonestKeeps DEF Truthful
    <2>2. \A t \in Tags : reply[t] \in RMessages \cup {NoReply}
      BY DEF Sides, MountInv, MountTypes
    <2>3. \A t \in Tags : \E m : m = reply'[t] /\ Honest(m)'
      BY <1>1, <1>3, <2>2, HonestKeeps DEF Truthful
    <2>4. (\A i \in 1..Len(toMnt) : Honest(toMnt[i]))'
      BY <2>1
    <2>5. (\A t \in Tags : Honest(reply[t]))'
      BY <2>3
    <2>. QED
      BY <2>4, <2>5 DEF Truthful
  <1>13. Calling'
    BY <1>4, <1>5, <1>12 DEF Calling, Served
  <1>14. \A t, k : Named(t, k)' <=> Named(t, k)
    BY <1>1 DEF Named, ThisCall
  <1>15. \A t, o : Follows(t, o)' <=> Follows(t, o)
    BY <1>1, SameChains
  <1>16. ASSUME ~hung PROVE Carried'
    <2>1. Carried
      BY <1>16
    <2>2. (\A i \in 1..Len(toSrv) : toSrv[i].type = "T" => Named(toSrv[i].tag, toSrv[i].call))'
      <3>1. SUFFICES ASSUME NEW i \in 1..Len(toSrv'), toSrv'[i].type = "T"
                     PROVE  (Named(toSrv[i].tag, toSrv[i].call))'
        OBVIOUS
      <3>2. PICK j \in 1..Len(toSrv) : toSrv'[i] = toSrv[j]
        BY DEF Served
      <3>3. PICK m : m = toSrv[j]
        OBVIOUS
      <3>4. Named(m.tag, m.call)
        BY <2>1, <3>1, <3>2, <3>3 DEF Carried
      <3>5. Named(m.tag, m.call)'
        BY <3>4, <1>14
      <3>. QED
        BY <3>2, <3>3, <3>5
    <2>3. (\A k \in Calls : Active(k) => Named(rec[k].tag, k))'
      <3>1. SUFFICES ASSUME NEW k \in Calls, Active(k)' PROVE (Named(rec[k].tag, k))'
        OBVIOUS
      <3>2. PICK x : x = rec'[k].tag
        OBVIOUS
      <3>3. Named(x, k)
        BY <2>1, <3>1, <3>2 DEF Carried, Served, Arrives
      <3>4. Named(x, k)'
        BY <3>3, <1>14
      <3>. QED
        BY <3>2, <3>4
    <2>4. \A m \in RMessages : Reply(m) => Reply(m)'
      BY <1>14, <1>15 DEF Reply
    <2>5. \A m \in RMessages : Tells(m) => Reply(m)
      <3>1. SUFFICES ASSUME NEW m \in RMessages, Tells(m), m.type # "Rflush" PROVE Named(m.tag, m.call)
        BY DEF Tells, Reply
      <3>2. m.call \in Calls /\ SomeAt(m.call, {"complete"}) /\ m.tag = rec[m.call].tag
        BY <3>1 DEF Tells
      <3>3. Active(m.call)
        BY <3>2 DEF Active, SomeAt, At
      <3>. QED
        BY <3>2, <3>3, <2>1 DEF Carried
    <2>6. (\A i \in 1..Len(toMnt) : Reply(toMnt[i]))'
      <3>1. \A i \in 1..Len(toMnt') : \E m : m = toMnt'[i] /\ Reply(m)'
        BY <1>8, <1>9, <2>1, <2>4, <2>5 DEF Carried
      <3>. QED
        BY <3>1
    <2>7. (\A t \in Tags : Done(t) => reply[t].tag = t /\ Reply(reply[t]))'
      <3>1. \A t \in Tags : (Done(t)' <=> Done(t)) /\ reply'[t] = reply[t]
        BY <1>1 DEF Done
      <3>2. \A t \in Tags : Done(t) => reply[t] \in RMessages
        BY DEF Done, Sides, MountInv, MountTypes
      <3>3. \A t \in Tags : Done(t)' => \E m : m = reply'[t] /\ m.tag = t /\ Reply(m)'
        BY <3>1, <3>2, <2>1, <2>4 DEF Carried
      <3>. QED
        BY <3>3
    <2>8. ASSUME NEW k \in Calls, NEW t, Named(t, k)', k \in done'
          PROVE  SomeAt(k, {"complete"})' \/ OnItsWay(k)' \/ Done(t)'
      <3>1. Named(t, k) /\ (Done(t)' <=> Done(t))
        BY <2>8, <1>1, <1>14 DEF Done
      <3>2. CASE k \in done
        <4>1. SomeAt(k, {"complete"}) \/ OnItsWay(k) \/ Done(t)
          BY <3>1, <3>2, <2>1 DEF Carried
        <4>2. OnItsWay(k) => OnItsWay(k)'
          BY <1>10 DEF OnItsWay
        <4>3. SomeAt(k, {"complete"}) => SomeAt(k, {"complete"})' \/ OnItsWay(k)'
          BY <3>2, <1>16 DEF Served
        <4>. QED
          BY <3>1, <4>1, <4>2, <4>3
      <3>3. CASE k \notin done
        BY <2>8, <3>3 DEF Served, AsBefore
      <3>. QED
        BY <3>2, <3>3
    <2>. QED
      BY <2>2, <2>3, <2>6, <2>7, <2>8 DEF Carried
  <1>. QED
    BY <1>1, <1>3, <1>13, <1>16

\* A step that has no effect of a call.
LEMMA StillServed ==
  ASSUME Errors, Effects, UNCHANGED <<performed, done>>,
         \A i \in 1..Len(toSrv') : \E j \in 1..Len(toSrv) : toSrv'[i] = toSrv[j],
         \A k \in Calls : In(k, exq') \/ SomeAt(k, {"dispatch", "fcall"})' => Pending(k),
         \A k \in Calls : rec'[k].err => rec[k].err /\ SomeAt(k, Late)',
         \A k \in Calls : SomeAt(k, {"complete"})' => SomeAt(k, {"complete"}) /\ rec'[k].err = rec[k].err,
         \A k \in Calls : Active(k)' => (Active(k) /\ rec'[k].tag = rec[k].tag) \/ Arrives(k),
         \A k \in Calls : SomeAt(k, {"complete"}) /\ k \in done /\ ~hung => SomeAt(k, {"complete"})' \/ OnItsWay(k)',
         toMnt' = toMnt \/ (~hung /\ \E m \in RMessages : Tells(m) /\ toMnt' = Append(toMnt, m))
  PROVE  Served
  <1>1. Errors'
    BY DEF Errors
  <1>2. performed' \in [Calls -> {0, 1}]
    BY DEF Effects
  <1>3. \A k \in Calls : AsBefore(k)
    BY DEF AsBefore
  <1>. QED
    BY <1>1, <1>2, <1>3 DEF Served

\* No slave moves, and what is queued or with one keeps what it holds.
LEMMA QuietServed ==
  ASSUME Errors, Effects, UNCHANGED <<performed, done, spc, job>>,
         \A i \in 1..Len(toSrv') : \E j \in 1..Len(toSrv) : toSrv'[i] = toSrv[j],
         \A k \in Calls : In(k, exq') => (In(k, exq) /\ rec'[k].tag = rec[k].tag) \/ Arrives(k),
         \A k \in Calls : rec'[k].err => rec[k].err,
         \A k \in Calls : HasJob(k) => rec'[k].err = rec[k].err /\ rec'[k].tag = rec[k].tag,
         toMnt' = toMnt \/ (~hung /\ \E m \in RMessages : Tells(m) /\ toMnt' = Append(toMnt, m))
  PROVE  Served
  <1>1. \A k : \A C : SomeAt(k, C)' <=> SomeAt(k, C)
    BY DEF SomeAt, At
  <1>2. \A k : \A C : SomeAt(k, C) => HasJob(k)
    BY DEF SomeAt, At, HasJob
  <1>3. \A k \in Calls : In(k, exq') \/ SomeAt(k, {"dispatch", "fcall"})' => Pending(k)
    BY <1>1 DEF Pending, Sending, Arrives
  <1>4. \A k \in Calls : rec'[k].err => rec[k].err /\ SomeAt(k, Late)'
    BY <1>1 DEF Errors
  <1>5. \A k \in Calls : SomeAt(k, {"complete"})' => SomeAt(k, {"complete"}) /\ rec'[k].err = rec[k].err
    BY <1>1, <1>2
  <1>6. \A k \in Calls : Active(k)' => (Active(k) /\ rec'[k].tag = rec[k].tag) \/ Arrives(k)
    BY <1>1, <1>2 DEF Active
  <1>. QED
    BY <1>1, <1>3, <1>4, <1>5, <1>6, StillServed

\* The reply to a flush.
LEMMA FlushReplied ==
  ASSUME NEW m \in TMessages, m.type = "Tflush", ~hung => Names(m), Exreply(Rflush(m))
  PROVE  toMnt' = toMnt \/ (~hung /\ \E r \in RMessages : Tells(r) /\ toMnt' = Append(toMnt, r))
  <1>1. Rflush(m) \in RMessages /\ Rflush(m).type = "Rflush" /\ ~hung => Tells(Rflush(m))
    BY RflushIs DEF Tells, Rflush
  <1>. QED
    BY <1>1, RflushIs DEF Exreply, Rflush

\* exportproc reads a request: it is pending as before.
LEMMA EnqueueServed ==
  ASSUME ServerTypes, CallInv, Errors, Effects, Enqueue
  PROVE  Served
  <1>1. PICK m : m = Head(toSrv)
    OBVIOUS
  <1>2. /\ toSrv # <<>> /\ m.type = "T" /\ toSrv' = Tail(toSrv) /\ rec' = [rec EXCEPT ![m.call].tag = m.tag]
        /\ exq' = exq \/ exq' = Append(exq, m.call)
        /\ UNCHANGED <<spc, job, performed, done, toMnt>>
    BY <1>1 DEF Enqueue
  <1>3. /\ m.call \in Calls /\ ~HasJob(m.call) /\ m \in TMessages
        /\ m = toSrv[1] /\ 1 \in 1..Len(toSrv)
        /\ \A i \in 1..Len(toSrv') : \E j \in 1..Len(toSrv) : toSrv'[i] = toSrv[j]
    BY <1>1, <1>2, OneAtATime, TailAt DEF ServerTypes
  <1>4. exq \in Seq(Calls) /\ rec \in [Calls -> ExqRecs] /\ rec[m.call] \in ExqRecs
    BY <1>3 DEF ServerTypes
  <1>5. \A k \in Calls : /\ rec'[k].err = rec[k].err
                         /\ rec'[k].tag = IF k = m.call THEN m.tag ELSE rec[k].tag
    BY <1>2, <1>3, <1>4 DEF ExqRecs
  <1>6. Arrives(m.call)
    BY <1>2, <1>3, <1>5 DEF Arrives
  <1>7. \A k \in Calls : In(k, exq') => In(k, exq) \/ k = m.call
    BY <1>2, <1>3, <1>4, AppendIn
  <1>. QED
    BY <1>2, <1>3, <1>5, <1>6, <1>7, QuietServed

\* A flush of a queued request: it will have no effect now.
LEMMA FlushQueuedServed ==
  ASSUME ServerTypes, CallInv, ~hung => Carriers, Errors, Effects, FlushQueued
  PROVE  Served
  <1>1. PICK m, f : m = Head(toSrv) /\ f = WithTag(exq, m.oldtag)
    OBVIOUS
  <1>2. /\ toSrv # <<>> /\ m.type = "Tflush" /\ toSrv' = Tail(toSrv)
        /\ UNCHANGED <<spc, job, performed, done>>
        /\ \/ /\ f # <<>> /\ exq' = Without(exq, {Head(f)})
              /\ rec' = [rec EXCEPT ![Head(f)] = BlankExq] /\ Exreply(Rflush(m))
           \/ UNCHANGED <<exq, rec, toMnt>>
    BY <1>1 DEF FlushQueued
  <1>3. toSrv \in Seq(TMessages) /\ m \in TMessages /\ m = toSrv[1] /\ 1 \in 1..Len(toSrv)
    BY <1>1, <1>2, TailAt DEF ServerTypes
  <1>4. \A i \in 1..Len(toSrv') : \E j \in 1..Len(toSrv) : toSrv'[i] = toSrv[j]
    BY <1>2, <1>3, TailAt
  <1>5. toMnt' = toMnt \/ (~hung /\ \E r \in RMessages : Tells(r) /\ toMnt' = Append(toMnt, r))
    <2>1. ~hung => Names(m)
      BY <1>3 DEF Carriers
    <2>. QED
      BY <1>2, <1>3, <2>1, FlushReplied
  <1>6. exq \in Seq(Calls) /\ rec \in [Calls -> ExqRecs]
    BY DEF ServerTypes
  <1>7. CASE f # <<>> /\ exq' = Without(exq, {Head(f)}) /\ rec' = [rec EXCEPT ![Head(f)] = BlankExq]
    <2>1. Head(f) \in Calls /\ In(Head(f), exq)
      BY <1>1, <1>6, <1>7, WithoutHead DEF WithTag
    <2>2. \A x : In(x, exq') <=> x # Head(f) /\ In(x, exq)
      BY <1>6, <1>7, WithoutIn
    <2>3. ~HasJob(Head(f))
      BY <2>1 DEF CallInv
    <2>4. \A k \in Calls : rec'[k] = IF k = Head(f) THEN BlankExq ELSE rec[k]
      BY <1>6, <1>7, <2>1
    <2>. QED
      BY <1>2, <1>4, <1>5, <2>2, <2>3, <2>4, QuietServed DEF BlankExq
  <1>8. CASE UNCHANGED <<exq, rec, toMnt>>
    BY <1>2, <1>4, <1>8, QuietServed
  <1>. QED
    BY <1>2, <1>7, <1>8

\* A change to one of the other fields of an Exq.
LEMMA OtherField ==
  ASSUME ServerTypes, NEW k \in Calls, NEW x,
         rec' = [rec EXCEPT ![k].flush = x] \/ rec' = [rec EXCEPT ![k].finished = x]
  PROVE  \A l \in Calls : rec'[l].err = rec[l].err /\ rec'[l].tag = rec[l].tag
  <1>1. rec \in [Calls -> ExqRecs] /\ rec[k] \in ExqRecs
    BY DEF ServerTypes
  <1>2. \A l \in Calls \ {k} : rec'[l] = rec[l]
    BY <1>1
  <1>3. CASE rec' = [rec EXCEPT ![k].flush = x]
    <2>1. rec'[k] = [rec[k] EXCEPT !.flush = x]
      BY <1>1, <1>3
    <2>. QED
      BY <1>1, <1>2, <2>1 DEF ExqRecs
  <1>4. CASE rec' = [rec EXCEPT ![k].finished = x]
    <2>1. rec'[k] = [rec[k] EXCEPT !.finished = x]
      BY <1>1, <1>4
    <2>. QED
      BY <1>1, <1>2, <2>1 DEF ExqRecs
  <1>. QED
    BY <1>3, <1>4

\* A flush of a request in progress, or of one that is past: it stays where it is.
LEMMA FlushStartedServed ==
  ASSUME ServerTypes, CallInv, ~hung => Carriers, Errors, Effects, FlushStarted
  PROVE  Served
  <1>1. PICK f, k : f = WithTag(work, ereq.oldtag) /\ k = Head(f)
    OBVIOUS
  <1>2. /\ epc = "flush" /\ UNCHANGED <<spc, job, performed, done, toSrv, exq>>
        /\ \/ f # <<>> /\ rec' = [rec EXCEPT ![k].flush = Append(@, ereq)] /\ toMnt' = toMnt
           \/ Exreply(Rflush(ereq)) /\ rec' = rec
    BY <1>1 DEF FlushStarted, EStep
  <1>3. ereq \in TMessages /\ ereq.type = "Tflush" /\ (~hung => Names(ereq))
    BY <1>2 DEF ServerTypes, Carriers
  <1>4. toMnt' = toMnt \/ (~hung /\ \E r \in RMessages : Tells(r) /\ toMnt' = Append(toMnt, r))
    BY <1>2, <1>3, FlushReplied
  <1>5. \A l \in Calls : rec'[l].err = rec[l].err /\ rec'[l].tag = rec[l].tag
    <2>1. f # <<>> => k \in Calls
      BY <1>1, WithoutHead DEF WithTag, ServerTypes
    <2>. QED
      BY <1>2, <2>1, OtherField
  <1>6. \A i \in 1..Len(toSrv') : \E j \in 1..Len(toSrv) : toSrv'[i] = toSrv[j]
    BY <1>2
  <1>. QED
    BY <1>2, <1>4, <1>5, <1>6, QuietServed

\* The shut down discards what is queued.
LEMMA ShutQueuedServed ==
  ASSUME ServerTypes, CallInv, Errors, Effects, ShutQueued
  PROVE  Served
  <1>1. /\ exq' = <<>> /\ rec' = [k \in Calls |-> IF k \in Range(exq) THEN BlankExq ELSE rec[k]]
        /\ UNCHANGED <<spc, job, performed, done, toSrv, toMnt>>
    BY DEF ShutQueued, wirevars
  <1>2. \A k \in Calls : k \in Range(exq) => ~HasJob(k)
    BY InRange DEF ServerTypes, CallInv
  <1>3. \A i \in 1..Len(toSrv') : \E j \in 1..Len(toSrv) : toSrv'[i] = toSrv[j]
    BY <1>1
  <1>4. \A x : ~In(x, exq')
    BY <1>1, EmptyIn
  <1>. QED
    BY <1>1, <1>2, <1>3, <1>4, QuietServed DEF BlankExq

\* The shut down marks what is in progress.
LEMMA ShutStartedServed ==
  ASSUME ServerTypes, CallInv, Errors, Effects, ShutStarted
  PROVE  Served
  <1>1. /\ rec' = [k \in Calls |-> IF k \in Range(work) THEN [rec[k] EXCEPT !.shut = TRUE] ELSE rec[k]]
        /\ UNCHANGED <<spc, job, performed, done, toSrv, toMnt, exq>>
    BY DEF ShutStarted, wirevars
  <1>2. \A k \in Calls : rec[k] \in ExqRecs
    BY DEF ServerTypes
  <1>3. \A k \in Calls : rec'[k].err = rec[k].err /\ rec'[k].tag = rec[k].tag
    BY <1>1, <1>2 DEF ExqRecs
  <1>4. \A i \in 1..Len(toSrv') : \E j \in 1..Len(toSrv) : toSrv'[i] = toSrv[j]
    BY <1>1
  <1>. QED
    BY <1>1, <1>3, <1>4, QuietServed

\* A slave goes on with its request; no call has its effect in the step.
LEMMA MoveServed ==
  ASSUME ServerTypes, CallInv, SlaveInv, Errors, Effects, NEW s \in Slaves, NEW a, NEW b,
         a # "wait", b # "complete", Moves(s, a, b), job' = job, NEW k, k = job[s],
         b \in {"dispatch", "fcall"} => a \in {"dispatch", "fcall"}, a \in Late => b \in Late,
         UNCHANGED <<toSrv, exq, performed, done>>,
         \A l \in Calls : rec'[l].err = rec[l].err /\ rec'[l].tag = rec[l].tag,
         a = "complete" /\ k \in done /\ ~hung => OnItsWay(k)',
         toMnt' = toMnt \/ (~hung /\ \E m \in RMessages : Tells(m) /\ toMnt' = Append(toMnt, m))
  PROVE  Served
  <1>1. /\ k \in Calls /\ ~In(k, exq)
        /\ \A C : (SomeAt(k, C) <=> a \in C) /\ (SomeAt(k, C)' <=> b \in C)
        /\ \A l : l # k => (\A C : SomeAt(l, C)' <=> SomeAt(l, C))
    BY SlaveAt
  <1>2. \A l \in Calls : In(l, exq') \/ SomeAt(l, {"dispatch", "fcall"})' => Pending(l)
    BY <1>1 DEF Pending
  <1>3. \A l \in Calls : rec'[l].err => rec[l].err /\ SomeAt(l, Late)'
    BY <1>1 DEF Errors
  <1>4. \A l \in Calls : SomeAt(l, {"complete"})' => SomeAt(l, {"complete"}) /\ rec'[l].err = rec[l].err
    BY <1>1
  <1>5. \A l \in Calls : Active(l)' => (Active(l) /\ rec'[l].tag = rec[l].tag) \/ Arrives(l)
    <2>1. ASSUME NEW l \in Calls, Active(l)' PROVE Active(l)
      <3>1. In(l, exq) \/ SomeAt(l, {"dispatch", "fcall", "complete"})'
        BY <2>1 DEF Active
      <3>2. b \in {"dispatch", "fcall", "complete"} => a \in {"dispatch", "fcall", "complete"}
        OBVIOUS
      <3>. QED
        BY <3>1, <3>2, <1>1 DEF Active
    <2>. QED
      BY <2>1
  <1>6. \A l \in Calls : SomeAt(l, {"complete"}) /\ l \in done /\ ~hung => SomeAt(l, {"complete"})' \/ OnItsWay(l)'
    BY <1>1
  <1>7. \A i \in 1..Len(toSrv') : \E j \in 1..Len(toSrv) : toSrv'[i] = toSrv[j]
    OBVIOUS
  <1>. QED
    BY <1>2, <1>3, <1>4, <1>5, <1>6, <1>7, StillServed

\* A slave goes on with its request.
LEMMA DispatchServed ==
  ASSUME ServerTypes, CallInv, SlaveInv, Errors, Effects, NEW s \in Slaves, Dispatch(s)
  PROVE  Served
  <1>1. PICK k : k = job[s]
    OBVIOUS
  <1>2. /\ Moves(s, "dispatch", "fcall") /\ job' = job /\ UNCHANGED <<toSrv, toMnt, exq, performed, done>>
        /\ rec' = [rec EXCEPT ![k].slave = s, ![k].busy = TRUE]
    BY <1>1, SlaveMoves DEF Dispatch, wirevars, SPC
  <1>3. k \in Calls
    BY <1>1, <1>2, SlaveAt
  <1>4. \A l \in Calls : rec'[l].err = rec[l].err /\ rec'[l].tag = rec[l].tag
    <2>1. rec \in [Calls -> ExqRecs] /\ rec[k] \in ExqRecs
      BY <1>3 DEF ServerTypes
    <2>. QED
      BY <2>1, <1>2 DEF ExqRecs
  <1>5. /\ "dispatch" \notin Late
        /\ UNCHANGED <<toSrv, exq, performed, done>> /\ toMnt' = toMnt
    BY <1>2 DEF Late
  <1>. QED
    BY <1>1, <1>2, <1>4, <1>5, MoveServed

\* A slave answers its request with what became of it.
LEMMA CompleteServed ==
  ASSUME ServerTypes, CallInv, SlaveInv, RecInv, Errors, Effects, NEW s \in Slaves, Complete(s)
  PROVE  Served
  <1>1. PICK k : k = job[s]
    OBVIOUS
  <1>. DEFINE r == [type |-> IF rec[k].err THEN "Rerror" ELSE "R", tag |-> rec[k].tag, call |-> k]
  <1>2. /\ Moves(s, "complete", "flushes") /\ job' = job /\ UNCHANGED <<toSrv, exq, performed, done>>
        /\ rec' = [rec EXCEPT ![k].busy = FALSE]
        /\ IF Answers(rec[k]) THEN Exreply(r) ELSE toMnt' = toMnt
    BY <1>1, SlaveMoves DEF Complete, wirevars, SPC
  <1>3. k \in Calls /\ SomeAt(k, {"complete"})
    BY <1>1, <1>2, SlaveAt
  <1>4. rec \in [Calls -> ExqRecs] /\ rec[k] \in ExqRecs /\ toMnt \in Seq(RMessages)
    BY <1>3 DEF ServerTypes
  <1>5. \A l \in Calls : rec'[l].err = rec[l].err /\ rec'[l].tag = rec[l].tag
    BY <1>2, <1>4 DEF ExqRecs
  <1>6. r \in RMessages /\ Tells(r)
    BY <1>3, <1>4 DEF RMessages, ExqRecs, Tells
  <1>7. toMnt' = toMnt \/ (~hung /\ \E m \in RMessages : Tells(m) /\ toMnt' = Append(toMnt, m))
    BY <1>2, <1>6 DEF Exreply
  <1>8. k \in done /\ ~hung => OnItsWay(k)'
    <2>1. SUFFICES ASSUME k \in done, ~hung PROVE OnItsWay(k)'
      OBVIOUS
    <2>2. ~rec[k].err /\ ~rec[k].shut
      BY <1>3, <2>1 DEF Errors, RecInv
    <2>3. toMnt' = Append(toMnt, r) /\ r.type = "R" /\ r.call = k
      BY <1>2, <2>1, <2>2 DEF Exreply, Answers
    <2>. HIDE DEF r
    <2>4. Len(toMnt') = Len(toMnt) + 1 /\ toMnt'[Len(toMnt) + 1] = r /\ Len(toMnt) \in Nat
      BY <1>4, <1>6, <2>3, AppendAt
    <2>5. Len(toMnt) + 1 \in 1..Len(toMnt')
      BY <2>4
    <2>. QED
      BY <2>3, <2>4, <2>5 DEF OnItsWay
  <1>. QED
    BY <1>1, <1>2, <1>5, <1>7, <1>8, MoveServed DEF Late

\* A slave answers a flush.
LEMMA NextFlushServed ==
  ASSUME ServerTypes, CallInv, SlaveInv, ~hung => Carriers, Errors, Effects, NEW s \in Slaves, NextFlush(s)
  PROVE  Served
  <1>1. PICK k, m : k = job[s] /\ m = Head(rec[k].flush)
    OBVIOUS
  <1>2. PICK b \in {"flushes", "remove"} :
          /\ Moves(s, "flushes", b) /\ job' = job /\ UNCHANGED <<toSrv, exq, performed, done>>
          /\ \/ rec[k].flush # <<>> /\ rec' = [rec EXCEPT ![k].flush = Tail(@)] /\ Exreply(Rflush(m))
             \/ rec' = [rec EXCEPT ![k].finished = TRUE] /\ toMnt' = toMnt
    BY <1>1, SlaveMoves DEF NextFlush, SPC
  <1>3. k \in Calls
    BY <1>1, <1>2, SlaveAt
  <1>4. rec \in [Calls -> ExqRecs] /\ rec[k] \in ExqRecs
    BY <1>3 DEF ServerTypes
  <1>5. \A l \in Calls : rec'[l].err = rec[l].err /\ rec'[l].tag = rec[l].tag
    BY <1>2, <1>3, OtherField
  <1>6. rec[k].flush # <<>> => m \in TMessages /\ (~hung => \E o : Follows(m.tag, o))
    <2>1. SUFFICES ASSUME rec[k].flush # <<>> PROVE m \in TMessages /\ (~hung => \E o : Follows(m.tag, o))
      OBVIOUS
    <2>2. rec[k].flush \in Seq(TMessages)
      BY <1>4 DEF ExqRecs
    <2>3. m = rec[k].flush[1] /\ 1 \in 1..Len(rec[k].flush) /\ m \in TMessages
      BY <1>1, <2>1, <2>2, TailAt
    <2>4. OnList(m.tag, k, 1)
      BY <1>3, <2>3 DEF OnList
    <2>. QED
      BY <2>3, <2>4 DEF Carriers
  <1>7. toMnt' = toMnt \/ (~hung /\ \E r \in RMessages : Tells(r) /\ toMnt' = Append(toMnt, r))
    <2>1. rec[k].flush # <<>> => Rflush(m) \in RMessages /\ (~hung => Tells(Rflush(m)))
      <3>1. rec[k].flush # <<>> => m.tag \in Tags
        BY <1>6 DEF TMessages
      <3>. QED
        BY <3>1, <1>6 DEF Rflush, RMessages, Tells
    <2>. QED
      BY <2>1, <1>2 DEF Exreply
  <1>. QED
    BY <1>1, <1>2, <1>5, <1>7, MoveServed DEF Late

\* A request is given to a slave that has none.
LEMMA TakeServed ==
  ASSUME ServerTypes, CallInv, SlaveInv, KillHitsItsRequest, Errors, Effects, NEW s \in Slaves, Take(s)
  PROVE  Served
  <1>1. UNCHANGED <<rec, performed, done, toSrv, toMnt>>
    BY DEF Take, wirevars
  <1>2. /\ exq # <<>> /\ Moves(s, "wait", "dispatch") /\ job' = [job EXCEPT ![s] = Head(exq)] /\ exq' = Tail(exq)
    <2>1. killed[s] => spc[s] # "wait"
      BY DEF KillHitsItsRequest
    <2>. QED
      BY <2>1, SlaveMoves DEF Take, SStep, Hold, SPC
  <1>3. /\ Head(exq) \in Calls /\ In(Head(exq), exq) /\ \A l : In(l, exq') => In(l, exq)
    BY <1>2, TailIn DEF ServerTypes, CallInv
  <1>4. /\ \A r \in Slaves : r # s => job'[r] = job[r] /\ spc'[r] = spc[r]
        /\ job'[s] = Head(exq) /\ spc'[s] = "dispatch" /\ job[s] = NoCall /\ \A l \in Calls : l # NoCall
    BY <1>2, CallsAre DEF ServerTypes, Moves, SlaveInv
  <1>5. ASSUME NEW l \in Calls, NEW C
        PROVE  /\ SomeAt(l, C)' => SomeAt(l, C) \/ (l = Head(exq) /\ "dispatch" \in C)
               /\ SomeAt(l, C) => SomeAt(l, C)'
    BY <1>4 DEF SomeAt, At
  <1>6. \A l \in Calls : In(l, exq') \/ SomeAt(l, {"dispatch", "fcall"})' => Pending(l)
    BY <1>3, <1>5 DEF Pending
  <1>7. \A l \in Calls : rec'[l].err => rec[l].err /\ SomeAt(l, Late)'
    BY <1>1, <1>5 DEF Errors
  <1>8. \A l \in Calls : SomeAt(l, {"complete"})' => SomeAt(l, {"complete"}) /\ rec'[l].err = rec[l].err
    BY <1>1, <1>5
  <1>9. \A l \in Calls : Active(l)' => (Active(l) /\ rec'[l].tag = rec[l].tag) \/ Arrives(l)
    BY <1>1, <1>3, <1>5 DEF Active
  <1>10. \A l \in Calls : SomeAt(l, {"complete"}) /\ l \in done /\ ~hung => SomeAt(l, {"complete"})' \/ OnItsWay(l)'
    BY <1>5
  <1>11. \A i \in 1..Len(toSrv') : \E j \in 1..Len(toSrv) : toSrv'[i] = toSrv[j]
    BY <1>1
  <1>. QED
    BY <1>1, <1>6, <1>7, <1>8, <1>9, <1>10, <1>11, StillServed

\* The Exq is freed.
LEMMA FinishServed ==
  ASSUME ServerTypes, CallInv, SlaveInv, Errors, Effects, NEW s \in Slaves, Finish(s)
  PROVE  Served
  <1>1. PICK k : k = job[s]
    OBVIOUS
  <1>2. /\ UNCHANGED <<performed, done, toSrv, toMnt, exq>> /\ Moves(s, "remove", "wait")
        /\ rec' = [rec EXCEPT ![k] = BlankExq] /\ job' = [job EXCEPT ![s] = NoCall]
    BY <1>1, SlaveMoves DEF Finish, wirevars, SPC
  <1>3. /\ k \in Calls /\ ~In(k, exq) /\ \A r \in Slaves : job[r] = k => r = s
    BY <1>1, <1>2, OneSlave DEF Moves
  <1>4. \A r \in Slaves : /\ job'[r] = IF r = s THEN NoCall ELSE job[r]
                          /\ spc'[r] = IF r = s THEN "wait" ELSE spc[r]
    BY <1>2 DEF ServerTypes, Moves
  <1>5. ASSUME NEW l \in Calls, NEW C
        PROVE  /\ SomeAt(l, C)' => SomeAt(l, C) /\ l # k
               /\ SomeAt(l, C) /\ l # k => SomeAt(l, C)'
               /\ SomeAt(k, C) => "remove" \in C
    BY <1>1, <1>2, <1>3, <1>4, CallsAre DEF SomeAt, At, Moves
  <1>6. \A l \in Calls : rec'[l] = IF l = k THEN BlankExq ELSE rec[l]
    BY <1>2, <1>3 DEF ServerTypes
  <1>7. \A l \in Calls : In(l, exq') \/ SomeAt(l, {"dispatch", "fcall"})' => Pending(l)
    BY <1>2, <1>5 DEF Pending
  <1>8. \A l \in Calls : rec'[l].err => rec[l].err /\ SomeAt(l, Late)'
    BY <1>5, <1>6 DEF Errors, BlankExq
  <1>9. \A l \in Calls : SomeAt(l, {"complete"})' => SomeAt(l, {"complete"}) /\ rec'[l].err = rec[l].err
    BY <1>5, <1>6
  <1>10. \A l \in Calls : Active(l)' => (Active(l) /\ rec'[l].tag = rec[l].tag) \/ Arrives(l)
    BY <1>2, <1>3, <1>5, <1>6 DEF Active
  <1>11. \A l \in Calls : SomeAt(l, {"complete"}) /\ l \in done /\ ~hung => SomeAt(l, {"complete"})' \/ OnItsWay(l)'
    BY <1>5
  <1>12. \A i \in 1..Len(toSrv') : \E j \in 1..Len(toSrv) : toSrv'[i] = toSrv[j]
    BY <1>2
  <1>. QED
    BY <1>2, <1>7, <1>8, <1>9, <1>10, <1>11, <1>12, StillServed

\* A call has its effect: it is done, or ends in an error.
Performs ==
  \E k \in Calls :
    /\ performed[k] = 0 /\ outcome[k] \in {"called", "fail"}
    /\ performed' = [performed EXCEPT ![k] = 1] /\ done' \in {done, done \cup {k}}

\* The request has its effect, once, or none.
LEMMA FcallServed ==
  ASSUME ServerTypes, CallInv, SlaveInv, Errors, Effects, NEW s \in Slaves, Fcall(s)
  PROVE  Served /\ (UNCHANGED <<performed, done>> \/ Performs)
  <1>1. PICK k : k = job[s]
    OBVIOUS
  <1>2. /\ UNCHANGED <<exq, job, toSrv, toMnt>> /\ Moves(s, "fcall", "complete")
        /\ \/ performed' = [performed EXCEPT ![k] = @ + 1] /\ done' = done \cup {k} /\ rec' = rec
           \/ /\ performed' \in {performed, [performed EXCEPT ![k] = @ + 1]} /\ done' = done
              /\ rec' = [rec EXCEPT ![k].err = TRUE]
    BY <1>1, SlaveMoves DEF Fcall, wirevars, SPC
  <1>3. /\ k \in Calls /\ ~In(k, exq)
        /\ \A C : (SomeAt(k, C) <=> "fcall" \in C) /\ (SomeAt(k, C)' <=> "complete" \in C)
        /\ \A l : l # k => (\A C : SomeAt(l, C)' <=> SomeAt(l, C))
    BY <1>1, <1>2, SlaveAt
  <1>4. Pending(k) /\ performed[k] = 0 /\ k \notin done /\ outcome[k] \in {"called", "fail"}
    BY <1>3 DEF Pending, Effects
  <1>5. ~rec[k].err
    BY <1>3 DEF Errors, Late
  <1>6. /\ performed \in [Calls -> {0, 1}] /\ rec \in [Calls -> ExqRecs] /\ rec[k] \in ExqRecs
    BY <1>3 DEF Effects, ServerTypes
  <1>7. \/ performed' = [performed EXCEPT ![k] = 1] /\ done' = done \cup {k} /\ rec' = rec
        \/ /\ performed' \in {performed, [performed EXCEPT ![k] = 1]} /\ done' = done
           /\ rec' = [rec EXCEPT ![k].err = TRUE]
    <2>1. [performed EXCEPT ![k] = performed[k] + 1] = [performed EXCEPT ![k] = 1]
      BY <1>4
    <2>. QED
      BY <1>2, <2>1
  <1>8. \A l \in Calls : rec'[l].tag = rec[l].tag /\ (l # k => rec'[l].err = rec[l].err /\ AsBefore(l))
    BY <1>3, <1>6, <1>7 DEF ExqRecs, AsBefore
  <1>9. (k \in done' <=> ~rec'[k].err) /\ (AsBefore(k) \/ performed'[k] = 1)
    BY <1>3, <1>4, <1>5, <1>6, <1>7 DEF ExqRecs, AsBefore
  <1>10. performed' \in [Calls -> {0, 1}]
    BY <1>6, <1>7
  <1>11. Errors'
    <2>1. ASSUME NEW l \in Calls
          PROVE  /\ rec'[l].err => SomeAt(l, Late)'
                 /\ SomeAt(l, {"complete"})' => (l \in done' <=> ~rec'[l].err)
      <3>1. CASE l = k
        BY <1>3, <1>9, <3>1 DEF Late
      <3>2. CASE l # k
        BY <1>3, <1>8, <3>2 DEF Errors, AsBefore
      <3>. QED
        BY <3>1, <3>2
    <2>. QED
      BY <2>1 DEF Errors
  <1>12. ~Pending(k)'
    <2>1. HasJob(k)
      BY <1>3 DEF HasJob, SomeAt, At
    <2>2. ~Sending(k)
      BY <2>1 DEF Sending, CallInv
    <2>3. ~Sending(k)' /\ ~In(k, exq')
      BY <1>2, <1>3, <2>2 DEF Sending
    <2>4. ~SomeAt(k, {"dispatch", "fcall"})'
      BY <1>3
    <2>. QED
      BY <2>3, <2>4 DEF Pending
  <1>13. \A l \in Calls : In(l, exq') \/ SomeAt(l, {"dispatch", "fcall"})' => Pending(l)
    BY <1>2, <1>3 DEF Pending
  <1>14. \A l \in Calls : AsBefore(l) \/ (Pending(l) /\ ~Pending(l)' /\ performed'[l] = 1 /\ SomeAt(l, {"complete"})')
    <2>1. SomeAt(k, {"complete"})'
      BY <1>3
    <2>. QED
      BY <2>1, <1>4, <1>8, <1>9, <1>12
  <1>15. \A l \in Calls : Active(l)' => (Active(l) /\ rec'[l].tag = rec[l].tag) \/ Arrives(l)
    <2>1. \A l \in Calls : Active(l)' => Active(l)
      BY <1>2, <1>3 DEF Active
    <2>. QED
      BY <2>1, <1>8
  <1>16. \A l \in Calls : SomeAt(l, {"complete"}) /\ l \in done /\ ~hung => SomeAt(l, {"complete"})' \/ OnItsWay(l)'
    BY <1>3
  <1>17. \A i \in 1..Len(toSrv') : \E j \in 1..Len(toSrv) : toSrv'[i] = toSrv[j]
    BY <1>2
  <1>18. Served
    BY <1>2, <1>10, <1>11, <1>13, <1>14, <1>15, <1>16, <1>17 DEF Served
  <1>19. UNCHANGED <<performed, done>> \/ Performs
    BY <1>3, <1>4, <1>7 DEF Performs
  <1>. QED
    BY <1>18, <1>19

-----------------------------------------------------------------------------
(* What the order of the tags says of the answers.                         *)

\* A tag that nothing carries.
Nowhere(t) == \A m, a : ~Place(t, m, a)

\* A call whose tag is nowhere was not done and has no effect from now on.
LEMMA NowhereSettled ==
  ASSUME Sides, Carried, Calling, NEW c \in Clients, chain[c] # <<>>, Nowhere(chain[c][1])
  PROVE  Settled(ThisCall(c))
  <1>1. PICK h, k : h = chain[c][1] /\ k = ThisCall(c)
    OBVIOUS
  <1>2. MountTypes /\ TagInv /\ CountInv /\ Outcomes /\ Effects
    BY DEF Sides, MountInv, Calling
  <1>3. k \in Calls /\ Made(k)
    BY <1>1, <1>2, ThisCallMade
  <1>4. h \in Tags /\ Named(h, k) /\ \A t : Named(t, k) => t = h
    BY <1>1, <1>2, NamedIs
  <1>5. /\ ~Done(h) /\ ~OnExq(h, k) /\ ~OnJob(h, k) /\ \A i : ~OnSrv(h, i) /\ ~OnMnt(h, i)
    BY <1>1 DEF Nowhere, Place
  <1>6. Active(k) => rec[k].tag = h
    BY <1>3, <1>4 DEF Carried
  <1>7. ~Active(k)
    <2>1. SUFFICES ASSUME Active(k) PROVE FALSE
      OBVIOUS
    <2>2. CASE In(k, exq) \/ SomeAt(k, {"dispatch"})
      BY <1>3, <1>5, <1>6, <2>1, <2>2 DEF OnExq
    <2>3. CASE SomeAt(k, Busy)
      BY <1>3, <1>5, <1>6, <2>1, <2>3 DEF OnJob
    <2>. QED
      BY <2>1, <2>2, <2>3 DEF Active, SomeAt, At, Busy
  <1>8. ~Sending(k)
    BY <1>4, <1>5 DEF Sending, Carried, OnSrv
  <1>9. ~Pending(k) /\ ~SomeAt(k, {"complete"})
    BY <1>7, <1>8 DEF Pending, Active, SomeAt, At
  <1>10. ~OnItsWay(k)
    <2>1. SUFFICES ASSUME NEW i \in 1..Len(toMnt), toMnt[i].type = "R", toMnt[i].call = k PROVE FALSE
      BY DEF OnItsWay
    <2>2. Named(toMnt[i].tag, k)
      BY <2>1 DEF Carried, Reply
    <2>. QED
      BY <1>4, <1>5, <2>2 DEF OnMnt
  <1>11. k \notin done
    BY <1>3, <1>4, <1>5, <1>9, <1>10 DEF Carried
  <1>. QED
    BY <1>1, <1>2, <1>3, <1>9, <1>11 DEF Settled, Effects

\* What answers a flush of a call comes after what answers the call, if that
\* is to come.
LEMMA FlushesComeLater ==
  ASSUME Sides, Tagged, Carried, Calling, NEW c \in Clients, chain[c] # <<>>,
         NEW t, In(t, chain[c]), t # chain[c][1], NEW m \in {4, 5}, NEW i, Place(t, m, i)
  PROVE  Decided(c) \/ (m = 4 /\ \E j : OnMnt(chain[c][1], j) /\ j < i)
  <1>1. PICK h : h = chain[c][1]
    OBVIOUS
  <1>2. MountTypes /\ TagInv /\ InLine
    BY DEF Sides, MountInv, Tagged
  <1>3. Precedes(h, t)
    <2>1. PICK n \in 1..Len(chain[c]) : chain[c][n] = t
      BY DEF In
    <2>2. n > 1 /\ 1 \in 1..Len(chain[c])
      BY <1>2, <2>1 DEF MountTypes
    <2>. QED
      BY <1>1, <2>1, <2>2 DEF Precedes
  <1>4. \A n, b : Place(h, n, b) => n \in 0..5 /\ (n > m \/ (n = m /\ (b < i \/ n = 5)))
    BY <1>2, <1>3, PlaceTypes DEF InLine, Ahead
  <1>5. CASE Nowhere(h)
    BY <1>1, <1>5, NowhereSettled DEF Decided
  <1>6. CASE ~Nowhere(h)
    <2>1. PICK n, b : Place(h, n, b)
      BY <1>6 DEF Nowhere
    <2>2. CASE n = 5
      BY <1>1, <2>1, <2>2 DEF Place, Decided
    <2>3. CASE n = 4 /\ m = 4 /\ b < i
      <3>1. OnMnt(h, b)
        BY <2>1, <2>3 DEF Place
      <3>. QED
        BY <1>1, <2>3, <3>1
    <2>. QED
      BY <1>4, <2>1, <2>2, <2>3
  <1>. QED
    BY <1>5, <1>6

\* While the connection stands.
LEMMA InOrder == Sides /\ Tagged /\ Carried /\ Calling => AllAnswered
  <1>1. SUFFICES ASSUME Sides, Tagged, Carried, Calling, NEW c \in Clients, chain[c] # <<>> PROVE Answered(c)
    BY DEF AllAnswered
  <1>2. MountTypes /\ TagInv /\ ServerTypes
    BY <1>1 DEF Sides, MountInv, ServerInv
  <1>3. PICK h, k : h = chain[c][1] /\ k = ThisCall(c)
    OBVIOUS
  <1>4. \A t, l : Named(t, l) /\ In(t, chain[c]) => t = h /\ l = k
    BY <1>1, <1>2, <1>3, NamedIs
  <1>5. \A t, o : Follows(t, o) => t # h
    <2>1. Heads(h)
      BY <1>1, <1>3 DEF Heads
    <2>. QED
      BY <2>1, <1>2, ChainFacts
  <1>6. ASSUME NEW i \in 1..Len(toMnt), In(toMnt[i].tag, chain[c]) PROVE OwnReply(c, i)
    <2>1. PICK m : m = toMnt[i]
      OBVIOUS
    <2>2. Reply(m)
      BY <1>1, <2>1 DEF Carried
    <2>3. CASE m.type = "Rflush"
      <3>1. m.tag # h
        BY <1>5, <2>2, <2>3 DEF Reply
      <3>2. Place(m.tag, 4, i)
        BY <2>1 DEF Place, OnMnt
      <3>3. Decided(c) \/ \E j : OnMnt(h, j) /\ j < i
        BY <1>1, <1>3, <1>6, <2>1, <3>1, <3>2, FlushesComeLater
      <3>4. ASSUME NEW j, OnMnt(h, j), j < i PROVE j \in 1..(i - 1) /\ toMnt[j].tag = h
        BY <3>4 DEF OnMnt
      <3>. QED
        BY <1>3, <2>1, <2>3, <3>1, <3>3, <3>4 DEF OwnReply
    <2>4. CASE m.type # "Rflush"
      BY <1>3, <1>4, <1>6, <2>1, <2>2, <2>4 DEF OwnReply, Reply
    <2>. QED
      BY <2>3, <2>4
  <1>7. ASSUME NEW t \in Tags, In(t, chain[c]), Done(t) PROVE OwnDone(c, t)
    <2>1. PICK m : m = reply[t]
      OBVIOUS
    <2>2. m.tag = t /\ Reply(m)
      BY <1>1, <1>7, <2>1 DEF Carried
    <2>3. CASE m.type = "Rflush"
      <3>1. t # h
        BY <1>5, <2>2, <2>3 DEF Reply
      <3>2. Place(t, 5, 0)
        BY <1>7 DEF Place
      <3>3. Decided(c)
        <4>1. 5 \in {4, 5} /\ 5 # 4
          OBVIOUS
        <4>. QED
          BY <4>1, <1>1, <1>3, <1>7, <3>1, <3>2, FlushesComeLater
      <3>. QED
        BY <1>3, <2>1, <2>3, <3>1, <3>3 DEF OwnDone
    <2>4. CASE m.type # "Rflush"
      BY <1>3, <1>4, <1>7, <2>1, <2>2, <2>4 DEF OwnDone, Reply
    <2>. QED
      BY <2>3, <2>4
  <1>. QED
    BY <1>6, <1>7 DEF Answered

-----------------------------------------------------------------------------
(* What the steps of the mount driver keep.                                *)

\* The server stands still, and what is sent to it is not for a call that was made.
LEMMA ServerWaits ==
  ASSUME UNCHANGED evars, \A k : Sending(k)' => Sending(k) \/ ~Made(k),
         \A c \in Clients : ncalls[c] \in Nat /\ ncalls'[c] \in Nat /\ ncalls[c] <= ncalls'[c]
  PROVE  /\ Onward /\ (Errors => Errors')
         /\ \A k : \A C : SomeAt(k, C)' <=> SomeAt(k, C)
         /\ \A k : Active(k)' <=> Active(k)
         /\ UNCHANGED <<rec, performed, done>>
  <1>1. \A k : \A C : SomeAt(k, C)' <=> SomeAt(k, C)
    BY DEF SomeAt, At, evars
  <1>2. UNCHANGED <<rec, performed, done, exq>>
    BY DEF evars
  <1>3. \A k : Active(k)' <=> Active(k)
    BY <1>1, <1>2 DEF Active
  <1>4. \A k \in Calls : Made(k) => Made(k)' /\ (Pending(k)' => Pending(k))
    <2>1. ASSUME NEW k \in Calls, Made(k) PROVE Made(k)'
      BY <2>1, CallIs DEF Made
    <2>. QED
      BY <2>1, <1>1, <1>2 DEF Pending
  <1>5. Onward
    BY <1>2, <1>4 DEF Onward
  <1>6. Errors => Errors'
    BY <1>1, <1>2 DEF Errors
  <1>. QED
    BY <1>1, <1>2, <1>3, <1>5, <1>6

\* Replies are read or freed, and what they say stays true.
LEMMA RepliesStay ==
  ASSUME MountTypes, ServerTypes, Truthful, Onward,
         \A i \in 1..Len(toMnt') : \E j \in 1..Len(toMnt) : toMnt'[i] = toMnt[j],
         \A t \in Tags : reply'[t] = reply[t] \/ reply'[t] = NoReply \/ \E j \in 1..Len(toMnt) : reply'[t] = toMnt[j]
  PROVE  Truthful'
  <1>1. \A i \in 1..Len(toMnt) : toMnt[i] \in RMessages /\ Honest(toMnt[i])
    BY DEF ServerTypes, Truthful
  <1>2. \A t \in Tags : reply[t] = NoReply \/ (reply[t] \in RMessages /\ Honest(reply[t]))
    BY DEF MountTypes, Truthful
  <1>3. (\A i \in 1..Len(toMnt) : Honest(toMnt[i]))'
    <2>1. \A i \in 1..Len(toMnt') : \E m : m = toMnt'[i] /\ Honest(m)'
      BY <1>1, HonestKeeps
    <2>. QED
      BY <2>1
  <1>4. (\A t \in Tags : Honest(reply[t]))'
    <2>1. \A t \in Tags : \E m : m = reply'[t] /\ Honest(m)'
      BY <1>1, <1>2, HonestKeeps
    <2>. QED
      BY <2>1
  <1>. QED
    BY <1>3, <1>4 DEF Truthful

\* A step that leaves the requests, the replies and the tags as they are.
LEMMA QuietKeeps ==
  ASSUME Sides, Calling, ~hung => Carried, UNCHANGED <<evars, ncalls, chain, reply, outcome, toSrv, toMnt>>
  PROVE  /\ Calling' /\ (~hung => Carried')
         /\ hung /\ hung' /\ AllAnswered /\ (\A c \in Clients : Doomed(c) => Doomed(c)') => AllAnswered'
  <1>1. MountTypes /\ CountInv /\ ServerTypes /\ Outcomes /\ Errors /\ Effects /\ Truthful
    BY DEF Sides, MountInv, ServerInv, Calling
  <1>2. \A k : Sending(k)' <=> Sending(k)
    BY DEF Sending
  <1>3. \A c \in Clients : ncalls[c] \in Nat /\ ncalls'[c] \in Nat /\ ncalls[c] <= ncalls'[c]
    BY <1>1, WireAssumption DEF CountInv
  <1>4. /\ Onward /\ Errors'
        /\ \A k : \A C : SomeAt(k, C)' <=> SomeAt(k, C)
        /\ \A k : Active(k)' <=> Active(k)
        /\ UNCHANGED <<rec, performed, done>>
    BY <1>1, <1>2, <1>3, ServerWaits
  <1>5. Truthful'
    BY <1>1, <1>4, RepliesStay
  <1>6. \A k : (Made(k)' <=> Made(k)) /\ (Pending(k)' <=> Pending(k))
    BY <1>2, <1>4 DEF Made, Pending, evars
  <1>7. Outcomes' /\ Effects'
    BY <1>1, <1>4, <1>6 DEF Outcomes, Effects
  <1>8. ASSUME ~hung PROVE Carried'
    <2>1. \A t, k : Named(t, k)' <=> Named(t, k)
      BY DEF Named, ThisCall
    <2>2. \A t, o : Follows(t, o)' <=> Follows(t, o)
      BY SameChains
    <2>3. \A m : Reply(m)' <=> Reply(m)
      BY <2>1, <2>2 DEF Reply
    <2>4. \A k : OnItsWay(k)' <=> OnItsWay(k)
      BY DEF OnItsWay
    <2>5. \A t : Done(t)' <=> Done(t)
      BY DEF Done
    <2>6. Carried
      BY <1>8
    <2>7. (\A i \in 1..Len(toSrv) : toSrv[i].type = "T" => Named(toSrv[i].tag, toSrv[i].call))'
      BY <2>1, <2>6 DEF Carried
    <2>8. (\A k \in Calls : Active(k) => Named(rec[k].tag, k))'
      BY <2>1, <2>6, <1>4 DEF Carried
    <2>9. (\A i \in 1..Len(toMnt) : Reply(toMnt[i]))'
      BY <2>3, <2>6 DEF Carried
    <2>10. (\A t \in Tags : Done(t) => reply[t].tag = t /\ Reply(reply[t]))'
      BY <2>3, <2>5, <2>6 DEF Carried
    <2>11. (\A k \in Calls : \A t : Named(t, k) /\ k \in done => SomeAt(k, {"complete"}) \/ OnItsWay(k) \/ Done(t))'
      BY <2>1, <2>4, <2>5, <2>6, <1>4 DEF Carried
    <2>. QED
      BY <2>7, <2>8, <2>9, <2>10, <2>11 DEF Carried
  <1>9. ASSUME AllAnswered, \A c \in Clients : Doomed(c) => Doomed(c)' PROVE AllAnswered'
    <2>1. SUFFICES ASSUME NEW c \in Clients, chain[c] # <<>>, ~Doomed(c) PROVE Answered(c)'
      BY <1>9 DEF AllAnswered
    <2>2. ThisCall(c) \in Calls
      BY <1>1, <2>1, ThisCallMade
    <2>3. Settled(ThisCall(c))' <=> Settled(ThisCall(c))
      BY <1>4, <1>6 DEF Settled, ThisCall
    <2>4. Decided(c)' <=> Decided(c)
      BY <2>3 DEF Decided, Done
    <2>5. Answered(c)
      BY <1>9, <2>1 DEF AllAnswered
    <2>6. \A i : OwnReply(c, i)' <=> OwnReply(c, i)
      BY <2>4 DEF OwnReply, ThisCall
    <2>7. \A t : OwnDone(c, t)' <=> OwnDone(c, t)
      BY <2>4 DEF OwnDone, ThisCall
    <2>. QED
      BY <2>5, <2>6, <2>7 DEF Answered, Done
  <1>. QED
    BY <1>1, <1>4, <1>5, <1>7, <1>8, <1>9 DEF Calling

\* Steps of that kind.
LEMMA QuietSteps ==
  ASSUME Sides, NEW c \in Clients, Gate(c) \/ Attend(c) \/ WakeTarget(c) \/ MntGate(c) \/ InterruptClient(c)
  PROVE  /\ UNCHANGED <<ncalls, chain, reply, outcome, toSrv, toMnt, hung>>
         /\ \A d \in Clients : Doomed(d) => Doomed(d)'
  <1>1. UNCHANGED <<ncalls, chain, reply, outcome, toSrv, toMnt, hung>>
    BY DEF Gate, Attend, WakeTarget, MntGate, InterruptClient, wirevars
  <1>2. \A d \in Clients : cpc[d] \in {"eintr", "fail"} => cpc'[d] = cpc[d]
    <2>1. cpc \in [Clients -> CPC]
      BY DEF Sides, MountInv, MountTypes
    <2>2. CASE Gate(c) \/ Attend(c) \/ InterruptClient(c)
      BY <2>1, <2>2 DEF Gate, Attend, InterruptClient, CStep
    <2>3. CASE WakeTarget(c) \/ MntGate(c)
      <3>1. \A t : \A d \in Sleeper(t) : cpc[d] = "asleep"
        BY DEF Sleeper
      <3>2. \A d \in NextReader : cpc[d] = "asleep"
        BY <3>1 DEF NextReader
      <3>. QED
        BY <2>1, <2>3, <3>1, <3>2 DEF WakeTarget, MntGate
    <2>. QED
      BY <2>2, <2>3
  <1>. QED
    BY <1>1, <1>2 DEF Doomed

\* The answers of a client are as they were.
LEMMA SameAnswers ==
  ASSUME MountTypes, TagInv, CountInv, Outcomes, Onward, NEW d \in Clients, chain[d] # <<>>, Answered(d),
         chain'[d] = chain[d], ncalls'[d] = ncalls[d], toMnt' = toMnt,
         \A t \in Tags : In(t, chain[d]) => reply'[t] = reply[t]
  PROVE  Answered(d)'
  <1>1. ThisCall(d) \in Calls /\ ThisCall(d)' = ThisCall(d)
    BY ThisCallMade DEF ThisCall
  <1>2. Settled(ThisCall(d)) => Settled(ThisCall(d))'
    <2>1. PICK k : k = ThisCall(d)
      OBVIOUS
    <2>2. Settled(k) => Settled(k)'
      BY <1>1, <2>1, SettledKeeps
    <2>. QED
      BY <1>1, <2>1, <2>2
  <1>3. In(chain[d][1], chain[d]) /\ chain[d][1] \in Tags
    BY NamedIs
  <1>4. Decided(d) => Decided(d)'
    BY <1>2, <1>3 DEF Decided, Done
  <1>5. \A i : OwnReply(d, i) => OwnReply(d, i)'
    BY <1>1, <1>4 DEF OwnReply
  <1>6. \A t \in Tags : In(t, chain[d]) => (Done(t)' <=> Done(t)) /\ (OwnDone(d, t) => OwnDone(d, t)')
    BY <1>1, <1>4 DEF OwnDone, Done
  <1>. QED
    BY <1>5, <1>6 DEF Answered

\* The tag t is put at the end of the chain of c, and m, which asks for k or for
\* a flush, is written or not.
Transmitted(c, k, t, m) ==
  /\ chain'[c] = Append(chain[c], t) /\ \A d \in Clients \ {c} : chain'[d] = chain[d]
  /\ chain'[c] # <<>> /\ chain'[c][1] = IF chain[c] = <<>> THEN t ELSE chain[c][1]
  /\ \A i \in 1..Len(chain[c]) : i \in 1..Len(chain'[c]) /\ chain'[c][i] = chain[c][i]
  /\ Len(chain'[c]) = Len(chain[c]) + 1
  /\ UNCHANGED <<toMnt, reply, hung>>
  /\ m = IF chain[c] = <<>> THEN [type |-> "T", tag |-> t, call |-> k]
         ELSE [type |-> "Tflush", tag |-> t, oldtag |-> chain[c][1]]
  /\ toSrv' = toSrv \/ toSrv' = Append(toSrv, m)

\* mntralloc and the write.
LEMMA TransmitEffect ==
  ASSUME Sides, NEW c \in Clients, NEW k, chain[c] = <<>> => k \in Calls, NEW from, Transmit(c, k, from)
  PROVE  \E t \in Tags, m \in TMessages : Transmitted(c, k, t, m)
  <1>1. MountTypes /\ TagInv /\ QueueInv
    BY DEF Sides, MountInv
  <1>2. PICK t : Allocated(c, t)
    BY <1>1, MntrallocEffect DEF Transmit
  <1>3. t \in Tags /\ chain \in [Clients -> Seq(Tags)] /\ chain' = [chain EXCEPT ![c] = Append(@, t)]
    BY <1>1, <1>2 DEF Allocated, MountTypes
  <1>4. chain'[c] = Append(chain[c], t) /\ \A d \in Clients \ {c} : chain'[d] = chain[d]
    BY <1>3
  <1>5. chain[c] \in Seq(Tags) /\ (chain[c] # <<>> => Len(chain[c]) > 0 /\ chain[c][1] \in Tags)
    BY <1>3
  <1>6. PICK s : s = Append(chain[c], t)
    OBVIOUS
  <1>7. /\ s # <<>> /\ s[1] = IF chain[c] = <<>> THEN t ELSE chain[c][1]
        /\ \A i \in 1..Len(chain[c]) : i \in 1..Len(s) /\ s[i] = chain[c][i]
        /\ Len(s) = Len(chain[c]) + 1
    BY <1>3, <1>5, <1>6, AppendAt
  <1>8. PICK m : m = Request(chain'[c], k)
    OBVIOUS
  <1>9. m = IF chain[c] = <<>> THEN [type |-> "T", tag |-> t, call |-> k]
            ELSE [type |-> "Tflush", tag |-> t, oldtag |-> chain[c][1]]
    BY <1>1, <1>2, <1>8, RequestIs
  <1>10. m \in TMessages
    BY <1>3, <1>5, <1>9 DEF TMessages
  <1>11. UNCHANGED <<toMnt, reply, hung>> /\ (toSrv' = toSrv \/ toSrv' = Append(toSrv, m))
    BY <1>8 DEF Transmit
  <1>. QED
    BY <1>3, <1>4, <1>6, <1>7, <1>9, <1>10, <1>11 DEF Transmitted

\* A call or a flush, while the connection stands.
LEMMA TransmitCarried ==
  ASSUME Sides, Calling, Carried, NEW c \in Clients, NEW k, NEW from, Transmit(c, k, from), UNCHANGED evars,
         chain[c] = <<>> => k \in Calls /\ ~Made(k) /\ k = <<c, ncalls'[c]>>,
         chain[c] # <<>> => ncalls'[c] = ncalls[c], \A d \in Clients \ {c} : ncalls'[d] = ncalls[d]
  PROVE  Carried'
  <1>1. PICK t \in Tags, m \in TMessages : Transmitted(c, k, t, m)
    <2>1. chain[c] = <<>> => k \in Calls
      OBVIOUS
    <2>. QED
      BY <2>1, TransmitEffect
  <1>. USE <1>1 DEF Transmitted
  <1>2. toSrv \in Seq(TMessages) /\ MountTypes /\ Outcomes /\ Effects
    BY DEF Sides, ServerInv, ServerTypes, MountInv, Calling
  <1>3. \A u, l : Named(u, l) => Named(u, l)'
    <2>1. SUFFICES ASSUME NEW u, NEW l, Named(u, l) PROVE Named(u, l)'
      OBVIOUS
    <2>2. PICK d \in Clients : chain[d] # <<>> /\ chain[d][1] = u /\ l = <<d, ncalls[d]>>
      BY <2>1 DEF Named, ThisCall
    <2>3. chain'[d] # <<>> /\ chain'[d][1] = u /\ ncalls'[d] = ncalls[d]
      BY <1>1, <2>2
    <2>. QED
      BY <2>2, <2>3 DEF Named, ThisCall
  <1>4. \A u, l : Named(u, l)' => Named(u, l) \/ (chain[c] = <<>> /\ u = t /\ l = k)
    <2>1. SUFFICES ASSUME NEW u, NEW l, Named(u, l)' PROVE Named(u, l) \/ (chain[c] = <<>> /\ u = t /\ l = k)
      OBVIOUS
    <2>2. PICK d \in Clients : chain'[d] # <<>> /\ chain'[d][1] = u /\ l = <<d, ncalls'[d]>>
      BY <2>1 DEF Named, ThisCall
    <2>. QED
      BY <1>1, <2>2 DEF Named, ThisCall
  <1>5. chain[c] = <<>> => Named(t, k)'
    BY <1>1 DEF Named, ThisCall
  <1>6. \A u, o : Follows(u, o) => Follows(u, o)'
    <2>1. SUFFICES ASSUME NEW u, NEW o, Follows(u, o) PROVE Follows(u, o)'
      OBVIOUS
    <2>2. PICK d, i : d \in Clients /\ i \in 2..Len(chain[d]) /\ chain[d][i] = u /\ chain[d][1] = o
      BY <2>1 DEF Follows
    <2>3. Len(chain[d]) \in Nat /\ i \in 1..Len(chain[d]) /\ 1 \in 1..Len(chain[d]) /\ chain[d] # <<>>
      BY <1>2, <2>2 DEF MountTypes
    <2>4. i \in 2..Len(chain'[d]) /\ chain'[d][i] = u /\ chain'[d][1] = o
      <3>1. CASE d = c
        <4>1. i \in 1..Len(chain'[c]) /\ chain'[c][i] = chain[c][i] /\ chain'[c][1] = chain[c][1]
          BY <2>3, <3>1
        <4>2. i \in 2..(Len(chain[c]) + 1)
          BY <2>2, <2>3, <3>1
        <4>3. i \in 2..Len(chain'[c])
          BY <4>2
        <4>. QED
          BY <2>2, <3>1, <4>1, <4>3
      <3>2. CASE d # c
        BY <2>2, <3>2
      <3>. QED
        BY <3>1, <3>2
    <2>. QED
      BY <2>2, <2>4 DEF Follows
  <1>7. \A r : Reply(r) => Reply(r)'
    BY <1>3, <1>6 DEF Reply
  <1>8. \A k1 \in Calls : k1 \in done => k1 # k \/ chain[c] # <<>>
    BY <1>2 DEF Outcomes, Effects
  <1>9. /\ \A l : \A C : SomeAt(l, C)' <=> SomeAt(l, C)
        /\ UNCHANGED <<rec, performed, done, exq>>
    BY DEF SomeAt, At, evars
  <1>10. \A l : Active(l)' <=> Active(l)
    BY <1>9 DEF Active
  <1>11. (\A i \in 1..Len(toSrv) : toSrv[i].type = "T" => Named(toSrv[i].tag, toSrv[i].call))'
    <2>1. \A i \in 1..Len(toSrv') : (i \in 1..Len(toSrv) /\ toSrv'[i] = toSrv[i]) \/ toSrv'[i] = m
      BY <1>1, <1>2, AppendAt
    <2>2. m.type = "T" => Named(m.tag, m.call)'
      BY <1>1, <1>5
    <2>3. \A i \in 1..Len(toSrv') : \E r : r = toSrv'[i] /\ (r.type = "T" => Named(r.tag, r.call)')
      BY <2>1, <2>2, <1>3 DEF Carried
    <2>. QED
      BY <2>3
  <1>12. (\A l \in Calls : Active(l) => Named(rec[l].tag, l))'
    BY <1>3, <1>9, <1>10 DEF Carried
  <1>13. (\A i \in 1..Len(toMnt) : Reply(toMnt[i]))'
    BY <1>1, <1>7 DEF Carried
  <1>14. (\A u \in Tags : Done(u) => reply[u].tag = u /\ Reply(reply[u]))'
    BY <1>1, <1>7 DEF Carried, Done
  <1>15. (\A l \in Calls : \A u : Named(u, l) /\ l \in done => SomeAt(l, {"complete"}) \/ OnItsWay(l) \/ Done(u))'
    <2>1. \A l : OnItsWay(l)' <=> OnItsWay(l)
      BY <1>1 DEF OnItsWay
    <2>2. \A u : Done(u)' <=> Done(u)
      BY <1>1 DEF Done
    <2>3. \A l \in Calls : \A u : Named(u, l)' /\ l \in done => Named(u, l)
      BY <1>4, <1>8
    <2>. QED
      BY <2>1, <2>2, <2>3, <1>9 DEF Carried
  <1>. QED
    BY <1>11, <1>12, <1>13, <1>14, <1>15 DEF Carried

\* A new call.
LEMMA CallCalls ==
  ASSUME Sides, Calling, NEW c \in Clients, Call(c), UNCHANGED evars
  PROVE  /\ Calling' /\ (Carried => Carried')
         /\ outcome' = [outcome EXCEPT ![<<c, ncalls[c] + 1>>] = "called"]
         /\ <<c, ncalls[c] + 1>> \in Calls /\ ~Made(<<c, ncalls[c] + 1>>) /\ chain[c] = <<>>
         /\ chain'[c] # <<>> /\ Len(chain'[c]) = 1 /\ \A d \in Clients \ {c} : chain'[d] = chain[d]
  <1>1. MountTypes /\ TagInv /\ CountInv /\ ServerTypes /\ Outcomes /\ Errors /\ Effects /\ Truthful
    BY DEF Sides, MountInv, ServerInv, Calling
  <1>2. PICK k : k = <<c, ncalls[c] + 1>>
    OBVIOUS
  <1>3. /\ Transmit(c, k, "idle") /\ ncalls' = [ncalls EXCEPT ![c] = @ + 1]
        /\ outcome' = [outcome EXCEPT ![k] = "called"]
        /\ Cardinality({l \in Calls : outcome[l] # "none"}) < MaxCalls
    BY <1>2 DEF Call
  <1>4. ncalls[c] \in Nat /\ k \in Calls
    BY <1>1, <1>2, <1>3, CallBound
  <1>5. /\ ncalls'[c] = ncalls[c] + 1 /\ \A d \in Clients \ {c} : ncalls'[d] = ncalls[d]
        /\ \A d \in Clients : ncalls[d] \in Nat /\ ncalls'[d] \in Nat /\ ncalls[d] <= ncalls'[d]
    BY <1>1, <1>3, <1>4, WireAssumption DEF CountInv
  <1>6. k[1] = c /\ k[2] = ncalls[c] + 1 /\ ~Made(k) /\ Made(k)' /\ k = <<c, ncalls'[c]>>
    BY <1>2, <1>4, <1>5 DEF Made
  <1>7. chain[c] = <<>>
    BY <1>1, <1>3 DEF TagInv, Transmit
  <1>8. PICK t \in Tags, m \in TMessages :
           /\ \A d \in Clients \ {c} : chain'[d] = chain[d]
           /\ chain'[c] # <<>> /\ Len(chain'[c]) = Len(chain[c]) + 1
           /\ UNCHANGED <<toMnt, reply, hung>>
           /\ m.type = "T" => m.call = k
           /\ toSrv' = toSrv \/ toSrv' = Append(toSrv, m)
    <2>1. PICK t \in Tags, m \in TMessages : Transmitted(c, k, t, m)
      BY <1>3, <1>4, TransmitEffect
    <2>2. m.type = "T" => m.call = k
      BY <1>7, <2>1 DEF Transmitted
    <2>. QED
      BY <2>1, <2>2 DEF Transmitted
  <1>9. \A l : Sending(l)' => Sending(l) \/ l = k
    <2>1. \A i \in 1..Len(toSrv') : (i \in 1..Len(toSrv) /\ toSrv'[i] = toSrv[i]) \/ toSrv'[i] = m
      <3>1. toSrv \in Seq(TMessages) /\ m \in TMessages
        BY <1>1 DEF ServerTypes
      <3>2. CASE toSrv' = Append(toSrv, m)
        BY <3>1, <3>2, AppendAt
      <3>. QED
        BY <3>2, <1>8
    <2>. QED
      BY <2>1, <1>8 DEF Sending
  <1>10. /\ Onward /\ Errors' /\ UNCHANGED <<rec, performed, done>>
         /\ \A l : \A C : SomeAt(l, C)' <=> SomeAt(l, C)
    BY <1>1, <1>5, <1>6, <1>9, ServerWaits
  <1>11. Truthful'
    BY <1>1, <1>8, <1>10, RepliesStay
  <1>12. DOMAIN outcome = Calls
    BY <1>1 DEF CountInv
  <1>13. \A l \in Calls : l # k => (Made(l)' <=> Made(l)) /\ outcome'[l] = outcome[l]
    <2>1. ASSUME NEW l \in Calls, l # k PROVE Made(l)' <=> Made(l)
      <3>1. l[1] \in Clients /\ l[2] \in Nat /\ l = <<l[1], l[2]>>
        BY CallIs
      <3>2. CASE l[1] = c
        <4>1. l[2] # ncalls[c] + 1
          BY <1>2, <2>1, <3>1, <3>2
        <4>. QED
          BY <1>4, <1>5, <3>1, <3>2, <4>1 DEF Made
      <3>3. CASE l[1] # c
        BY <1>5, <3>1, <3>3 DEF Made
      <3>. QED
        BY <3>2, <3>3
    <2>. QED
      BY <2>1, <1>3, <1>12
  <1>14. outcome'[k] = "called" /\ outcome[k] = "none" /\ performed[k] = 0 /\ k \notin done
    BY <1>1, <1>3, <1>4, <1>6, <1>12 DEF Outcomes, Effects
  <1>15. Outcomes'
    <2>1. ASSUME NEW l \in Calls
          PROVE  /\ outcome'[l] = "none" <=> ~Made(l)'
                 /\ outcome'[l] = "called" <=> l[2] = ncalls'[l[1]] /\ chain'[l[1]] # <<>>
      <3>1. CASE l = k
        BY <1>5, <1>6, <1>8, <1>14, <3>1
      <3>2. CASE l # k /\ l[1] = c
        <4>1. l[2] # ncalls[c] + 1
          BY <1>2, <3>2, CallIs
        <4>2. outcome[l] # "called"
          BY <1>1, <1>7, <3>2 DEF Outcomes
        <4>. QED
          BY <1>1, <1>5, <1>13, <3>2, <4>1, <4>2 DEF Outcomes
      <3>3. CASE l[1] # c
        <4>1. ncalls'[l[1]] = ncalls[l[1]] /\ chain'[l[1]] = chain[l[1]] /\ l # k
          BY <1>5, <1>6, <1>8, <3>3, CallIs
        <4>. QED
          BY <1>1, <1>13, <4>1 DEF Outcomes
      <3>. QED
        BY <3>1, <3>2, <3>3
    <2>2. \A d \in Clients : chain'[d] # <<>> => ncalls'[d] > 0
      BY <1>1, <1>4, <1>5, <1>8 DEF Outcomes
    <2>. QED
      BY <2>1, <2>2 DEF Outcomes
  <1>16. Effects'
    <2>1. ASSUME NEW l \in Calls
          PROVE  /\ l \in done' => performed'[l] = 1
                 /\ outcome'[l] = "none" => performed'[l] = 0
                 /\ Pending(l)' => performed'[l] = 0 /\ outcome'[l] \in {"called", "fail"}
      <3>1. CASE l = k
        BY <1>10, <1>14, <3>1
      <3>2. CASE l # k
        <4>1. Pending(l)' => Pending(l)
          BY <1>9, <1>10, <3>2 DEF Pending, evars
        <4>. QED
          BY <1>1, <1>10, <1>13, <3>2, <4>1 DEF Effects
      <3>. QED
        BY <3>1, <3>2
    <2>. QED
      BY <2>1, <1>1, <1>10 DEF Effects
  <1>17. Carried => Carried'
    BY <1>3, <1>4, <1>5, <1>6, <1>7, TransmitCarried
  <1>18. Len(chain'[c]) = 1
    BY <1>7, <1>8
  <1>. QED
    BY <1>2, <1>3, <1>4, <1>6, <1>7, <1>8, <1>10, <1>11, <1>15, <1>16, <1>17, <1>18 DEF Calling

\* A flush of a call.
LEMMA FlushCalls ==
  ASSUME Sides, Calling, NEW c \in Clients, Flush(c), UNCHANGED evars
  PROVE  /\ Calling' /\ (Carried => Carried') /\ (hung /\ AllAnswered => AllAnswered')
         /\ UNCHANGED outcome /\ Len(chain'[c]) > 1 /\ \A d \in Clients \ {c} : chain'[d] = chain[d]
  <1>1. MountTypes /\ TagInv /\ CountInv /\ ServerTypes /\ Outcomes /\ Errors /\ Effects /\ Truthful
    BY DEF Sides, MountInv, ServerInv, Calling
  <1>2. Transmit(c, ThisCall(c), "eintr") /\ UNCHANGED <<ncalls, outcome>> /\ cpc[c] = "eintr"
    BY DEF Flush, Transmit
  <1>3. chain[c] # <<>>
    BY <1>1, <1>2 DEF TagInv
  <1>4. PICK k : k = ThisCall(c)
    OBVIOUS
  <1>5. PICK t \in Tags, m \in TMessages :
           /\ \A d \in Clients \ {c} : chain'[d] = chain[d]
           /\ chain'[c] # <<>> /\ Len(chain'[c]) = Len(chain[c]) + 1
           /\ UNCHANGED <<toMnt, reply, hung>>
           /\ m.type = "Tflush"
           /\ toSrv' = toSrv \/ toSrv' = Append(toSrv, m)
    <2>1. PICK t \in Tags, m \in TMessages : Transmitted(c, k, t, m)
      BY <1>2, <1>3, <1>4, TransmitEffect
    <2>2. m.type = "Tflush"
      BY <1>3, <2>1 DEF Transmitted
    <2>. QED
      BY <2>1, <2>2 DEF Transmitted
  <1>6. \A l : Sending(l)' => Sending(l)
    <2>1. \A i \in 1..Len(toSrv') : (i \in 1..Len(toSrv) /\ toSrv'[i] = toSrv[i]) \/ toSrv'[i] = m
      <3>1. toSrv \in Seq(TMessages) /\ m \in TMessages
        BY <1>1 DEF ServerTypes
      <3>2. CASE toSrv' = Append(toSrv, m)
        BY <3>1, <3>2, AppendAt
      <3>. QED
        BY <3>2, <1>5
    <2>. QED
      BY <2>1, <1>5 DEF Sending
  <1>7. \A d \in Clients : ncalls[d] \in Nat /\ ncalls'[d] \in Nat /\ ncalls[d] <= ncalls'[d] /\ ncalls'[d] = ncalls[d]
    BY <1>1, <1>2, WireAssumption DEF CountInv
  <1>8. /\ Onward /\ Errors' /\ UNCHANGED <<rec, performed, done>>
        /\ \A l : \A C : SomeAt(l, C)' <=> SomeAt(l, C)
    BY <1>1, <1>6, <1>7, ServerWaits
  <1>9. Truthful'
    BY <1>1, <1>5, <1>8, RepliesStay
  <1>10. Outcomes'
    <2>1. \A d \in Clients : chain'[d] # <<>> <=> chain[d] # <<>>
      BY <1>3, <1>5
    <2>2. \A l \in Calls : (Made(l)' <=> Made(l)) /\ l[1] \in Clients
      BY <1>2, CallIs DEF Made
    <2>. QED
      BY <2>1, <2>2, <1>1, <1>2 DEF Outcomes
  <1>11. Effects'
    <2>1. \A l : Pending(l)' => Pending(l)
      BY <1>6, <1>8 DEF Pending, evars
    <2>. QED
      BY <2>1, <1>1, <1>2, <1>8 DEF Effects
  <1>12. Carried => Carried'
    BY <1>2, <1>3, <1>4, <1>7, TransmitCarried
  <1>13. ASSUME hung, AllAnswered PROVE AllAnswered'
    <2>1. Doomed(c)'
      BY <1>1, <1>2, <1>5, <1>13 DEF Transmit, CStep, Doomed, MountTypes
    <2>2. ASSUME NEW d \in Clients \ {c}, chain'[d] # <<>>, ~Doomed(d)' PROVE Answered(d)'
      <3>1. cpc'[d] = cpc[d]
        BY <1>1, <1>2 DEF Transmit, CStep, MountTypes
      <3>2. chain[d] # <<>> /\ Answered(d)
        BY <1>5, <1>13, <2>2, <3>1 DEF AllAnswered, Doomed
      <3>. QED
        BY <3>2, <1>1, <1>5, <1>7, <1>8, SameAnswers
    <2>. QED
      BY <2>1, <2>2 DEF AllAnswered
  <1>14. Len(chain'[c]) > 1
    BY <1>1, <1>3, <1>5 DEF MountTypes
  <1>. QED
    BY <1>2, <1>5, <1>8, <1>9, <1>10, <1>11, <1>12, <1>13, <1>14 DEF Calling

\* The reader takes the first reply, for the request with its tag if there is one.
Reads(m) ==
  /\ m \in RMessages /\ m = toMnt[1] /\ 1 \in 1..Len(toMnt)
  /\ \A i \in 1..Len(toMnt') : i + 1 \in 1..Len(toMnt) /\ toMnt'[i] = toMnt[i + 1]
  /\ \A i \in 1..Len(toMnt) : i = 1 \/ (i - 1 \in 1..Len(toMnt') /\ toMnt'[i - 1] = toMnt[i])
  /\ \A t \in Tags : reply'[t] = reply[t] \/ (t = m.tag /\ reply'[t] = m)
  /\ \A t \in Tags : Done(t) => Done(t)'
  /\ \A d \in Clients : In(m.tag, chain[d]) => Done(m.tag)'

\* A reader that takes a message, or leaves.
LEMMA ReadEffect ==
  ASSUME Sides, NEW c \in Clients, Read(c)
  PROVE  /\ UNCHANGED <<ncalls, chain, outcome, toSrv, hung>>
         /\ \A d \in Clients : Doomed(d) => Doomed(d)'
         /\ UNCHANGED <<toMnt, reply>> \/ \E m : Reads(m)
  <1>1. MountTypes /\ QueueInv /\ toMnt \in Seq(RMessages)
    BY DEF Sides, MountInv, ServerInv, ServerTypes
  <1>2. \A d \in Clients : Doomed(d) => Doomed(d)'
    <2>1. cpc[c] = "read" /\ \A d \in Clients \ {c} : cpc'[d] = cpc[d]
      BY <1>1 DEF Read, Mountmux, CStep, MountTypes
    <2>2. hung' = hung
      BY DEF Read
    <2>. QED
      BY <2>1, <2>2 DEF Doomed
  <1>3. ASSUME toMnt # <<>>, toMnt' = Tail(toMnt), Mountmux(c, Head(toMnt)) PROVE \E m : Reads(m)
    <2>1. PICK m : m = Head(toMnt)
      OBVIOUS
    <2>2. m \in RMessages /\ m = toMnt[1] /\ 1 \in 1..Len(toMnt) /\ Len(toMnt) \in Nat /\ Len(toMnt') = Len(toMnt) - 1
      BY <1>1, <1>3, <2>1, TailAt
    <2>3. \A i \in 1..(Len(toMnt) - 1) : toMnt'[i] = toMnt[i + 1] /\ i + 1 \in 1..Len(toMnt)
      BY <1>1, <1>3, TailAt
    <2>4. \A i \in 1..Len(toMnt') : i + 1 \in 1..Len(toMnt) /\ toMnt'[i] = toMnt[i + 1]
      BY <2>2, <2>3
    <2>5. \A i \in 1..Len(toMnt) : i = 1 \/ (i - 1 \in 1..Len(toMnt') /\ toMnt'[i - 1] = toMnt[i])
      <3>1. SUFFICES ASSUME NEW i \in 1..Len(toMnt), i # 1
                     PROVE  i - 1 \in 1..Len(toMnt') /\ toMnt'[i - 1] = toMnt[i]
        OBVIOUS
      <3>2. i - 1 \in 1..(Len(toMnt) - 1) /\ (i - 1) + 1 = i
        BY <2>2, <3>1
      <3>. QED
        BY <2>2, <2>3, <3>2
    <2>6. m.tag \in Tags /\ m # NoReply /\ mqueue \in Seq(Tags)
      BY <1>1, <2>2 DEF RMessages, NoReply, MountTypes
    <2>7. (In(m.tag, mqueue) /\ reply' = [reply EXCEPT ![m.tag] = m]) \/ (~In(m.tag, mqueue) /\ reply' = reply)
      BY <1>3, <2>1, <2>6, InRange DEF Mountmux
    <2>8. reply \in [Tags -> RMessages \cup {NoReply}]
      BY <1>1 DEF MountTypes
    <2>9. \A t \in Tags : reply'[t] = reply[t] \/ (t = m.tag /\ reply'[t] = m)
      BY <2>7, <2>8
    <2>10. \A t \in Tags : Done(t) => Done(t)'
      BY <2>6, <2>9 DEF Done
    <2>11. \A d \in Clients : In(m.tag, chain[d]) => Done(m.tag)'
      <3>1. CASE In(m.tag, mqueue)
        BY <2>6, <2>7, <2>8, <3>1 DEF Done
      <3>2. CASE ~In(m.tag, mqueue)
        BY <1>1, <2>6, <2>10, <3>2 DEF QueueInv
      <3>. QED
        BY <3>1, <3>2
    <2>. QED
      BY <2>2, <2>4, <2>5, <2>9, <2>10, <2>11 DEF Reads
  <1>. QED
    BY <1>2, <1>3 DEF Read

\* What it takes is where it was looked for.
LEMMA ReadsKeeps ==
  ASSUME Sides, Calling, UNCHANGED evars, UNCHANGED <<ncalls, chain, outcome, toSrv, hung>>, NEW m, Reads(m)
  PROVE  Calling' /\ (Carried => Carried') /\ (AllAnswered /\ (\A c \in Clients : Doomed(c) => Doomed(c)') => AllAnswered')
  <1>1. MountTypes /\ TagInv /\ CountInv /\ ServerTypes /\ Outcomes /\ Errors /\ Effects /\ Truthful
    BY DEF Sides, MountInv, ServerInv, Calling
  <1>2. \A k : Sending(k)' <=> Sending(k)
    BY DEF Sending
  <1>3. \A c \in Clients : ncalls[c] \in Nat /\ ncalls'[c] \in Nat /\ ncalls[c] <= ncalls'[c]
    BY <1>1, WireAssumption DEF CountInv
  <1>4. /\ Onward /\ Errors'
        /\ \A k : \A C : SomeAt(k, C)' <=> SomeAt(k, C)
        /\ \A k : Active(k)' <=> Active(k)
        /\ UNCHANGED <<rec, performed, done>>
    BY <1>1, <1>2, <1>3, ServerWaits
  <1>5. Truthful'
    <2>1. \A i \in 1..Len(toMnt') : \E j \in 1..Len(toMnt) : toMnt'[i] = toMnt[j]
      BY DEF Reads
    <2>2. \A t \in Tags : reply'[t] = reply[t] \/ \E j \in 1..Len(toMnt) : reply'[t] = toMnt[j]
      BY DEF Reads
    <2>. QED
      BY <2>1, <2>2, <1>1, <1>4, RepliesStay
  <1>6. \A k : (Made(k)' <=> Made(k)) /\ (Pending(k)' <=> Pending(k))
    BY <1>2, <1>4 DEF Made, Pending, evars
  <1>7. Outcomes' /\ Effects'
    BY <1>1, <1>4, <1>6 DEF Outcomes, Effects
  <1>8. ASSUME Carried PROVE Carried'
    <2>1. \A t, k : Named(t, k)' <=> Named(t, k)
      BY DEF Named, ThisCall
    <2>2. \A t, o : Follows(t, o)' <=> Follows(t, o)
      BY SameChains
    <2>3. \A r : Reply(r)' <=> Reply(r)
      BY <2>1, <2>2 DEF Reply
    <2>4. Reply(m) /\ \A i \in 1..Len(toMnt) : Reply(toMnt[i])
      BY <1>8 DEF Reads, Carried
    <2>5. (\A i \in 1..Len(toSrv) : toSrv[i].type = "T" => Named(toSrv[i].tag, toSrv[i].call))'
      BY <1>8, <2>1 DEF Carried
    <2>6. (\A k \in Calls : Active(k) => Named(rec[k].tag, k))'
      BY <1>4, <1>8, <2>1 DEF Carried
    <2>7. (\A i \in 1..Len(toMnt) : Reply(toMnt[i]))'
      <3>1. \A i \in 1..Len(toMnt') : \E r : r = toMnt'[i] /\ Reply(r)
        BY <2>4 DEF Reads
      <3>. QED
        BY <3>1, <2>3
    <2>8. (\A t \in Tags : Done(t) => reply[t].tag = t /\ Reply(reply[t]))'
      <3>1. \A t \in Tags : Done(t)' => \E r : r = reply'[t] /\ r.tag = t /\ Reply(r)
        <4>1. \A t \in Tags : reply'[t] = reply[t] => (Done(t)' <=> Done(t))
          BY DEF Done
        <4>. QED
          BY <4>1, <1>8, <2>4 DEF Reads, Carried
      <3>. QED
        BY <3>1, <2>3
    <2>9. (\A k \in Calls : \A t : Named(t, k) /\ k \in done => SomeAt(k, {"complete"}) \/ OnItsWay(k) \/ Done(t))'
      <3>1. SUFFICES ASSUME NEW k \in Calls, NEW t, Named(t, k), k \in done
                     PROVE  SomeAt(k, {"complete"}) \/ OnItsWay(k)' \/ Done(t)'
        BY <2>1, <1>4
      <3>2. PICK d \in Clients : chain[d] # <<>> /\ chain[d][1] = t
        BY <3>1 DEF Named
      <3>3. In(t, chain[d]) /\ t \in Tags
        BY <1>1, <3>2, NamedIs
      <3>4. CASE Done(t)
        BY <3>3, <3>4 DEF Reads
      <3>5. ASSUME NEW i \in 1..Len(toMnt), toMnt[i].type = "R", toMnt[i].call = k
            PROVE  OnItsWay(k)' \/ Done(t)'
        <4>1. CASE i = 1
          <5>1. m.type = "R" /\ m.call = k
            BY <3>5, <4>1 DEF Reads
          <5>2. m.tag = t
            BY <2>4, <3>1, <5>1, NamedOnce DEF Reply
          <5>. QED
            BY <3>3, <5>2 DEF Reads
        <4>2. CASE i # 1
          <5>1. i - 1 \in 1..Len(toMnt') /\ toMnt'[i - 1] = toMnt[i]
            BY <4>2 DEF Reads
          <5>. QED
            BY <3>5, <5>1 DEF OnItsWay
        <4>. QED
          BY <4>1, <4>2
      <3>. QED
        BY <1>8, <3>1, <3>4, <3>5 DEF Carried, OnItsWay
    <2>. QED
      BY <2>5, <2>6, <2>7, <2>8, <2>9 DEF Carried
  <1>9. ASSUME AllAnswered, \A c \in Clients : Doomed(c) => Doomed(c)' PROVE AllAnswered'
    <2>1. SUFFICES ASSUME NEW c \in Clients, chain[c] # <<>>, ~Doomed(c) PROVE Answered(c)'
      BY <1>9 DEF AllAnswered
    <2>2. PICK h : h = chain[c][1]
      OBVIOUS
    <2>3. Answered(c) /\ ThisCall(c) \in Calls /\ ThisCall(c)' = ThisCall(c) /\ h \in Tags /\ In(h, chain[c])
      BY <1>1, <1>9, <2>1, <2>2, ThisCallMade, NamedIs DEF AllAnswered, ThisCall
    <2>4. Settled(ThisCall(c))' <=> Settled(ThisCall(c))
      BY <1>4, <1>6 DEF Settled, ThisCall
    <2>5. Decided(c) => Decided(c)'
      BY <2>2, <2>3, <2>4 DEF Decided, Reads
    <2>6. m.tag = h => Decided(c)'
      BY <2>2, <2>3 DEF Decided, Reads
    <2>7. ASSUME NEW i \in 1..Len(toMnt'), In(toMnt'[i].tag, chain[c]) PROVE OwnReply(c, i)'
      <3>1. i + 1 \in 1..Len(toMnt) /\ toMnt'[i] = toMnt[i + 1]
        BY DEF Reads
      <3>2. PICK n : n = i + 1
        OBVIOUS
      <3>3. OwnReply(c, n)
        BY <2>3, <2>7, <3>1, <3>2 DEF Answered
      <3>4. CASE toMnt[n].type = "Rflush"
        <4>1. toMnt[n].tag # h
          BY <2>2, <3>3, <3>4 DEF OwnReply
        <4>2. ASSUME NEW j \in 1..(n - 1), toMnt[j].tag = h
              PROVE  Decided(c)' \/ \E b \in 1..(i - 1) : toMnt'[b].tag = h
          <5>1. CASE j = 1
            BY <2>6, <4>2, <5>1 DEF Reads
          <5>2. CASE j # 1
            <6>1. j \in 1..Len(toMnt) /\ j - 1 \in 1..(i - 1)
              BY <3>1, <3>2, <5>2
            <6>2. toMnt'[j - 1] = toMnt[j]
              BY <5>2, <6>1 DEF Reads
            <6>. QED
              BY <4>2, <6>1, <6>2
          <5>. QED
            BY <5>1, <5>2
        <4>3. Decided(c)' \/ \E b \in 1..(i - 1) : toMnt'[b].tag = h
          BY <2>2, <2>5, <3>3, <3>4, <4>2 DEF OwnReply
        <4>. QED
          BY <2>2, <3>1, <3>2, <3>4, <4>1, <4>3 DEF OwnReply
      <3>5. CASE toMnt[n].type # "Rflush"
        BY <2>3, <3>1, <3>2, <3>3, <3>5 DEF OwnReply
      <3>. QED
        BY <3>4, <3>5
    <2>8. ASSUME NEW t \in Tags, In(t, chain[c]), Done(t)' PROVE OwnDone(c, t)'
      <3>1. CASE reply'[t] = reply[t]
        <4>1. OwnDone(c, t)
          BY <2>3, <2>8, <3>1 DEF Answered, Done
        <4>. QED
          BY <2>3, <2>5, <3>1, <4>1 DEF OwnDone
      <3>2. CASE t = m.tag /\ reply'[t] = m
        <4>1. m = toMnt[1] /\ 1 \in 1..Len(toMnt)
          BY DEF Reads
        <4>2. OwnReply(c, 1)
          BY <2>3, <2>8, <3>2, <4>1 DEF Answered
        <4>3. ~\E j \in 1..(1 - 1) : TRUE
          OBVIOUS
        <4>. QED
          BY <2>3, <2>5, <3>2, <4>1, <4>2, <4>3 DEF OwnReply, OwnDone
      <3>. QED
        BY <3>1, <3>2 DEF Reads
    <2>. QED
      BY <2>7, <2>8 DEF Answered
  <1>. QED
    BY <1>1, <1>4, <1>5, <1>7, <1>8, <1>9 DEF Calling

\* How a call ends.
Result(c, v) ==
  LET k == ThisCall(c)
  IN \/ v = "ok" /\ k \in done
     \/ v = "rerror" /\ Settled(k)
     \/ v = "eintr" /\ Settled(k) /\ Len(chain[c]) > 1
     \/ v = "fail" /\ hung

\* The reply mountrpc looks at is its own, and if there is none it has been told
\* that there will be none.
LEMMA ReturnResult ==
  ASSUME Sides, Calling, AllAnswered, NEW c \in Clients, Return(c)
  PROVE  \E v : outcome' = [outcome EXCEPT ![ThisCall(c)] = v] /\ Result(c, v)
  <1>1. MountTypes /\ TagInv /\ RipInv /\ CountInv /\ Outcomes /\ Truthful
    BY DEF Sides, MountInv, Calling
  <1>2. cpc[c] = "return" \/ cpc[c] = "fail"
    BY DEF Return, CStep
  <1>3. chain[c] # <<>>
    BY <1>1, <1>2 DEF TagInv
  <1>4. PICK h, r : h = chain[c][1] /\ r = reply[h]
    OBVIOUS
  <1>5. PICK v : /\ outcome' = [outcome EXCEPT ![ThisCall(c)] = v]
                 /\ v = IF cpc[c] = "fail" THEN "fail"
                        ELSE CASE r.type = "R" -> IF r.call = ThisCall(c) THEN "ok" ELSE "other"
                               [] r.type = "Rerror" -> "rerror"
                               [] OTHER -> "eintr"
    BY <1>4 DEF Return
  <1>6. CASE cpc[c] = "fail"
    <2>1. v = "fail"
      BY <1>5, <1>6
    <2>2. hung
      BY <1>1, <1>6 DEF RipInv
    <2>. QED
      BY <1>5, <2>1, <2>2 DEF Result
  <1>7. CASE cpc[c] = "return"
    <2>1. Answered(c) /\ Done(Rpc(c))
      BY <1>1, <1>3, <1>7 DEF AllAnswered, Doomed, RipInv
    <2>2. ThisCall(c) \in Calls /\ h \in Tags /\ In(h, chain[c])
      BY <1>1, <1>3, <1>4, ThisCallMade, NamedIs
    <2>3. v = CASE r.type = "R" -> IF r.call = ThisCall(c) THEN "ok" ELSE "other"
                [] r.type = "Rerror" -> "rerror"
                [] OTHER -> "eintr"
      BY <1>5, <1>7
    <2>4. Honest(r) /\ r \in RMessages \cup {NoReply}
      BY <1>1, <1>4, <2>2 DEF Truthful, MountTypes
    <2>5. CASE Done(h)
      <3>1. r.type # "Rflush" /\ r.call = ThisCall(c) /\ r \in RMessages
        BY <1>4, <2>1, <2>2, <2>4, <2>5 DEF Answered, OwnDone, Done
      <3>2. CASE r.type = "R"
        <4>1. v = "ok"
          BY <2>3, <3>1, <3>2
        <4>. QED
          BY <1>5, <2>4, <3>1, <3>2, <4>1 DEF Honest, Result
      <3>3. CASE r.type = "Rerror"
        <4>1. v = "rerror"
          BY <2>3, <3>3
        <4>. QED
          BY <1>5, <2>4, <3>1, <3>3, <4>1 DEF Honest, Result
      <3>. QED
        BY <3>1, <3>2, <3>3 DEF RMessages
    <2>6. CASE ~Done(h)
      <3>1. r.type = "none"
        BY <1>4, <2>6 DEF Done, NoReply
      <3>2. v = "eintr"
        BY <2>3, <3>1
      <3>3. PICK z : z = Rpc(c)
        OBVIOUS
      <3>4. z \in Tags /\ In(z, chain[c]) /\ z = chain[c][Len(chain[c])] /\ Len(chain[c]) \in Nat \ {0}
        BY <1>1, <1>3, <3>3, LastIn DEF Rpc, MountTypes
      <3>5. z # h
        BY <2>1, <2>6, <3>3
      <3>6. OwnDone(c, z)
        BY <2>1, <3>3, <3>4 DEF Answered
      <3>7. Decided(c)
        BY <1>4, <3>5, <3>6 DEF OwnDone
      <3>8. Settled(ThisCall(c))
        BY <1>4, <2>6, <3>7 DEF Decided
      <3>9. Len(chain[c]) > 1
        BY <1>4, <3>4, <3>5
      <3>. QED
        BY <1>5, <3>2, <3>8, <3>9 DEF Result
    <2>. QED
      BY <2>5, <2>6
  <1>. QED
    BY <1>2, <1>6, <1>7

\* A call returns.
LEMMA ReturnCalls ==
  ASSUME Sides, Calling, AllAnswered, NEW c \in Clients, Return(c), UNCHANGED evars
  PROVE  Calling' /\ (Sound /\ Carried => Carried') /\ (hung => AllAnswered')
  <1>1. MountTypes /\ TagInv /\ QueueInv /\ RipInv /\ CountInv /\ ServerTypes /\ Outcomes /\ Errors /\ Effects /\ Truthful
    BY DEF Sides, MountInv, ServerInv, Calling
  <1>2. UNCHANGED <<ncalls, toSrv, toMnt, hung>>
    BY DEF Return, wirevars
  <1>3. /\ Freed(chain[c]) /\ chain'[c] = <<>> /\ \A d \in Clients \ {c} : chain'[d] = chain[d] /\ cpc'[d] = cpc[d]
    BY <1>1, ReturnTags
  <1>4. \A t \in Tags : reply'[t] = IF In(t, chain[c]) THEN NoReply ELSE reply[t]
    BY <1>3 DEF Freed
  <1>5. chain[c] # <<>>
    BY <1>1 DEF Return, CStep, TagInv
  <1>6. PICK v : outcome' = [outcome EXCEPT ![ThisCall(c)] = v] /\ Result(c, v)
    BY ReturnResult
  <1>7. PICK k : k = ThisCall(c)
    OBVIOUS
  <1>8. k \in Calls /\ Made(k) /\ k[1] = c /\ k[2] = ncalls[c]
    BY <1>1, <1>5, <1>7, ThisCallMade DEF ThisCall
  <1>9. \A l : Sending(l)' <=> Sending(l)
    BY <1>2 DEF Sending
  <1>10. \A d \in Clients : ncalls[d] \in Nat /\ ncalls'[d] \in Nat /\ ncalls[d] <= ncalls'[d] /\ ncalls'[d] = ncalls[d]
    BY <1>1, <1>2, WireAssumption DEF CountInv
  <1>11. /\ Onward /\ Errors' /\ UNCHANGED <<rec, performed, done>>
         /\ \A l : \A C : SomeAt(l, C)' <=> SomeAt(l, C)
         /\ \A l : Active(l)' <=> Active(l)
    BY <1>1, <1>9, <1>10, ServerWaits
  <1>12. Truthful'
    BY <1>1, <1>2, <1>4, <1>11, RepliesStay
  <1>13. /\ v \notin {"none", "called"} /\ outcome'[k] = v
         /\ \A l \in Calls : l # k => outcome'[l] = outcome[l]
    BY <1>1, <1>6, <1>7, <1>8 DEF Result, CountInv
  <1>14. \A l : (Made(l)' <=> Made(l)) /\ (Pending(l)' <=> Pending(l))
    BY <1>2, <1>9, <1>11 DEF Made, Pending, evars
  <1>15. Outcomes'
    <2>1. ASSUME NEW l \in Calls
          PROVE  /\ outcome'[l] = "none" <=> ~Made(l)'
                 /\ outcome'[l] = "called" <=> l[2] = ncalls'[l[1]] /\ chain'[l[1]] # <<>>
      <3>1. CASE l = k
        BY <1>3, <1>8, <1>13, <1>14, <3>1
      <3>2. CASE l # k /\ l[1] = c
        <4>1. l[2] # ncalls[c]
          BY <1>7, <3>2, CallIs DEF ThisCall
        <4>. QED
          BY <1>1, <1>2, <1>3, <1>13, <1>14, <3>2, <4>1 DEF Outcomes
      <3>3. CASE l[1] # c
        <4>1. chain'[l[1]] = chain[l[1]] /\ l # k
          BY <1>3, <1>8, <3>3, CallIs
        <4>. QED
          BY <1>1, <1>2, <1>13, <1>14, <4>1 DEF Outcomes
      <3>. QED
        BY <3>1, <3>2, <3>3
    <2>2. \A d \in Clients : chain'[d] # <<>> => ncalls'[d] > 0
      BY <1>1, <1>2, <1>3 DEF Outcomes
    <2>. QED
      BY <2>1, <2>2 DEF Outcomes
  <1>16. Effects'
    <2>1. k \in done => ~Pending(k)
      BY <1>1, <1>8 DEF Effects
    <2>2. Pending(k) => v = "fail"
      BY <1>6, <1>7, <2>1 DEF Result, Settled
    <2>3. ASSUME NEW l \in Calls
          PROVE  /\ l \in done' => performed'[l] = 1
                 /\ outcome'[l] = "none" => performed'[l] = 0
                 /\ Pending(l)' => performed'[l] = 0 /\ outcome'[l] \in {"called", "fail"}
      <3>1. CASE l = k
        BY <1>1, <1>11, <1>13, <1>14, <2>2, <3>1 DEF Effects
      <3>2. CASE l # k
        BY <1>1, <1>11, <1>13, <1>14, <3>2 DEF Effects
      <3>. QED
        BY <3>1, <3>2
    <2>. QED
      BY <2>3, <1>1, <1>11 DEF Effects
  <1>17. ASSUME hung PROVE AllAnswered'
    <2>1. ASSUME NEW d \in Clients, chain'[d] # <<>>, ~Doomed(d)' PROVE Answered(d)'
      <3>1. d # c /\ chain'[d] = chain[d] /\ cpc'[d] = cpc[d]
        BY <1>3, <2>1
      <3>2. chain[d] # <<>> /\ Answered(d)
        BY <1>2, <2>1, <3>1 DEF AllAnswered, Doomed
      <3>3. \A t \in Tags : In(t, chain[d]) => reply'[t] = reply[t]
        BY <1>1, <1>4, <3>1 DEF TagInv
      <3>. QED
        BY <3>1, <3>2, <3>3, <1>1, <1>2, <1>10, <1>11, SameAnswers
    <2>. QED
      BY <2>1 DEF AllAnswered
  <1>18. ASSUME Sound, Carried PROVE Carried'
    <2>1. Once /\ InLine /\ ~hung
      BY <1>18 DEF Sound, Tagged
    <2>2. Done(Rpc(c))
      BY <1>1, <2>1 DEF Return, CStep, RipInv
    <2>3. \A t, m, a : In(t, chain[c]) /\ Place(t, m, a) => m = 5
      BY <1>1, <1>5, <2>1, <2>2, AnsweredInOrder
    <2>4. ASSUME NEW t, NEW l, Named(t, l), ~In(t, chain[c]) PROVE Named(t, l)'
      <3>1. PICK d \in Clients : chain[d] # <<>> /\ chain[d][1] = t /\ l = <<d, ncalls[d]>>
        BY <2>4 DEF Named, ThisCall
      <3>2. d # c
        BY <1>1, <1>5, <2>4, <3>1, NamedIs
      <3>. QED
        BY <1>2, <1>3, <3>1, <3>2 DEF Named, ThisCall
    <2>5. ASSUME NEW t, NEW o, Follows(t, o), ~In(t, chain[c]) PROVE Follows(t, o)'
      <3>1. PICK d, i : d \in Clients /\ i \in 2..Len(chain[d]) /\ chain[d][i] = t /\ chain[d][1] = o
        BY <2>5 DEF Follows
      <3>2. i \in 1..Len(chain[d])
        BY <1>1, <3>1 DEF MountTypes
      <3>3. d # c
        BY <2>5, <3>1, <3>2 DEF In
      <3>. QED
        BY <1>3, <3>1, <3>3 DEF Follows
    <2>6. \A m : Reply(m) /\ ~In(m.tag, chain[c]) => Reply(m)'
      BY <2>4, <2>5 DEF Reply
    <2>7. ASSUME NEW t, NEW l, Named(t, l)' PROVE Named(t, l) /\ l # k
      <3>1. PICK d \in Clients : chain'[d] # <<>> /\ chain'[d][1] = t /\ l = <<d, ncalls'[d]>>
        BY <2>7 DEF Named, ThisCall
      <3>2. d # c /\ chain'[d] = chain[d]
        BY <1>3, <3>1
      <3>. QED
        BY <1>2, <1>7, <3>1, <3>2 DEF Named, ThisCall
    <2>8. (\A i \in 1..Len(toSrv) : toSrv[i].type = "T" => Named(toSrv[i].tag, toSrv[i].call))'
      <3>1. \A i \in 1..Len(toSrv) : ~In(toSrv[i].tag, chain[c])
        <4>1. \A i \in 1..Len(toSrv) : Place(toSrv[i].tag, 0, i)
          BY DEF Place, OnSrv
        <4>. QED
          BY <2>3, <4>1
      <3>2. \A i \in 1..Len(toSrv) : toSrv[i].type = "T" => Named(toSrv[i].tag, toSrv[i].call)
        BY <1>18 DEF Carried
      <3>. QED
        BY <1>2, <2>4, <3>1, <3>2
    <2>9. (\A l \in Calls : Active(l) => Named(rec[l].tag, l))'
      <3>1. SUFFICES ASSUME NEW l \in Calls, Active(l) PROVE Named(rec[l].tag, l)'
        BY <1>11
      <3>2. PICK t : t = rec[l].tag
        OBVIOUS
      <3>3. Named(t, l)
        BY <1>18, <3>1, <3>2 DEF Carried
      <3>4. OnExq(t, l) \/ OnJob(t, l)
        BY <3>1, <3>2 DEF Active, OnExq, OnJob, SomeAt, At, Busy
      <3>5. ~In(t, chain[c])
        BY <2>3, <3>4 DEF Place
      <3>6. Named(t, l)'
        BY <2>4, <3>3, <3>5
      <3>. QED
        BY <1>11, <3>2, <3>6
    <2>10. (\A i \in 1..Len(toMnt) : Reply(toMnt[i]))'
      <3>1. \A i \in 1..Len(toMnt) : \E m : m = toMnt[i] /\ Reply(m) /\ ~In(m.tag, chain[c])
        <4>1. \A i \in 1..Len(toMnt) : Place(toMnt[i].tag, 4, i)
          BY DEF Place, OnMnt
        <4>. QED
          BY <1>18, <2>3, <4>1 DEF Carried
      <3>. QED
        BY <1>2, <2>6, <3>1
    <2>11. (\A t \in Tags : Done(t) => reply[t].tag = t /\ Reply(reply[t]))'
      <3>1. \A t \in Tags : Done(t)' => Done(t) /\ reply'[t] = reply[t] /\ ~In(t, chain[c])
        BY <1>4 DEF Done
      <3>2. \A t \in Tags : Done(t)' => \E m : m = reply'[t] /\ m.tag = t /\ Reply(m)'
        BY <1>18, <2>6, <3>1 DEF Carried
      <3>. QED
        BY <3>2
    <2>12. (\A l \in Calls : \A t : Named(t, l) /\ l \in done => SomeAt(l, {"complete"}) \/ OnItsWay(l) \/ Done(t))'
      <3>1. SUFFICES ASSUME NEW l \in Calls, NEW t, Named(t, l)', l \in done
                     PROVE  SomeAt(l, {"complete"}) \/ OnItsWay(l)' \/ Done(t)'
        BY <1>11
      <3>2. PICK d \in Clients : chain[d] # <<>> /\ chain[d][1] = t /\ d # c
        BY <1>3, <3>1 DEF Named
      <3>3. In(t, chain[d]) /\ t \in Tags
        BY <1>1, <3>2, NamedIs
      <3>4. Done(t) => Done(t)'
        BY <1>1, <1>4, <3>2, <3>3 DEF TagInv, Done
      <3>5. OnItsWay(l)' <=> OnItsWay(l)
        BY <1>2 DEF OnItsWay
      <3>. QED
        BY <1>18, <2>7, <3>1, <3>4, <3>5 DEF Carried
    <2>. QED
      BY <2>8, <2>9, <2>10, <2>11, <2>12 DEF Carried
  <1>. QED
    BY <1>11, <1>12, <1>15, <1>16, <1>17, <1>18 DEF Calling

-----------------------------------------------------------------------------
(* The invariant is one.                                                   *)

\* What each of the server's steps does.
LEMMA ServerServed ==
  ASSUME Sides, FlushInv, Calling, Serve \/ \E s \in Slaves : Slave(s) \/ Work(s)
  PROVE  Served /\ UNCHANGED mvars /\ UNCHANGED hung
  <1>1. /\ ServerTypes /\ CallInv /\ SlaveInv /\ RecInv /\ KillHitsItsRequest /\ Errors /\ Effects
        /\ ~hung => Carriers
    BY DEF Sides, ServerInv, Calling, FlushInv, Tagged
  <1>2. ASSUME Serve PROVE Served /\ UNCHANGED hung
    <2>1. UNCHANGED hung
      BY <1>2 DEF Serve, ExportprocStep, Enqueue, FlushQueued, FlushStarted, ShutQueued, ShutStarted, wirevars
    <2>. QED
      BY <2>1, <1>1, <1>2, EnqueueServed, FlushQueuedServed, FlushStartedServed, ShutQueuedServed, ShutStartedServed
         DEF Serve, ExportprocStep
  <1>3. ASSUME NEW s \in Slaves, Slave(s) \/ Work(s) PROVE Served /\ UNCHANGED hung
    <2>1. UNCHANGED hung
      BY <1>3 DEF Slave, Work, SlaveStep, Take, Dispatch, Fcall, Complete, NextFlush, Finish, wirevars
    <2>. QED
      BY <2>1, <1>1, <1>3, TakeServed, DispatchServed, FcallServed, CompleteServed, NextFlushServed, FinishServed
         DEF Slave, Work, SlaveStep
  <1>. QED
    BY <1>2, <1>3 DEF Serve, Slave, Work

\* Every step keeps what does not follow from the order of the tags.
LEMMA RpcKeeps ==
  ASSUME Sides, FlushInv, RpcInv, [Next]_vars
  PROVE  Calling' /\ (~hung' => Carried') /\ (hung' => AllAnswered')
  <1>1. /\ Calling /\ (~hung => Carried) /\ AllAnswered /\ (~hung => Sound)
        /\ MountTypes /\ TagInv /\ CountInv /\ Outcomes
    BY DEF RpcInv, FlushInv, Sound, Sides, MountInv, Calling
  <1>2. ASSUME NEW c \in Clients, Mount(c) \/ Kill(c)
        PROVE  Calling' /\ (~hung' => Carried') /\ (hung' => AllAnswered')
    <2>1. UNCHANGED evars
      BY <1>2 DEF Mount, Kill
    <2>2. CASE Gate(c) \/ Attend(c) \/ WakeTarget(c) \/ MntGate(c) \/ InterruptClient(c)
      <3>1. /\ UNCHANGED <<ncalls, chain, reply, outcome, toSrv, toMnt, hung>>
            /\ \A d \in Clients : Doomed(d) => Doomed(d)'
        BY <1>1, <2>2, QuietSteps
      <3>. QED
        BY <3>1, <1>1, <2>1, QuietKeeps
    <2>3. CASE Flush(c)
      <3>1. UNCHANGED hung
        BY <2>3 DEF Flush, Transmit
      <3>. QED
        BY <3>1, <1>1, <2>1, <2>3, FlushCalls
    <2>4. CASE Read(c)
      <3>1. /\ UNCHANGED <<ncalls, chain, outcome, toSrv, hung>>
            /\ \A d \in Clients : Doomed(d) => Doomed(d)'
            /\ UNCHANGED <<toMnt, reply>> \/ \E m : Reads(m)
        BY <2>4, ReadEffect
      <3>2. CASE UNCHANGED <<toMnt, reply>>
        BY <3>1, <3>2, <1>1, <2>1, QuietKeeps
      <3>3. ASSUME NEW m, Reads(m) PROVE Calling' /\ (~hung' => Carried') /\ (hung' => AllAnswered')
        BY <3>1, <3>3, <1>1, <2>1, ReadsKeeps
      <3>. QED
        BY <3>1, <3>2, <3>3
    <2>5. CASE Return(c)
      <3>1. UNCHANGED hung
        BY <2>5 DEF Return, wirevars
      <3>. QED
        BY <3>1, <1>1, <2>1, <2>5, ReturnCalls
    <2>. QED
      BY <1>2, <2>2, <2>3, <2>4, <2>5 DEF Mount, MountioStep, Kill
  <1>3. ASSUME NEW c \in Clients, NewCall(c) PROVE Calling' /\ (~hung' => Carried') /\ (hung' => AllAnswered')
    <2>1. ~hung /\ Call(c) /\ UNCHANGED evars /\ UNCHANGED hung
      BY <1>3 DEF NewCall, Call, Transmit
    <2>. QED
      BY <2>1, <1>1, CallCalls
  <1>4. ASSUME Serve \/ \E s \in Slaves : Slave(s) \/ Work(s)
        PROVE  Calling' /\ (~hung' => Carried') /\ (hung' => AllAnswered')
    <2>1. Served /\ UNCHANGED mvars /\ UNCHANGED hung
      BY <1>1, <1>4, ServerServed
    <2>2. Calling' /\ (~hung' => Carried') /\ Onward
      BY <1>1, <2>1, ServedKeeps
    <2>3. UNCHANGED <<chain, reply, ncalls, cpc>>
      BY <2>1 DEF mvars
    <2>4. ASSUME hung, NEW c \in Clients, chain[c] # <<>>, ~Doomed(c) PROVE Answered(c)'
      <3>1. Answered(c)
        BY <1>1, <2>4 DEF AllAnswered
      <3>2. toMnt' = toMnt
        BY <2>1, <2>4 DEF Served
      <3>. QED
        BY <3>1, <3>2, <1>1, <2>2, <2>3, <2>4, SameAnswers
    <2>5. \A c \in Clients : Doomed(c)' <=> Doomed(c)
      BY <2>1, <2>3 DEF Doomed
    <2>6. hung' => AllAnswered'
      BY <2>1, <2>3, <2>4, <2>5 DEF AllAnswered
    <2>. QED
      BY <2>2, <2>6
  <1>5. ASSUME Break PROVE Calling' /\ (~hung' => Carried') /\ (hung' => AllAnswered')
    <2>1. /\ UNCHANGED evars /\ UNCHANGED <<ncalls, chain, reply, outcome, cpc, toSrv, toMnt>>
          /\ ~hung /\ hung'
      BY <1>5 DEF Break, Hangup, mvars
    <2>2. Calling'
      BY <2>1, <1>1, QuietKeeps
    <2>3. Onward
      <3>1. \A k : (Made(k)' <=> Made(k)) /\ (Pending(k)' <=> Pending(k))
        BY <2>1 DEF Made, Pending, Sending, SomeAt, At, evars
      <3>2. UNCHANGED <<performed, done>>
        BY <2>1 DEF evars
      <3>. QED
        BY <3>1, <3>2 DEF Onward
    <2>4. ASSUME NEW c \in Clients, chain[c] # <<>> PROVE Answered(c)'
      <3>1. Answered(c)
        BY <1>1, <2>1, <2>4 DEF AllAnswered, Doomed
      <3>. QED
        BY <3>1, <1>1, <2>1, <2>3, <2>4, SameAnswers
    <2>. QED
      BY <2>1, <2>2, <2>4 DEF AllAnswered
  <1>6. ASSUME UNCHANGED vars PROVE Calling' /\ (~hung' => Carried') /\ (hung' => AllAnswered')
    <2>1. /\ UNCHANGED evars /\ UNCHANGED <<ncalls, chain, reply, outcome, cpc, toSrv, toMnt, hung>>
          /\ \A c \in Clients : Doomed(c) => Doomed(c)'
      BY <1>6 DEF vars, mvars, wirevars, Doomed
    <2>. QED
      BY <2>1, <1>1, QuietKeeps
  <1>. QED
    BY <1>2, <1>3, <1>4, <1>5, <1>6 DEF Next

\* No call, no message and no request.
LEMMA InitRpcInv == Init => RpcInv
  <1>1. SUFFICES ASSUME Init PROVE RpcInv
    OBVIOUS
  <1>2. /\ toSrv = <<>> /\ toMnt = <<>> /\ exq = <<>>
        /\ \A s \in Slaves : spc[s] = "wait"
        /\ \A k \in Calls : rec[k].err = FALSE /\ outcome[k] = "none" /\ performed[k] = 0 /\ k \notin done
        /\ performed \in [Calls -> {0, 1}]
        /\ \A c \in Clients : chain[c] = <<>> /\ ncalls[c] = 0
        /\ \A t \in Tags : reply[t] = NoReply
    BY <1>1 DEF Init, WireInit, MInit, EInit, BlankExq
  <1>3. \A k : /\ ~Sending(k) /\ ~In(k, exq) /\ ~OnItsWay(k)
               /\ ~SomeAt(k, {"dispatch", "fcall"}) /\ ~SomeAt(k, {"complete"}) /\ ~SomeAt(k, {"dispatch", "fcall", "complete"})
    BY <1>2, EmptyIn DEF Sending, OnItsWay, SomeAt, At
  <1>4. Outcomes
    BY <1>2, CallIs DEF Outcomes, Made
  <1>5. Errors /\ Effects
    BY <1>2, <1>3 DEF Errors, Effects, Pending
  <1>6. Truthful
    BY <1>2 DEF Truthful, Honest, NoReply
  <1>7. Carried
    <2>1. \A t, k : ~Named(t, k)
      BY <1>2 DEF Named
    <2>. QED
      BY <2>1, <1>2, <1>3 DEF Carried, Active, Done
  <1>8. AllAnswered
    BY <1>2 DEF AllAnswered
  <1>. QED
    BY <1>4, <1>5, <1>6, <1>7, <1>8 DEF RpcInv, Calling

\* All that is known.
AllInv == Sides /\ FlushInv /\ RpcInv

\* The whole of the invariant is inductive: the order of the tags gives AllAnswered
\* back after a step while the connection stands.
LEMMA AllInductive == AllInv /\ [Next]_vars => AllInv'
  <1>1. AllInv /\ [Next]_vars => Sides' /\ FlushInv'
    BY SidesInductive, FlushInductive DEF AllInv
  <1>2. AllInv /\ [Next]_vars => Calling' /\ (~hung' => Carried') /\ (hung' => AllAnswered')
    BY RpcKeeps DEF AllInv
  <1>3. (Sides /\ Tagged /\ Carried /\ Calling => AllAnswered)'
    BY InOrder, PTL
  <1>. QED
    BY <1>1, <1>2, <1>3 DEF AllInv, RpcInv, FlushInv

\* It holds from the start.
LEMMA SpecAll == Spec => []AllInv
  <1>1. Init => AllInv
    BY InitSides, InitFlushInv, InitRpcInv DEF AllInv
  <1>. QED
    BY <1>1, AllInductive, PTL DEF Spec

-----------------------------------------------------------------------------
(* Every step is one of RpcService or leaves its variables alone.          *)

\* An interrupt of c has not yet been honoured.
Ask(c) == killed[c] \/ cpc[c] = "eintr" \/ Len(chain[c]) > 1
Asks == [c \in Clients |-> Ask(c)]
SameAsks == \A c \in Clients : Ask(c)' <=> Ask(c)

\* The function is the same where its values are.
LEMMA SameAsksIs == SameAsks => Asks' = Asks
  <1>1. SUFFICES ASSUME SameAsks PROVE Asks' = Asks
    OBVIOUS
  <1>2. \A c \in Clients : Ask(c)' = Ask(c)
    BY <1>1 DEF SameAsks, Ask
  <1>. QED
    BY <1>2 DEF Asks

\* A client at mountio takes an interrupt only on its way to a flush.
LEMMA MountAsks ==
  ASSUME Sides, NEW c \in Clients, Gate(c) \/ Attend(c) \/ Read(c) \/ WakeTarget(c) \/ MntGate(c)
  PROVE  SameAsks /\ UNCHANGED <<outcome, hung>>
  <1>1. MountTypes /\ killed \in [Clients \cup Slaves -> BOOLEAN]
    BY DEF Sides, MountInv, ServerInv, ServerTypes
  <1>2. UNCHANGED <<chain, outcome, hung>>
    BY DEF Gate, Attend, Read, WakeTarget, MntGate, wirevars
  <1>3. ASSUME NEW d \in Clients PROVE killed'[d] \/ cpc'[d] = "eintr" <=> killed[d] \/ cpc[d] = "eintr"
    <2>1. CASE Gate(c) \/ Attend(c)
      BY <1>1, <2>1 DEF Gate, Attend, CStep, Notkilled, MountTypes
    <2>2. CASE Read(c)
      BY <1>1, <2>2 DEF Read, Mountmux, CStep, Notkilled, MountTypes
    <2>3. CASE WakeTarget(c)
      BY <1>1, <2>3 DEF WakeTarget, Sleeper, MountTypes
    <2>4. CASE MntGate(c)
      <3>1. \A e \in NextReader : cpc[e] = "asleep"
        BY DEF NextReader, Sleeper
      <3>. QED
        BY <1>1, <2>4, <3>1 DEF MntGate, MountTypes
    <2>. QED
      BY <2>1, <2>2, <2>3, <2>4
  <1>. QED
    BY <1>2, <1>3 DEF SameAsks, Ask

\* A flush goes out for a call that was interrupted, and says so.
LEMMA FlushAsks ==
  ASSUME Sides, NEW c \in Clients, Flush(c), Len(chain'[c]) > 1, \A d \in Clients \ {c} : chain'[d] = chain[d]
  PROVE  SameAsks /\ hung' = hung
  <1>1. MountTypes /\ killed \in [Clients \cup Slaves -> BOOLEAN]
    BY DEF Sides, MountInv, ServerInv, ServerTypes
  <1>2. /\ cpc[c] = "eintr" /\ hung' = hung
        /\ \A d \in Clients \ {c} : cpc'[d] = cpc[d] /\ killed'[d] = killed[d]
    BY <1>1 DEF Flush, Transmit, CStep, Notkilled, MountTypes
  <1>3. ASSUME NEW d \in Clients PROVE Ask(d)' <=> Ask(d)
    BY <1>2 DEF Ask
  <1>. QED
    BY <1>2, <1>3 DEF SameAsks

\* An interrupt that comes before the request is written is there after it.
LEMMA CallAsks ==
  ASSUME Sides, NEW c \in Clients, Call(c), chain[c] = <<>>, Len(chain'[c]) = 1,
         \A d \in Clients \ {c} : chain'[d] = chain[d]
  PROVE  SameAsks /\ hung' = hung
  <1>1. MountTypes /\ killed \in [Clients \cup Slaves -> BOOLEAN]
    BY DEF Sides, MountInv, ServerInv, ServerTypes
  <1>2. PICK k : Transmit(c, k, "idle")
    BY DEF Call
  <1>3. /\ hung' = hung /\ \A d \in Clients \ {c} : cpc'[d] = cpc[d] /\ killed'[d] = killed[d]
        /\ killed'[c] \/ cpc'[c] = "eintr" <=> killed[c] \/ cpc[c] = "eintr"
    BY <1>1, <1>2 DEF Transmit, CStep, Notkilled, MountTypes
  <1>4. Len(chain[c]) = 0
    OBVIOUS
  <1>5. ASSUME NEW d \in Clients PROVE Ask(d)' <=> Ask(d)
    <2>1. CASE d = c
      <3>1. ~(Len(chain[c]) > 1) /\ ~(Len(chain'[c]) > 1)
        BY <1>4
      <3>. QED
        BY <1>3, <2>1, <3>1 DEF Ask
    <2>2. CASE d # c
      BY <1>3, <2>2 DEF Ask
    <2>. QED
      BY <2>1, <2>2
  <1>. QED
    BY <1>3, <1>5 DEF SameAsks

\* The server interrupts no client.
LEMMA ServerAsks ==
  ASSUME Sides, Serve \/ \E s \in Slaves : Slave(s) \/ Work(s)
  PROVE  SameAsks
  <1>1. /\ killed \in [Clients \cup Slaves -> BOOLEAN] /\ rec \in [Calls -> ExqRecs] /\ work \in Seq(Calls)
        /\ SlaveInv /\ RecInv
    BY DEF Sides, ServerInv, ServerTypes
  <1>2. \A c \in Clients : c \notin Slaves
    BY WireAssumption
  <1>3. UNCHANGED <<chain, cpc>>
    BY DEF Serve, Slave, Work, mvars
  <1>4. ASSUME NEW c \in Clients PROVE killed'[c] = killed[c]
    <2>1. ASSUME NEW s \in Slaves, Slave(s) \/ Work(s) PROVE killed'[c] = killed[c]
      BY <1>1, <1>2, <2>1 DEF Slave, Work, SlaveStep, Take, Dispatch, Fcall, Complete, NextFlush, Finish, Notkilled
    <2>2. CASE Enqueue \/ FlushQueued \/ ShutQueued
      BY <2>2 DEF Enqueue, FlushQueued, ShutQueued
    <2>3. CASE FlushStarted
      <3>1. SUFFICES ASSUME killed' # killed PROVE killed'[c] = killed[c]
        OBVIOUS
      <3>2. PICK k : k = Head(WithTag(work, ereq.oldtag))
        OBVIOUS
      <3>3. WithTag(work, ereq.oldtag) # <<>> /\ killed' = InterruptSlave(k)
        BY <2>3, <3>1, <3>2 DEF FlushStarted
      <3>4. k \in Calls
        BY <1>1, <3>2, <3>3, WithoutHead DEF WithTag
      <3>5. rec[k].busy /\ killed' = [killed EXCEPT ![rec[k].slave] = TRUE]
        BY <3>1, <3>3 DEF InterruptSlave
      <3>6. rec[k].slave \in Slaves
        BY <1>1, <3>4, <3>5 DEF RecInv, SlaveInv, SomeAt, At, Busy, Working
      <3>. QED
        BY <1>1, <1>2, <3>5, <3>6
    <2>4. CASE ShutStarted
      <3>1. \A k \in Range(work) : rec[k].slave \in Slaves
        BY <1>1, InRange DEF RecInv, SlaveInv, SomeAt, At, Working
      <3>. QED
        BY <1>1, <1>2, <2>4, <3>1 DEF ShutStarted
    <2>. QED
      BY <2>1, <2>2, <2>3, <2>4 DEF Serve, ExportprocStep
  <1>. QED
    BY <1>3, <1>4 DEF SameAsks, Ask

\* The interrupt is honoured, or comes while the call returns.
LEMMA ReturnServes ==
  ASSUME Sides, Calling, AllAnswered, NEW c \in Clients, Return(c), UNCHANGED evars
  PROVE  \E k \in Calls : Service!Return(k)
  <1>1. MountTypes /\ TagInv /\ QueueInv /\ CountInv /\ Outcomes
    BY DEF Sides, MountInv, Calling
  <1>2. UNCHANGED <<hung, killed>> /\ UNCHANGED <<performed, done>>
    BY DEF Return, wirevars, evars
  <1>3. /\ chain'[c] = <<>> /\ \A d \in Clients \ {c} : chain'[d] = chain[d]
        /\ cpc'[c] = "idle" /\ \A d \in Clients \ {c} : cpc'[d] = cpc[d]
    BY <1>1, ReturnTags
  <1>4. chain[c] # <<>>
    BY <1>1 DEF Return, CStep, TagInv
  <1>5. PICK k : k = ThisCall(c)
    OBVIOUS
  <1>6. k \in Calls /\ k[1] = c /\ outcome[k] = "called"
    BY <1>1, <1>4, <1>5, ThisCallMade DEF ThisCall
  <1>7. PICK v : outcome' = [outcome EXCEPT ![k] = v] /\ Result(c, v)
    BY <1>5, ReturnResult
  <1>8. Service!Answered(k)
    <2>1. Len(chain[c]) > 1 => Asks[k[1]]
      BY <1>6 DEF Asks, Ask
    <2>2. \/ v = "ok" /\ k \in done
          \/ v = "rerror" /\ k \notin done
          \/ v = "eintr" /\ k \notin done /\ Asks[k[1]]
          \/ v = "fail" /\ hung
      BY <1>5, <1>7, <2>1 DEF Result, Settled
    <2>. QED
      BY <1>7, <2>2 DEF Service!Answered, Asks, Ask
  <1>9. Asks' \in {Asks, [Asks EXCEPT ![c] = FALSE]}
    <2>1. Len(chain'[c]) = 0
      BY <1>3
    <2>2. \A d \in Clients : Ask(d)' <=> IF d = c THEN killed[c] ELSE Ask(d)
      BY <1>2, <1>3, <2>1 DEF Ask
    <2>3. CASE killed[c]
      BY <2>2, <2>3, SameAsksIs DEF SameAsks, Ask
    <2>4. CASE ~killed[c]
      <3>1. \A d \in Clients : Ask(d)' = IF d = c THEN FALSE ELSE Ask(d)
        BY <2>2, <2>4 DEF Ask
      <3>. QED
        BY <3>1 DEF Asks
    <2>. QED
      BY <2>3, <2>4
  <1>. QED
    BY <1>2, <1>6, <1>8, <1>9 DEF Service!Return, Asks, Ask

\* A client makes its calls one after the other.
LEMMA CallServes ==
  ASSUME Sides, Calling, NEW c \in Clients, Call(c), UNCHANGED evars
  PROVE  \E k \in Calls : Service!Call(k)
  <1>1. Outcomes /\ CountInv
    BY DEF Sides, MountInv, Calling
  <1>2. PICK k : k = <<c, ncalls[c] + 1>>
    OBVIOUS
  <1>3. /\ outcome' = [outcome EXCEPT ![k] = "called"] /\ k \in Calls /\ ~Made(k) /\ chain[c] = <<>>
        /\ Len(chain'[c]) = 1 /\ \A d \in Clients \ {c} : chain'[d] = chain[d]
    BY <1>2, CallCalls
  <1>4. Asks' = Asks /\ hung' = hung
    BY <1>3, CallAsks, SameAsksIs
  <1>5. k[1] = c /\ k[2] = ncalls[c] + 1 /\ ncalls[c] \in Nat
    BY <1>1, <1>2, WireAssumption DEF CountInv
  <1>6. ASSUME NEW n \in 1..(k[2] - 1) PROVE outcome[<<k[1], n>>] \notin {"none", "called"}
    <2>1. PICK l : l = <<c, n>>
      OBVIOUS
    <2>2. l \in Calls /\ l[1] = c /\ l[2] = n /\ n \in 1..ncalls[c]
      BY <1>3, <1>5, <2>1, WireAssumption DEF Calls
    <2>3. Made(l)
      BY <2>2 DEF Made
    <2>. QED
      BY <1>1, <1>3, <1>5, <2>1, <2>2, <2>3 DEF Outcomes
  <1>7. outcome[k] = "none" /\ UNCHANGED <<performed, done>>
    BY <1>1, <1>3 DEF Outcomes, evars
  <1>. QED
    BY <1>3, <1>4, <1>6, <1>7 DEF Service!Call, Asks, Ask

\* Each step of the two sides, and the step of RpcService it is.
LEMMA ServiceStep ==
  ASSUME AllInv, [Next]_vars
  PROVE  [Service!Next]_<<outcome, performed, done, Asks, hung>>
  <1>1. /\ Sides /\ FlushInv /\ Calling /\ AllAnswered
        /\ MountTypes /\ killed \in [Clients \cup Slaves -> BOOLEAN]
        /\ ServerTypes /\ CallInv /\ SlaveInv /\ Errors /\ Effects
    BY DEF AllInv, Sides, MountInv, ServerInv, ServerTypes, RpcInv, Calling
  <1>2. Calls = Service!Calls
    BY DEF Calls, Service!Calls
  <1>3. ASSUME NEW c \in Clients, Mount(c)
        PROVE  UNCHANGED <<outcome, performed, done, Asks, hung>> \/ \E k \in Calls : Service!Return(k)
    <2>1. UNCHANGED evars /\ UNCHANGED <<performed, done>>
      BY <1>3 DEF Mount, evars
    <2>2. CASE Return(c)
      BY <1>1, <2>1, <2>2, ReturnServes
    <2>3. CASE Flush(c)
      BY <1>1, <2>1, <2>3, FlushCalls, FlushAsks, SameAsksIs
    <2>4. CASE Gate(c) \/ Attend(c) \/ Read(c) \/ WakeTarget(c) \/ MntGate(c)
      BY <1>1, <2>1, <2>4, MountAsks, SameAsksIs
    <2>. QED
      BY <1>3, <2>2, <2>3, <2>4 DEF Mount, MountioStep
  <1>4. ASSUME NEW c \in Clients, NewCall(c) PROVE \E k \in Calls : Service!Call(k)
    BY <1>1, <1>4, CallServes DEF NewCall
  <1>5. ASSUME NEW c \in Clients, Kill(c) PROVE Service!Interrupt(c)
    <2>1. UNCHANGED <<outcome, performed, done, hung, chain>> /\ InterruptClient(c)
      BY <1>5 DEF Kill, InterruptClient, evars, wirevars
    <2>2. \A d \in Clients : Ask(d)' <=> d = c \/ Ask(d)
      BY <1>1, <2>1 DEF InterruptClient, Ask, MountTypes
    <2>3. \A d \in Clients : Ask(d)' = IF d = c THEN TRUE ELSE Ask(d)
      BY <2>2 DEF Ask
    <2>4. Asks' = [Asks EXCEPT ![c] = TRUE]
      BY <2>3 DEF Asks
    <2>. QED
      BY <2>1, <2>4 DEF Service!Interrupt, Asks, Ask
  <1>6. ASSUME Serve \/ \E s \in Slaves : Slave(s) \/ Work(s)
        PROVE  UNCHANGED <<outcome, performed, done, Asks, hung>> \/ \E k \in Calls : Service!Perform(k)
    <2>1. Asks' = Asks
      BY <1>1, <1>6, ServerAsks, SameAsksIs
    <2>2. outcome' = outcome /\ hung' = hung
      BY <1>1, <1>6, ServerServed DEF mvars
    <2>3. UNCHANGED <<performed, done>> \/ Performs
      <3>1. ASSUME NEW s \in Slaves, Work(s) PROVE UNCHANGED <<performed, done>> \/ Performs
        BY <1>1, <3>1, FcallServed DEF Work
      <3>2. ASSUME NEW s \in Slaves, Slave(s) PROVE UNCHANGED <<performed, done>>
        BY <3>2 DEF Slave, SlaveStep, Take, Dispatch, Complete, NextFlush, Finish
      <3>3. ASSUME Serve PROVE UNCHANGED <<performed, done>>
        BY <3>3 DEF Serve, ExportprocStep, Enqueue, FlushQueued, FlushStarted, ShutQueued, ShutStarted
      <3>. QED
        BY <1>6, <3>1, <3>2, <3>3
    <2>. QED
      BY <2>1, <2>2, <2>3 DEF Performs, Service!Perform, Asks, Ask
  <1>7. ASSUME Break PROVE Service!Break
    <2>1. UNCHANGED <<outcome, performed, done, killed, cpc, chain>> /\ hung'
      BY <1>7 DEF Break, Hangup, mvars, evars
    <2>2. SameAsks
      BY <2>1 DEF SameAsks, Ask
    <2>3. hung' = TRUE
      BY <1>7 DEF Break, Hangup
    <2>. QED
      BY <2>1, <2>2, <2>3, SameAsksIs DEF Service!Break, Asks, Ask
  <1>8. ASSUME UNCHANGED vars PROVE UNCHANGED <<outcome, performed, done, Asks, hung>>
    <2>1. SameAsks /\ UNCHANGED <<outcome, performed, done, hung>>
      BY <1>8 DEF vars, mvars, evars, wirevars, SameAsks, Ask
    <2>. QED
      BY <2>1, SameAsksIs
  <1>. QED
    BY <1>2, <1>3, <1>4, <1>5, <1>6, <1>7, <1>8 DEF Next, Service!Next

\* No call has been made and no interrupt is there.
LEMMA InitService == Init => Service!Init
  <1>1. SUFFICES ASSUME Init PROVE Service!Init
    OBVIOUS
  <1>2. /\ outcome = [k \in Calls |-> "none"] /\ performed = [k \in Calls |-> 0] /\ done = {} /\ hung = FALSE
        /\ \A c \in Clients : cpc[c] = "idle" /\ chain[c] = <<>> /\ ~killed[c]
    BY <1>1 DEF Init, WireInit, MInit, EInit
  <1>3. \A c \in Clients : Len(chain[c]) = 0
    BY <1>2
  <1>4. \A c \in Clients : Ask(c) = FALSE
    BY <1>2, <1>3 DEF Ask
  <1>5. Asks = [c \in Clients |-> FALSE]
    BY <1>4 DEF Asks
  <1>. QED
    BY <1>2, <1>5 DEF Service!Init, Service!Calls, Calls, Asks, Ask

\* The mount driver and the Styx server together do what RpcService promises
\* (devmnt.c mountrpc, exportfs.c exslave): a call has its effect at most once
\* and none after it has returned, it returns its own result, which is not lost
\* if its request was done, it returns interrupted only if its process was, and
\* nothing but a broken connection leaves open whether its effect is to come.
THEOREM ImplementsRpcService == Spec => CallsAreOnce
  <1>1. AllInv /\ [Next]_vars => [Service!Next]_<<outcome, performed, done, Asks, hung>>
    BY ServiceStep
  <1>. QED
    BY <1>1, InitService, SpecAll, PTL DEF Spec, CallsAreOnce, Service!Spec, Service!vars, Asks, Ask
=============================================================================
