--------------------------------- MODULE Mnt ---------------------------------
(***************************************************************************)
(* The RPC engine of the mount driver (emu/port/devmnt.c): mountrpc,       *)
(* mountio and what they call.  Any number of processes share a            *)
(* connection.  Each puts its request on Mnt.queue and writes it; one of   *)
(* those waiting, Mnt.rip, reads the replies for all of them; the others   *)
(* sleep on their own request.  An interrupted process sends a Tflush for  *)
(* its request and waits for that one's answer, and an interrupted wait    *)
(* for an Rflush sends a further Tflush for the same request.              *)
(*                                                                         *)
(* A Mntrpc keeps its tag while it is on rpcfree, so it is named by its    *)
(* tag.  The chain of a client is its request followed by the flushes it   *)
(* has sent (Mntrpc.flushed, from the other end).  Fields of a Mntrpc that *)
(* is free are not read before mntralloc clears them: its reply is NoReply.*)
(* Read and write of the connection may raise Eintr when the process has   *)
(* been killed; a write that does may or may not have sent its message.    *)
(***************************************************************************)
EXTENDS StyxWire

VARIABLES
  cpc,        \* control point of each client in mountio
  ncalls,     \* calls each client has made
  chain,      \* tags of the Mntrpcs of its call; the last one is mountio's r
  target,     \* q of mountmux, between unlock and Wakeup
  reply,      \* Mntrpc.reply once Mntrpc.done
  mqueue,     \* Mnt.queue
  rip,        \* Mnt.rip
  rpcfree,    \* mntalloc.rpcfree
  tagmask,    \* mntalloc.tagmask
  outcome     \* how each call ended: "ok", with the result of its own request,
              \* "other", with another's, "rerror", with the server's error,
              \* "eintr" or "fail"

mvars == <<cpc, ncalls, chain, target, reply, mqueue, rip, rpcfree, tagmask,
           outcome>>

NoReply == [type |-> "none"]
CPC == {"idle", "gate", "asleep", "awake", "read", "wake", "eintr",
        "fail", "return"}

CStep(c, a, b) == cpc[c] = a /\ cpc' = [cpc EXCEPT ![c] = b]

Rpc(c) == Last(chain[c])
Done(t) == reply[t] # NoReply
ThisCall(c) == <<c, ncalls[c]>>

MInit ==
  /\ cpc = [c \in Clients |-> "idle"]
  /\ ncalls = [c \in Clients |-> 0]
  /\ chain = [c \in Clients |-> <<>>]
  /\ target = [c \in Clients |-> MaxTag]
  /\ reply = [t \in Tags |-> NoReply]
  /\ mqueue = <<>>
  /\ rip = NoOne
  /\ rpcfree = <<>>
  /\ tagmask = {}
  /\ outcome = [k \in Calls |-> "none"]

-----------------------------------------------------------------------------
(* Mntrpcs and tags                                                        *)

\* mntralloc for client c, its Mntrpc put at the end of c's chain.
Mntralloc(c) ==
  /\ \/ /\ rpcfree # <<>>
        /\ chain' = [chain EXCEPT ![c] = Append(@, Head(rpcfree))]
        /\ rpcfree' = Tail(rpcfree)
        /\ UNCHANGED tagmask
     \/ /\ rpcfree = <<>>
        /\ \E t \in Tags \ tagmask :
             /\ \A u \in Tags \ tagmask : t <= u
             /\ chain' = [chain EXCEPT ![c] = Append(@, t)]
             /\ tagmask' = tagmask \cup {t}
        /\ UNCHANGED rpcfree

\* Of n Mntrpcs freed, those that go to rpcfree.
Kept(n) == Min({n, MaxFree - Len(rpcfree)})

\* mntfree of the last flush first, of the request last.
Mntfree(ts) ==
  LET order == Reverse(ts)
      kept == Kept(Len(ts))
  IN /\ rpcfree' = Reverse(SubSeq(order, 1, kept)) \o rpcfree
     /\ tagmask' = tagmask \ Range(SubSeq(order, kept + 1, Len(ts)))
     /\ reply' = [t \in Tags |-> IF t \in Range(ts) THEN NoReply ELSE reply[t]]

-----------------------------------------------------------------------------
(* mountio                                                                 *)

\* Mutated form: a flush of a flush names the flush before it.
RequestChained(ts, k) ==
  IF Len(ts) = 1 THEN [type |-> "T", tag |-> ts[1], call |-> k]
  ELSE [type |-> "Tflush", tag |-> Last(ts), oldtag |-> ts[Len(ts) - 1]]

\* What the last of the chain ts asks for: every flush names the request.
Request(ts, k) ==
  IF Len(ts) = 1 THEN [type |-> "T", tag |-> ts[1], call |-> k]
  ELSE [type |-> "Tflush", tag |-> Last(ts), oldtag |-> ts[1]]

\* A Mntrpc is allocated for client c, for call k or for a flush of it, goes
\* on the queue and is written.
Transmit(c, k, from) ==
  /\ cpc[c] = from
  /\ Mntralloc(c)
  /\ mqueue' = <<Last(chain'[c])>> \o mqueue
  /\ LET sent == Append(toSrv, Request(chain'[c], k))
     IN \/ /\ ~hung /\ CStep(c, from, "gate")
           /\ toSrv' = sent
           /\ UNCHANGED killed
        \/ /\ hung /\ CStep(c, from, "fail")
           /\ UNCHANGED <<toSrv, killed>>
        \/ /\ killed[c] /\ Notkilled(c) /\ CStep(c, from, "eintr")
           /\ toSrv' = toSrv \/ (~hung /\ toSrv' = sent)
  /\ UNCHANGED <<target, reply, rip, toMnt, hung>>

\* A vfs operation allocates its request and calls mountrpc.
Call(c) ==
  /\ Cardinality({k \in Calls : outcome[k] # "none"}) < MaxCalls
  /\ ncalls' = [ncalls EXCEPT ![c] = @ + 1]
  /\ LET k == <<c, ncalls[c] + 1>>
     IN Transmit(c, k, "idle") /\ outcome' = [outcome EXCEPT ![k] = "called"]

\* mountio's handler on Eintr: flush and try again.
Flush(c) ==
  /\ rip # c
  /\ Transmit(c, ThisCall(c), "eintr")
  /\ UNCHANGED <<ncalls, outcome>>

Rpcattn(c) == Done(Rpc(c)) \/ rip = NoOne

\* Become the reader if there is none, else Sleep(&r->r, rpcattn, r), which
\* tests and sleeps as one step (module Rendez) and raises Eintr if killed.
Gate(c) ==
  /\ \/ rip = NoOne /\ CStep(c, "gate", "read") /\ rip' = c /\ UNCHANGED killed
     \/ /\ rip # NoOne /\ UNCHANGED rip
        /\ \/ killed[c] /\ Notkilled(c) /\ CStep(c, "gate", "eintr")
           \/ /\ ~killed[c] /\ UNCHANGED killed
              /\ CStep(c, "gate", IF Rpcattn(c) THEN "awake" ELSE "asleep")
  /\ UNCHANGED <<ncalls, chain, target, reply, mqueue, rpcfree, tagmask,
                 outcome, wirevars>>

\* Sleep returns: the process was interrupted, or has its answer, or is to be
\* the reader if it is the first at the gate.
Attend(c) ==
  /\ cpc[c] = "awake"
  /\ \/ killed[c] /\ Notkilled(c) /\ CStep(c, "awake", "eintr")
     \/ /\ ~killed[c] /\ UNCHANGED killed
        /\ CStep(c, "awake", IF Done(Rpc(c)) THEN "return" ELSE "gate")
  /\ UNCHANGED <<ncalls, chain, target, reply, mqueue, rip, rpcfree, tagmask,
                 outcome, wirevars>>

-----------------------------------------------------------------------------
(* The reader                                                              *)

\* mountmux: the message goes to the request with its tag, if one waits.
Mountmux(c, m) ==
  \/ /\ m.tag \in Range(mqueue)
     /\ mqueue' = Without(mqueue, {m.tag})
     /\ reply' = [reply EXCEPT ![m.tag] = m]
     /\ IF m.tag = Rpc(c) THEN UNCHANGED <<cpc, target>>
        ELSE CStep(c, "read", "wake") /\ target' = [target EXCEPT ![c] = m.tag]
  \/ m.tag \notin Range(mqueue) /\ UNCHANGED <<mqueue, reply, cpc, target>>

\* mntrpcread and mountmux, until r is done.
Read(c) ==
  /\ cpc[c] = "read" /\ ~Done(Rpc(c))
  /\ \/ /\ toMnt # <<>>
        /\ toMnt' = Tail(toMnt)
        /\ Mountmux(c, Head(toMnt))
        /\ UNCHANGED killed
     \/ /\ killed[c] /\ Notkilled(c)
        /\ CStep(c, "read", "eintr")
        /\ UNCHANGED <<target, reply, mqueue, toMnt>>
     \/ /\ hung /\ toMnt = <<>>
        /\ CStep(c, "read", "fail")
        /\ UNCHANGED <<target, reply, mqueue, toMnt, killed>>
  /\ UNCHANGED <<ncalls, chain, rip, rpcfree, tagmask, outcome, toSrv, hung>>

\* Wakeup(&q->r) finds a process asleep on tag t, or no one.
Sleeper(t) == {d \in Clients : cpc[d] = "asleep" /\ Rpc(d) = t}

\* mountmux's Wakeup, after it has let go of Mnt.l.
WakeTarget(c) ==
  /\ cpc[c] = "wake"
  /\ cpc' = [d \in Clients |-> IF d = c THEN "read"
                               ELSE IF d \in Sleeper(target[c]) THEN "awake"
                               ELSE cpc[d]]
  /\ target' = [target EXCEPT ![c] = MaxTag]
  /\ UNCHANGED <<ncalls, chain, reply, mqueue, rip, rpcfree, tagmask, outcome,
                 wirevars, killed>>

\* Mutated form: the first unanswered request is taken to be the one to wake.
NextReaderFirst ==
  LET undone == Without(mqueue, {t \in Tags : Done(t)})
  IN IF undone = <<>> THEN {} ELSE Sleeper(Head(undone))

\* mntgate: the first unanswered request on the queue that someone sleeps on.
NextReader ==
  LET undone == Without(mqueue, {t \in Tags : Done(t) \/ Sleeper(t) = {}})
  IN IF undone = <<>> THEN {} ELSE Sleeper(Head(undone))

\* The reader leaves: its request is done, or it takes an error.
MntGate(c) ==
  /\ rip = c
  /\ cpc[c] \in {"eintr", "fail"} \/ (cpc[c] = "read" /\ Done(Rpc(c)))
  /\ rip' = NoOne
  /\ cpc' = [d \in Clients |-> IF d \in NextReader THEN "awake"
                               ELSE IF d = c /\ cpc[c] = "read" THEN "return"
                               ELSE cpc[d]]
  /\ UNCHANGED <<ncalls, chain, target, reply, mqueue, rpcfree, tagmask, outcome,
                 wirevars, killed>>

-----------------------------------------------------------------------------
(* Interrupts and returns                                                  *)

\* mntflushfree, the test of the reply in mountrpc, and the caller's mntfree.
Return(c) ==
  /\ \/ CStep(c, "return", "idle")
     \/ rip # c /\ CStep(c, "fail", "idle")
  /\ LET r == reply[chain[c][1]]
     IN outcome' = [outcome EXCEPT ![ThisCall(c)] =
          IF cpc[c] = "fail" THEN "fail"
          ELSE CASE r.type = "R" -> IF r.call = ThisCall(c) THEN "ok" ELSE "other"
                 [] r.type = "Rerror" -> "rerror"
                 [] OTHER -> "eintr"]
  /\ mqueue' = Without(mqueue, Range(chain[c]))
  /\ Mntfree(chain[c])
  /\ chain' = [chain EXCEPT ![c] = <<>>]
  /\ UNCHANGED <<ncalls, target, rip, wirevars, killed>>

\* swiproc(c, 0).
InterruptClient(c) ==
  /\ ~killed[c]
  /\ killed' = [killed EXCEPT ![c] = TRUE]
  /\ cpc' = [cpc EXCEPT ![c] = IF @ = "asleep" THEN "awake" ELSE @]
  /\ UNCHANGED <<ncalls, chain, target, reply, mqueue, rip, rpcfree, tagmask,
                 outcome, wirevars>>

MountioStep(c) ==
  \/ Flush(c) \/ Gate(c) \/ Attend(c)
  \/ Read(c) \/ WakeTarget(c) \/ MntGate(c)
  \/ Return(c)
=============================================================================
