------------------------------- MODULE Export -------------------------------
(***************************************************************************)
(* The request engine of the Styx server (emu/port/exportfs.c) for one     *)
(* export: exportproc, which reads requests, queues them and deals with    *)
(* flushes; the exslave kernel processes, which take requests from the     *)
(* queue, do them and reply; and the shut down.                            *)
(*                                                                         *)
(* An Exq is named by the call it stands for; a Tflush by its message.     *)
(* What a request does (fcalls) is a step, in which it is done or ends in  *)
(* an error, with its effect or without.  The exqs are served              *)
(* by Slaves, all of them there from the start: the kproc calls of         *)
(* exportproc, which see to it that one more is always waiting, are left   *)
(* out, as are exq.qwait and exq.rwait (modules QLock and Rendez).         *)
(***************************************************************************)
EXTENDS StyxWire

VARIABLES
  epc,        \* control point of exportproc
  ereq,       \* the message it has read
  exq,        \* exq.head and what hangs from it
  tail,       \* exq.tail; its Exq may have been freed
  lost,       \* Exqs hanging from freed memory
  exql,       \* exq.l: the slave that holds it across its steps
  fsl,        \* Export.l: exportproc, where it keeps it across its steps
  work,       \* Export.work
  rec,        \* what each Exq holds
  spc,        \* control point of each slave
  job,        \* the Exq each slave has
  performed,  \* times each call has had its effect
  done        \* history: calls whose request was done without an error

evars == <<epc, ereq, exq, tail, lost, exql, fsl, work, rec, spc, job, performed,
           done>>

NoMsg == [type |-> "none"]
EPC == {"recv", "flush", "shut", "gone"}
SPC == {"wait", "dispatch", "fcall", "complete", "flushes", "remove"}

\* A fresh Exq, and one that has been freed.
BlankExq == [tag |-> 0, slave |-> NoOne, busy |-> FALSE, finished |-> FALSE,
             shut |-> FALSE, flush |-> <<>>, err |-> FALSE]

EInit ==
  /\ epc = "recv" /\ ereq = NoMsg
  /\ exq = <<>> /\ tail = NoCall /\ lost = {}
  /\ exql = NoOne /\ fsl = NoOne
  /\ work = <<>>
  /\ rec = [k \in Calls |-> BlankExq]
  /\ spc = [s \in Slaves |-> "wait"]
  /\ job = [s \in Slaves |-> NoCall]
  /\ performed = [k \in Calls |-> 0]
  /\ done = {}

EStep(a, b) == epc = a /\ epc' = b
SStep(s, a, b) == spc[s] = a /\ spc' = [spc EXCEPT ![s] = b]

\* exreply: a reply that cannot be written is dropped.
Exreply(m) == toMnt' = IF hung THEN toMnt ELSE Append(toMnt, m)
Rflush(m) == [type |-> "Rflush", tag |-> m.tag]

-----------------------------------------------------------------------------
(* exportproc                                                              *)

WithTag(ks, tag) == Without(ks, {k \in Calls : rec[k].tag # tag})

\* A request is read and goes on the end of the queue, or after the freed
\* Exq that exq.tail points to.
Enqueue ==
  /\ epc = "recv" /\ toSrv # <<>> /\ Head(toSrv).type = "T"
  /\ exql = NoOne
  /\ toSrv' = Tail(toSrv)
  /\ LET m == Head(toSrv)
         linked == exq = <<>> \/ tail = Last(exq)
     IN /\ exq' = IF linked THEN Append(exq, m.call) ELSE exq
        /\ lost' = IF linked THEN lost ELSE lost \cup {m.call}
        /\ tail' = m.call
        /\ rec' = [rec EXCEPT ![m.call].tag = m.tag]
  /\ UNCHANGED <<epc, ereq, exql, fsl, work, spc, job, performed, done, toMnt, hung,
                 killed>>

\* A flush is read; exflushed, under exq.l: a request not yet started is
\* discarded and the flush answered.
FlushQueued ==
  /\ epc = "recv" /\ toSrv # <<>> /\ Head(toSrv).type = "Tflush"
  /\ exql = NoOne
  /\ toSrv' = Tail(toSrv)
  /\ LET found == WithTag(exq, Head(toSrv).oldtag)
     IN \/ /\ found # <<>>
           /\ exq' = Without(exq, {Head(found)})
           /\ rec' = [rec EXCEPT ![Head(found)] = BlankExq]
           /\ Exreply(Rflush(Head(toSrv)))
           /\ UNCHANGED <<epc, ereq>>
        \/ /\ found = <<>>
           /\ ereq' = Head(toSrv) /\ epc' = "flush"
           /\ UNCHANGED <<exq, rec, toMnt>>
  /\ UNCHANGED <<tail, lost, exql, fsl, work, spc, job, performed, done, hung, killed>>

\* Mutated form: the slave is left to finish.
InterruptNone(k) == killed

\* exflushed interrupts a slave only while it does the request.
InterruptSlave(k) ==
  IF rec[k].busy THEN [killed EXCEPT ![rec[k].slave] = TRUE] ELSE killed

\* exflushed, under Export.l: a request in progress gets the flush on its
\* list and its slave is interrupted; otherwise the flush is answered, but
\* if the request is on the list and finished the lock is not let go.
FlushStarted ==
  /\ fsl = NoOne
  /\ EStep("flush", "recv") /\ ereq' = NoMsg
  /\ LET found == WithTag(work, ereq.oldtag)
         k == Head(found)
         pending == found # <<>> /\ ~rec[k].finished
     IN IF pending
        THEN /\ rec' = [rec EXCEPT ![k].flush = Append(@, ereq)]
             /\ killed' = InterruptSlave(k)
             /\ UNCHANGED <<fsl, toMnt>>
        ELSE /\ Exreply(Rflush(ereq))
             /\ fsl' = IF found = <<>> THEN NoOne ELSE "exportproc"
             /\ UNCHANGED <<rec, killed>>
  /\ UNCHANGED <<exq, tail, lost, exql, work, spc, job, performed, done, toSrv, hung>>

\* The connection has come to its end: exshutdown discards what has not been
\* started.
ShutQueued ==
  /\ toSrv = <<>> /\ hung
  /\ exql = NoOne
  /\ EStep("recv", "shut")
  /\ exq' = <<>>
  /\ rec' = [k \in Calls |-> IF k \in Range(exq) THEN BlankExq ELSE rec[k]]
  /\ UNCHANGED <<ereq, tail, lost, exql, fsl, work, spc, job, performed, done, wirevars,
                 killed>>

\* exshutdown, then what has: the slaves are killed, busy or not.
ShutStarted ==
  /\ fsl = NoOne
  /\ EStep("shut", "gone")
  /\ work' = <<>>
  /\ rec' = [k \in Calls |-> IF k \in Range(work) THEN [rec[k] EXCEPT !.shut = TRUE]
                             ELSE rec[k]]
  /\ killed' = [p \in DOMAIN killed |->
                  killed[p] \/ \E k \in Range(work) : rec[k].slave = p]
  /\ UNCHANGED <<ereq, exq, tail, lost, exql, fsl, spc, job, performed, done, wirevars>>

-----------------------------------------------------------------------------
(* exslave                                                                 *)

\* Mutated form: exq.l is let go before the request is on the work list.
HoldNone(s) == UNCHANGED exql

\* The slave goes from exq.head to the work list without letting go of exq.l.
Hold(s) == exql' = s

\* The slave takes the head of the queue and keeps exq.l; a kill that comes
\* this late only sends it round its loop.
Take(s) ==
  /\ \/ /\ ~killed[s] /\ UNCHANGED killed
        /\ exql = NoOne /\ exq # <<>>
        /\ Hold(s)
        /\ SStep(s, "wait", "dispatch")
        /\ job' = [job EXCEPT ![s] = Head(exq)] /\ exq' = Tail(exq)
     \/ /\ killed[s] /\ Notkilled(s)
        /\ SStep(s, "wait", "wait")
        /\ UNCHANGED <<exql, job, exq>>
  /\ UNCHANGED <<epc, ereq, tail, lost, fsl, work, rec, performed, done, wirevars>>

\* It puts it on the work list, where flushes and the shut down find it.
Dispatch(s) ==
  /\ fsl = NoOne
  /\ SStep(s, "dispatch", "fcall")
  /\ Notkilled(s)
  /\ rec' = [rec EXCEPT ![job[s]].slave = s, ![job[s]].busy = TRUE]
  /\ work' = <<job[s]>> \o work
  /\ exql' = NoOne
  /\ UNCHANGED <<epc, ereq, exq, tail, lost, fsl, job, performed, done, wirevars>>

\* The request is done; or it ends in an error, of itself or for a kill, and
\* may have had its effect before: a write to a queue is interrupted after its
\* block has been queued (qio.c:1261).
Fcall(s) ==
  LET k == job[s]
      had == [performed EXCEPT ![k] = @ + 1]
  IN
  /\ SStep(s, "fcall", "complete")
  /\ \/ /\ performed' = had /\ done' = done \cup {k}
        /\ UNCHANGED <<rec, killed>>
     \/ /\ rec' = [rec EXCEPT ![k].err = TRUE]
        /\ killed' \in {killed, [killed EXCEPT ![s] = FALSE]}
        /\ performed' \in {performed, had} /\ UNCHANGED done
  /\ UNCHANGED <<epc, ereq, exq, tail, lost, exql, fsl, work, job, wirevars>>

\* Mutated form: nothing is replied once a flush is pending.
AnswersUnflushed(q) == ~q.shut /\ q.flush = <<>>

\* A request that was done is answered even if a flush is pending.
Answers(q) == ~q.shut /\ (q.flush = <<>> \/ ~q.err)

\* Under the Exq's lock the request is no longer interruptible; it is
\* answered or not.
Complete(s) ==
  LET q == rec[job[s]] IN
  /\ SStep(s, "complete", "flushes")
  /\ Notkilled(s)
  /\ rec' = [rec EXCEPT ![job[s]].busy = FALSE]
  /\ IF Answers(q)
     THEN Exreply([type |-> IF q.err THEN "Rerror" ELSE "R",
                   tag |-> q.tag, call |-> job[s]])
     ELSE UNCHANGED toMnt
  /\ UNCHANGED <<epc, ereq, exq, tail, lost, exql, fsl, work, job, performed, done,
                 toSrv, hung>>

\* Under the Exq's lock: the next flush is answered, or the promise made
\* that there will be no more.
NextFlush(s) ==
  LET k == job[s]
      more == rec[k].flush # <<>> /\ ~rec[k].shut
  IN
  /\ SStep(s, "flushes", IF more THEN "flushes" ELSE "remove")
  /\ IF more
     THEN /\ rec' = [rec EXCEPT ![k].flush = Tail(@)]
          /\ Exreply(Rflush(Head(rec[k].flush)))
     ELSE /\ rec' = [rec EXCEPT ![k].finished = TRUE]
          /\ UNCHANGED toMnt
  /\ UNCHANGED <<epc, ereq, exq, tail, lost, exql, fsl, work, job, performed, done,
                 toSrv, hung, killed>>

\* Off the work list, under Export.l; the Exq is freed.
Finish(s) ==
  /\ fsl = NoOne
  /\ SStep(s, "remove", "wait")
  /\ work' = Without(work, {job[s]})
  /\ Notkilled(s)
  /\ rec' = [rec EXCEPT ![job[s]] = BlankExq]
  /\ job' = [job EXCEPT ![s] = NoCall]
  /\ UNCHANGED <<epc, ereq, exq, tail, lost, exql, fsl, performed, done, wirevars>>

ExportprocStep ==
  \/ Enqueue \/ FlushQueued \/ FlushStarted \/ ShutQueued \/ ShutStarted

SlaveStep(s) ==
  \/ Take(s) \/ Dispatch(s) \/ Complete(s) \/ NextFlush(s) \/ Finish(s)
=============================================================================
