------------------------------- MODULE Duplex -------------------------------
(***************************************************************************)
(* What a pipe promises: a stream of bytes to either end.  A block is      *)
(* accepted as a whole; each byte is delivered once and in order; the end  *)
(* of a stream is seen after its last byte; the streams of a pipe that is  *)
(* used again carry nothing that was written to an end that was in use     *)
(* before.  Abstract: it has no counterpart in the source.                 *)
(***************************************************************************)
EXTENDS Sequences, Naturals

CONSTANTS
  Ends,       \* the ends of the pipe
  Procs,      \* processes that use it
  MaxBlock    \* bytes accepted as a whole: Maxatomic

VARIABLES
  stream,     \* bytes accepted and not delivered, for each end
  inuse,      \* ends that some process has open
  opened,     \* ends that have been open since the pipe was new
  shut,       \* ends whose stream takes no more bytes
  sent,       \* bytes of each process accepted so far
  got         \* what the last read of each process gave it

vars == <<stream, inuse, opened, shut, sent, got>>

Nothing == [kind |-> "none", data |-> <<>>]
EndOfFile == [kind |-> "eof", data |-> <<>>]

\* The bytes a process writes after its first m.
Numbered(p, m, n) == [i \in 1..n |-> <<p, m + i>>]

Init ==
  /\ stream = [e \in Ends |-> <<>>]
  /\ inuse = {} /\ opened = {} /\ shut = {}
  /\ sent = [p \in Procs |-> 0]
  /\ got = [p \in Procs |-> Nothing]

Accept(e, p, n) ==
  /\ e \notin shut
  /\ stream' = [stream EXCEPT ![e] = @ \o Numbered(p, sent[p], n)]
  /\ sent' = [sent EXCEPT ![p] = @ + n]
  /\ UNCHANGED <<inuse, opened, shut, got>>

Deliver(e, p) ==
  /\ \E n \in 1..Len(stream[e]) :
       /\ got' = [got EXCEPT ![p] = [kind |-> "data", data |-> SubSeq(stream[e], 1, n)]]
       /\ stream' = [stream EXCEPT ![e] = SubSeq(@, n + 1, Len(@))]
  /\ UNCHANGED <<inuse, opened, shut, sent>>

End(e, p) ==
  /\ e \in shut /\ stream[e] = <<>>
  /\ got' = [got EXCEPT ![p] = EndOfFile]
  /\ UNCHANGED <<stream, inuse, opened, shut, sent>>

Forget(p) ==
  /\ got' = [got EXCEPT ![p] = Nothing]
  /\ UNCHANGED <<stream, inuse, opened, shut, sent>>

Open(e) ==
  /\ inuse' = inuse \cup {e} /\ opened' = opened \cup {e}
  /\ UNCHANGED <<stream, shut, sent, got>>

Leave(e) ==
  /\ inuse' = inuse \ {e}
  /\ UNCHANGED <<stream, opened, shut, sent, got>>

\* An end that is gone writes no more to the others, ...
Hangup(e) ==
  /\ e \notin inuse
  /\ shut' = shut \cup (Ends \ {e})
  /\ UNCHANGED <<stream, inuse, opened, sent, got>>

\* ... and what it had not read is gone with it.
Close(e) ==
  /\ e \notin inuse
  /\ shut' = shut \cup {e}
  /\ stream' = [stream EXCEPT ![e] = <<>>]
  /\ UNCHANGED <<inuse, opened, sent, got>>

\* When all ends are gone the pipe is new, but for what has been written to an
\* end before anybody had opened it.
Renew ==
  /\ inuse = {}
  /\ \A e \in opened : stream[e] = <<>>
  /\ shut' = {} /\ opened' = {}
  /\ UNCHANGED <<stream, inuse, sent, got>>

Next ==
  \/ \E e \in Ends : Open(e) \/ Leave(e) \/ Hangup(e) \/ Close(e)
  \/ Renew
  \/ \E p \in Procs : Forget(p)
  \/ \E e \in Ends, p \in Procs :
       Deliver(e, p) \/ End(e, p) \/ \E n \in 1..MaxBlock : Accept(e, p, n)

Spec == Init /\ [][Next]_vars
=============================================================================
