------------------------------ MODULE StyxWire ------------------------------
(***************************************************************************)
(* What the mount driver (emu/port/devmnt.c) and the Styx server           *)
(* (emu/port/exportfs.c) share: the connection between them, a reliable    *)
(* ordered stream of messages each way, and the interrupts of the          *)
(* processes on either side (emu/port/proc.c).                             *)
(*                                                                         *)
(* A call is named by the client that makes it and its number; a request   *)
(* carries the call it stands for, a reply the call it answers.            *)
(***************************************************************************)
EXTENDS Queues, FiniteSets, SequencesExt

CONSTANTS
  Clients,    \* processes that use the mount
  Slaves,     \* kernel processes that serve the requests
  NoOne,      \* nil, where a process is expected
  MaxCalls,   \* bound: calls the clients make between them
  MaxTag,     \* bound: tags are 0..MaxTag; it takes more than a run needs
  MaxFree     \* Mntrpcs mntfree keeps on rpcfree: 10 in the code

ASSUME WireAssumption ==
  /\ Clients \cap Slaves = {} /\ NoOne \notin Clients \cup Slaves
  /\ IsFiniteSet(Clients)
  /\ MaxCalls \in Nat /\ MaxTag \in Nat /\ MaxFree \in Nat

VARIABLES
  toSrv,      \* T-messages on the connection
  toMnt,      \* R-messages on the connection
  hung,       \* the connection is hung up
  killed      \* Proc.killed of every process

wirevars == <<toSrv, toMnt, hung>>

Calls == Clients \X (1..MaxCalls)
NoCall == <<NoOne, 0>>
Tags == 0..MaxTag

TMessages ==
  [type : {"T"}, tag : Tags, call : Calls]
    \cup [type : {"Tflush"}, tag : Tags, oldtag : Tags]
RMessages ==
  [type : {"R", "Rerror"}, tag : Tags, call : Calls]
    \cup [type : {"Rflush"}, tag : Tags]

\* Mutated form: a slave keeps the kill it did not take.
NotkilledLeft(p) == killed' = [killed EXCEPT ![p] = p \in Slaves /\ @]

\* The pending interrupt of p is taken or discarded.
Notkilled(p) == killed' = [killed EXCEPT ![p] = FALSE]

WireInit ==
  /\ toSrv = <<>> /\ toMnt = <<>>
  /\ hung = FALSE
  /\ killed = [p \in Clients \cup Slaves |-> FALSE]

\* The connection breaks: no more can be written, what is on it can be read.
Hangup ==
  /\ ~hung /\ hung' = TRUE
  /\ UNCHANGED <<toSrv, toMnt, killed>>
=============================================================================
