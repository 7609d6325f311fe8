----------------------------- MODULE RpcService -----------------------------
(***************************************************************************)
(* What the mount driver and the Styx server promise together.  A call has *)
(* its effect at most once, and none after it has returned; it returns its *)
(* own result.  If its request is done without an error, that is what the  *)
(* call returns, even when its process was interrupted; only such a        *)
(* process has a call return interrupted.  A call that returns an error,   *)
(* or interrupted, may have had its effect (qio.c:1261 means it to); only  *)
(* a broken connection leaves open whether it is still to come.  Abstract: *)
(* it has no counterpart in the source.                                    *)
(***************************************************************************)
EXTENDS Naturals

CONSTANTS Clients, MaxCalls

VARIABLES
  outcome,    \* "none", "called", or how the call ended
  performed,  \* times the call has had its effect
  done,       \* calls that have been done without an error
  asked,      \* an interrupt of the client has not yet been honoured
  broken      \* the connection is gone

Calls == Clients \X (1..MaxCalls)

vars == <<outcome, performed, done, asked, broken>>

Init ==
  /\ outcome = [k \in Calls |-> "none"]
  /\ performed = [k \in Calls |-> 0]
  /\ done = {}
  /\ asked = [c \in Clients |-> FALSE]
  /\ broken = FALSE

\* A client makes its calls one after the other.
Call(k) ==
  /\ outcome[k] = "none"
  /\ \A n \in 1..(k[2] - 1) : outcome[<<k[1], n>>] \notin {"none", "called"}
  /\ outcome' = [outcome EXCEPT ![k] = "called"]
  /\ UNCHANGED <<performed, done, asked, broken>>

\* The effect of a call is had, and the call is done, or ends in an error.
Perform(k) ==
  /\ outcome[k] \in {"called", "fail"}
  /\ performed[k] = 0
  /\ performed' = [performed EXCEPT ![k] = 1]
  /\ done' \in {done, done \cup {k}}
  /\ UNCHANGED <<outcome, asked, broken>>

Answered(k) ==
  \/ k \in done /\ outcome' = [outcome EXCEPT ![k] = "ok"]
  \/ k \notin done /\ outcome' = [outcome EXCEPT ![k] = "rerror"]
  \/ k \notin done /\ asked[k[1]] /\ outcome' = [outcome EXCEPT ![k] = "eintr"]
  \/ broken /\ outcome' = [outcome EXCEPT ![k] = "fail"]

\* The interrupt is honoured by the call that returns, or stays for the next.
Return(k) ==
  /\ outcome[k] = "called"
  /\ Answered(k)
  /\ asked' \in {asked, [asked EXCEPT ![k[1]] = FALSE]}
  /\ UNCHANGED <<performed, done, broken>>

Interrupt(c) ==
  /\ asked' = [asked EXCEPT ![c] = TRUE]
  /\ UNCHANGED <<outcome, performed, done, broken>>

Break == broken' = TRUE /\ UNCHANGED <<outcome, performed, done, asked>>

\* A step of which the clients see nothing is named first: most steps of the two
\* sides are.
Next ==
  \/ UNCHANGED vars
  \/ \E k \in Calls : Call(k) \/ Perform(k) \/ Return(k)
  \/ \E c \in Clients : Interrupt(c)
  \/ Break

Spec == Init /\ [][Next]_vars
=============================================================================
