------------------------------- MODULE Queues -------------------------------
(***************************************************************************)
(* What the queues of several components have in common.  Without is       *)
(* SelectSeq by a set, as a function, so that it can be reasoned about.    *)
(***************************************************************************)
EXTENDS Naturals, Sequences

In(x, s) == \E i \in 1..Len(s) : s[i] = x
Distinct(s) == \A i, j \in 1..Len(s) : s[i] = s[j] => i = j

\* The queue s without the elements that are in D, the others in their order.
Without(s, D) ==
  LET left[n \in 0..Len(s)] ==
        IF n = 0 THEN <<>>
        ELSE IF s[n] \in D THEN left[n - 1] ELSE Append(left[n - 1], s[n])
  IN  left[Len(s)]
=============================================================================
