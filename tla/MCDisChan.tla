----------------------------- MODULE MCDisChan -----------------------------
(***************************************************************************)
(* An instance of DisChan for TLC: "a" has no buffer, "b" one of two.      *)
(***************************************************************************)
EXTENDS DisChan, TLC

CONSTANTS a, b
Bufs == a :> 0 @@ b :> 2

Tried(s, r, bl) == [send |-> s, recv |-> r, block |-> bl]

\* Each channel once in an alt, or one channel both ways and nothing else.
Both == {Tried(<<a>>, <<b>>, TRUE), Tried(<<>>, <<b, a>>, TRUE), Tried(<<b>>, <<a>>, FALSE),
         Tried(<<b>>, <<a>>, TRUE), Tried(<<a>>, <<a>>, TRUE)}

Symmetry == Permutations(Progs) \cup Permutations(Msgs)
=============================================================================
