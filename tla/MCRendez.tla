------------------------------ MODULE MCRendez ------------------------------
(* An instance of Rendez for TLC.                                          *)
EXTENDS Rendez
=============================================================================
