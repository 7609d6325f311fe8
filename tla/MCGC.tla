-------------------------------- MODULE MCGC --------------------------------
(* An instance of GC for TLC.                                              *)
EXTENDS GC
=============================================================================
