--------------------------- MODULE MCEpochWindow ---------------------------
(* Instances of EpochWindow for TLC.                                       *)
EXTENDS EpochWindow, TLC

Interchangeable == Permutations(Request)
=============================================================================
