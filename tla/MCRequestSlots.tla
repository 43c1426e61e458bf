--------------------------- MODULE MCRequestSlots ---------------------------
(* Instances of RequestSlots for TLC: requests are interchangeable.        *)
EXTENDS RequestSlots, TLC

Interchangeable == Permutations(Request)
=============================================================================
