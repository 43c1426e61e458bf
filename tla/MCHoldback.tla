----------------------------- MODULE MCHoldback -----------------------------
(* Constants for TLC: three requests at a time, holds of 1, 2, 3, 3, ...    *)
EXTENDS Holdback
CONSTANTS t1, t2, t3

MCWaits == {0, 1, 4}

=============================================================================
