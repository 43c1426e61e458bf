------------------------------ MODULE MCLedger ------------------------------
(* Instances of Ledger for TLC.                                            *)
EXTENDS Ledger

CONSTANTS p1, m1

\* One model drawing on one pool.
OnePoolOf == [m \in {m1} |-> p1]
OneGrant == [p \in {p1} |-> 3]

\* Latches set by hand.
GlobalScope == {Global}
=============================================================================
