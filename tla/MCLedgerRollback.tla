-------------------------- MODULE MCLedgerRollback --------------------------
(* Instances of LedgerRollback for TLC.                                    *)
EXTENDS LedgerRollback

CONSTANTS p1, p2, m1, m2

\* Each model has a pool of its own.
TwoPoolsOf == [m \in {m1, m2} |-> IF m = m1 THEN p1 ELSE p2]
TwoGrants == [p \in {p1, p2} |-> IF p = p1 THEN 3 ELSE 2]
NoScopes == {}
=============================================================================
