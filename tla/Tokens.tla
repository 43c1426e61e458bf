------------------------------- MODULE Tokens -------------------------------
(* Sums over a set, counted token by token.                                *)
EXTENDS Integers, FiniteSets

\* The tokens that amount[i] stands for, over the members i of S, one by one.
Tokens(S, amount) == UNION {{i} \X (1..amount[i]) : i \in S}

\* Their number: what SELECT SUM(amount) over S returns.
Total(S, amount) == Cardinality(Tokens(S, amount))
=============================================================================
