-------------------------- MODULE LedgerInvariants ---------------------------
(* The inductive invariants behind Ledger's properties: why each of them    *)
(* survives every step. LedgerProofs proves that they do; the proofs about  *)
(* LedgerRollback read them of a copy of the file.                          *)
EXTENDS Ledger

-----------------------------------------------------------------------------
(* Types                                                                   *)

\* While an operation is between its two writes, the external record it has
\* written is the one its commit copies into the ledger.
PendingOK ==
  /\ pending = Idle \/ trust # Down
  /\ pending.op = "dispatch" =>
       /\ pending.id \in InState("RESERVED")
       /\ ext = [generation |-> gen + 1,
                 cumulative |-> cum + res[pending.id].liability,
                 last |-> pending.id]
  /\ pending.op = "adopt" => ext \in HighWaterMark

\* A row exists only in an epoch that has been opened.
RowsOpened == \A i \in DOMAIN res : res[i].rows \subseteq opened

TypeInv == TypeOK /\ PendingOK /\ RowsOpened

-----------------------------------------------------------------------------
(* Sent requests stay accounted for                                        *)

Held == \A i \in sent : i \in DOMAIN res /\ res[i].state \in Accounted

-----------------------------------------------------------------------------
(* Live requests weigh on the current epoch                                *)

\* Epochs are opened in order.
OpenedInOrder == \A e \in opened : e <= epoch

ForwardInv == OpenedInOrder /\ CarriedForward

-----------------------------------------------------------------------------
(* Safety budgets and latches                                              *)

\* What was reserved since the verification and what is left of its budget
\* are the whole budget: a release refunds nothing.
BudgetSpent == \A k \in Key : remaining[k] # Missing => exposed[k] + remaining[k] = Budget

\* Evidence is latched until an operator clears it.
EvidenceLatched == evidence \subseteq latches

GuardsInv == BudgetSpent /\ EvidenceLatched

-----------------------------------------------------------------------------
(* The books                                                               *)

\* The live groups with a row for pool p in epoch e.
Live(p, e) == RowsAt(p, e) \cap ActiveIds

\* Live requests alone never reserve more than the grant: what usage reporting
\* and overruns add to a pool closes it, and raises no reservation.
ReservedFits == \A p \in Pool, e \in Epoch : reserved[p][e] <= Grant[p]

MoneyInv == BooksBalance /\ ReservedFits /\ GrantHeld

=============================================================================
