--------------------------- MODULE LedgerRollback ---------------------------
(***************************************************************************)
(* The ledger under the storage faults its external record exists for: the *)
(* volume of the SQLite file, or that of the external record, is restored  *)
(* from an older copy, or the external record is lost or unreadable.       *)
(* Restoring both volumes is outside what the program claims to detect, so *)
(* one of the two has a copy, taken once, at any time. Faults strike while *)
(* no process has the ledger open.                                         *)
(***************************************************************************)
EXTENDS Ledger

VARIABLE snap   \* the older copy of one volume

\* What the SQLite file holds, with the history that describes its counters.
File == [res |-> res, epoch |-> epoch, opened |-> opened, consumed |-> consumed,
         reserved |-> reserved, gen |-> gen, cum |-> cum, clean |-> clean,
         remaining |-> remaining, latches |-> latches, lifted |-> lifted]
NoCopy == [of |-> "none", copy |-> <<>>]

rollbackVars == <<vars, snap>>

CopyLedger ==
  /\ snap = NoCopy
  /\ snap' = [of |-> "ledger", copy |-> File]
  /\ UNCHANGED vars

CopyExternal ==
  /\ snap = NoCopy
  /\ pending = Idle
  /\ snap' = [of |-> "external", copy |-> ext]
  /\ UNCHANGED vars

RestoreLedger ==
  /\ trust = Down
  /\ snap.of = "ledger"
  /\ res' = snap.copy.res
  /\ epoch' = snap.copy.epoch
  /\ opened' = snap.copy.opened
  /\ consumed' = snap.copy.consumed
  /\ reserved' = snap.copy.reserved
  /\ gen' = snap.copy.gen
  /\ cum' = snap.copy.cum
  /\ clean' = snap.copy.clean
  /\ remaining' = snap.copy.remaining
  /\ latches' = snap.copy.latches
  /\ lifted' = snap.copy.lifted
  /\ UNCHANGED <<ext, process, sent, exposed, evidence, snap>>

RestoreExternal ==
  /\ trust = Down
  /\ snap.of = "external"
  /\ ext' = snap.copy
  /\ UNCHANGED <<books, meta, guardsVars, process, history, snap>>

SpoilExternal(record) ==
  /\ trust = Down
  /\ ext' = record
  /\ UNCHANGED <<books, meta, guardsVars, process, history, snap>>

RollbackInit == Init /\ snap = NoCopy

RollbackNext ==
  \/ Next /\ UNCHANGED snap
  \/ CopyLedger
  \/ CopyExternal
  \/ RestoreLedger
  \/ RestoreExternal
  \/ \E record \in {NoRecord, Unreadable} : SpoilExternal(record)

RollbackSpec == RollbackInit /\ [][RollbackNext]_rollbackVars

=============================================================================
