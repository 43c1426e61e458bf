------------------------------- MODULE Ledger -------------------------------
(***************************************************************************)
(* The reservation ledger (crates/ledger): reservations with their rows    *)
(* per epoch, the counters of every pool and epoch, the safety-input       *)
(* budgets and the latches, all in one SQLite file; the external           *)
(* high-water mark on another volume; and the verdict of the process that  *)
(* has the file open.                                                      *)
(*                                                                         *)
(* Every operation runs under the mutex of ledger_handle.rs, so two of     *)
(* them never interleave; the two that write the external record and the   *)
(* SQLite file in turn (begin_dispatch, adopt_recovered_consumption) take  *)
(* two steps, between which the process may die or the commit may fail.    *)
(* An operation the code refuses changes nothing: it is a stuttering step. *)
(***************************************************************************)
EXTENDS Integers, FiniteSets, Tokens

CONSTANTS
  Pool,           \* pools of the configuration
  Model,          \* model snapshots of the catalog
  PoolOf,         \* the pool the catalog assigns to each model
  Grant,          \* tokens granted to each pool, every epoch
  Key,            \* safety inputs every reservation requires
  Budget,         \* liability a verification of a safety input covers
  Liabilities,    \* liabilities the estimator may ask for
  Reports,        \* usage a response, or the Usage API, may report
  ManualScopes,   \* scopes an operator may latch by hand
  MaxId,          \* bound: reservation groups
  MaxEpoch,       \* bound: epochs
  MaxGeneration   \* bound: generations of the external record

ASSUME LedgerAssumption ==
  /\ PoolOf \in [Model -> Pool]
  /\ Grant \in [Pool -> Nat]
  /\ Budget \in Nat
  /\ Liabilities \subseteq Nat
  /\ Reports \subseteq Nat
  /\ MaxId \in Nat
  /\ MaxEpoch \in Nat
  /\ MaxGeneration \in Nat

VARIABLES
  \* the SQLite file
  res,        \* reservation groups by root id: state, model, liability, epochs with a row, settled
  epoch,      \* ledger_meta.current_epoch
  opened,     \* epochs that have their pool_epoch rows
  consumed,   \* pool_epoch.consumed
  reserved,   \* pool_epoch.reserved
  gen,        \* ledger_meta.generation
  cum,        \* ledger_meta.cumulative_liability
  clean,      \* ledger_meta.clean_shutdown
  remaining,  \* safety_input.budget_remaining, Missing without a row
  latches,    \* scopes with an uncleared latch
  \* the external record
  ext,        \* the high-water mark
  \* the process
  trust,      \* its verdict, Down when none has the ledger open
  pending,    \* the operation between its two writes
  \* history, read by the properties only
  sent,       \* groups whose bytes may have left for the provider
  lifted,     \* consumption adopted from usage reporting
  exposed,    \* liability reserved since each safety input was verified
  evidence    \* scopes a settlement latched, until an operator clears them

books == <<res, epoch, opened, consumed, reserved>>
meta  == <<gen, cum, clean>>
guardsVars == <<remaining, latches>>
process == <<trust, pending>>
history == <<sent, lifted, exposed, evidence>>
vars == <<books, meta, guardsVars, ext, process, history>>

-----------------------------------------------------------------------------
(* Values                                                                  *)

Id == 1..MaxId
Epoch == 0..MaxEpoch

PossiblySent == {"DISPATCHING", "DISPATCHED_WITH_ID", "DISPATCHED_ID_UNKNOWN"}
Active == {"RESERVED"} \cup PossiblySent
State == Active \cup {"SETTLED", "CONSUMED_UNRECOVERABLE", "RELEASED_UNSENT",
                      "REJECTED_BEFORE_PROCESSING"}

Group == [state: State, model: Model, liability: Nat,
          rows: SUBSET Epoch, settled: Nat]

HighWaterMark == [generation: Nat, cumulative: Nat, last: Nat]
NoRecord   == [generation |-> -1, cumulative |-> 0, last |-> 0]
Unreadable == [generation |-> -2, cumulative |-> 0, last |-> 0]

Missing == -1
Down == "Down"
Verdict == {"Trusted", "UncleanShutdown", "Uninitialized", "ExternalMissing",
            "ExternalUnreadable", "ExternalBehindLedger", "LedgerRolledBack",
            "Inconsistent"}

Idle == [op |-> "none", id |-> 0]
Dispatching(i) == [op |-> "dispatch", id |-> i]
Adopting == [op |-> "adopt", id |-> 0]
Pending == [op: {"none", "dispatch", "adopt"}, id: Nat]

Global == <<"global">>
PoolScope(p) == <<"pool", p>>
ModelScope(m) == <<"model", m>>
Scope == {Global} \cup {PoolScope(p) : p \in Pool} \cup {ModelScope(m) : m \in Model}

ASSUME ScopeAssumption == ManualScopes \subseteq Scope

-----------------------------------------------------------------------------
(* Reading the books                                                       *)

PoolFor(i) == PoolOf[res[i].model]
InState(s) == {i \in DOMAIN res : res[i].state = s}
ActiveIds == {i \in DOMAIN res : res[i].state \in Active}

\* The groups with a row for pool p in epoch e.
RowsAt(p, e) == {i \in DOMAIN res : PoolFor(i) = p /\ e \in res[i].rows}

LiabilityOf == [i \in DOMAIN res |-> res[i].liability]
ConsumptionOf ==
  [i \in DOMAIN res |-> IF res[i].state = "SETTLED" THEN res[i].settled
                        ELSE IF res[i].state = "CONSUMED_UNRECOVERABLE"
                        THEN res[i].liability ELSE 0]

ReservedTokens(p, e) == Total(RowsAt(p, e) \cap ActiveIds, LiabilityOf)

\* check_integrity: every stored `reserved` is that of its active rows.
\* Groups cannot be split here, since a group's rows share one state.
Integrity ==
  \A p \in Pool, e \in opened : reserved[p][e] = ReservedTokens(p, e)

-----------------------------------------------------------------------------
(* Writing the books                                                       *)

Relabel(S, s) ==
  [i \in DOMAIN res |-> IF i \in S THEN [res[i] EXCEPT !.state = s] ELSE res[i]]

\* adjust_pool over several rows: counter moved by delta in pool p, epochs E.
Adjust(counter, p, E, delta) ==
  [q \in Pool |-> [e \in Epoch |->
     IF q = p /\ e \in E THEN counter[q][e] + delta ELSE counter[q][e]]]

\* No operation starts while another is between its writes, or without the
\* ledger open.
Running == trust # Down /\ pending = Idle

\* adjust_pool refuses a missing row and a counter that would go negative.
CanFinish(i) ==
  \A e \in res[i].rows : e \in opened /\ reserved[PoolFor(i)][e] >= res[i].liability

\* finish: every row gives up its liability and consumes `amount` instead.
Finish(i, target, amount, settled) ==
  /\ CanFinish(i)
  /\ reserved' = Adjust(reserved, PoolFor(i), res[i].rows, 0 - res[i].liability)
  /\ consumed' = Adjust(consumed, PoolFor(i), res[i].rows, amount)
  /\ res' = [res EXCEPT ![i].state = target, ![i].settled = settled]
  /\ UNCHANGED <<epoch, opened, meta, ext, process>>

-----------------------------------------------------------------------------
(* Admission                                                               *)

BlockingOnlyThePool(m) == {Global, PoolScope(PoolOf[m])}

\* latch_refusal: the scopes whose latch refuses a reservation of model m.
Blocking(m) == {Global, PoolScope(PoolOf[m]), ModelScope(m)}

CoveredAtAnyCost(l) == \A k \in Key : remaining[k] # Missing

\* Every safety input is verified and its budget covers liability l. Its
\* freshness window is left out: outside it the reservation is refused.
Covered(l) == \A k \in Key : remaining[k] # Missing /\ remaining[k] >= l

HeadroomIgnoringReservations(p) == Grant[p] - consumed[p][epoch]

\* What the current epoch still has to give.
Headroom(p) == Grant[p] - consumed[p][epoch] - reserved[p][epoch]

\* compare-and-reserve.
Reserve(id, m, l) ==
  LET p == PoolOf[m] IN
  /\ Running
  /\ trust = "Trusted"
  /\ Blocking(m) \cap latches = {}
  /\ Covered(l)
  /\ epoch \in opened
  /\ Headroom(p) >= l
  /\ DOMAIN res = 1..(id - 1)
  /\ reserved' = Adjust(reserved, p, {epoch}, l)
  /\ remaining' = [k \in Key |-> remaining[k] - l]
  /\ res' = [i \in DOMAIN res \cup {id} |->
               IF i = id THEN [state |-> "RESERVED", model |-> m, liability |-> l,
                               rows |-> {epoch}, settled |-> 0]
               ELSE res[i]]
  /\ exposed' = [k \in Key |-> exposed[k] + l]
  /\ UNCHANGED <<epoch, opened, consumed, meta, latches, ext, process,
                 sent, lifted, evidence>>

Revalidate(k) ==
  /\ Running
  /\ remaining' = [remaining EXCEPT ![k] = Budget]
  /\ exposed' = [exposed EXCEPT ![k] = 0]
  /\ UNCHANGED <<books, meta, latches, ext, process, sent, lifted, evidence>>

Invalidate(k) ==
  /\ Running
  /\ remaining' = [remaining EXCEPT ![k] = Missing]
  /\ UNCHANGED <<books, meta, latches, ext, process, history>>

SetLatch(s) ==
  /\ Running
  /\ latches' = latches \cup {s}
  /\ UNCHANGED <<books, meta, remaining, ext, process, history>>

ClearLatches(s) ==
  /\ Running
  /\ latches' = latches \ {s}
  /\ evidence' = evidence \ {s}
  /\ UNCHANGED <<books, meta, remaining, ext, process, sent, lifted, exposed>>

-----------------------------------------------------------------------------
(* Dispatch: the external record first, then the ledger, then the bytes    *)

BeginDispatchLedgerFirst(i) ==
  /\ Running
  /\ i \in InState("RESERVED")
  /\ gen < MaxGeneration
  /\ res' = Relabel({i}, "DISPATCHING")
  /\ gen' = gen + 1
  /\ cum' = cum + res[i].liability
  /\ UNCHANGED <<epoch, opened, consumed, reserved, clean, guardsVars, ext, process, history>>

BeginDispatch(i) ==
  /\ Running
  /\ i \in InState("RESERVED")
  /\ gen < MaxGeneration
  /\ ext' = [generation |-> gen + 1, cumulative |-> cum + res[i].liability, last |-> i]
  /\ pending' = Dispatching(i)
  /\ UNCHANGED <<books, meta, guardsVars, trust, history>>

CommitDispatch ==
  /\ trust # Down
  /\ pending.op = "dispatch"
  /\ res' = Relabel({pending.id}, "DISPATCHING")
  /\ gen' = ext.generation
  /\ cum' = ext.cumulative
  /\ pending' = Idle
  /\ UNCHANGED <<epoch, opened, consumed, reserved, clean, guardsVars, ext, trust, history>>

\* The transaction is rolled back (or the directory sync after the rename
\* failed): begin_dispatch returns an error and nothing may be sent.
FailDispatch ==
  /\ trust # Down
  /\ pending.op = "dispatch"
  /\ pending' = Idle
  /\ UNCHANGED <<books, meta, guardsVars, ext, trust, history>>

\* The supervisor hands the bytes to the HTTP stack. Not a ledger operation:
\* it needs no mutex, and begin_dispatch has returned.
Send(i) ==
  /\ trust # Down
  /\ i \in InState("DISPATCHING")
  /\ i \notin sent
  /\ sent' = sent \cup {i}
  /\ UNCHANGED <<books, meta, guardsVars, ext, process, lifted, exposed, evidence>>

Rename(i, s) ==
  /\ Running
  /\ i \in InState("DISPATCHING")
  /\ res' = Relabel({i}, s)
  /\ UNCHANGED <<epoch, opened, consumed, reserved, meta, guardsVars, ext, process, history>>

\* A response id is read from the provider's answer.
AttachResponseId(i) == i \in sent /\ Rename(i, "DISPATCHED_WITH_ID")

\* After a transport error the bytes may or may not have left.
MarkIdUnknown(i) == Rename(i, "DISPATCHED_ID_UNKNOWN")

-----------------------------------------------------------------------------
(* Terminal transitions                                                    *)

Settleable(i) ==
  /\ Running
  /\ i \in InState("DISPATCHING") \cup InState("DISPATCHED_WITH_ID")
  /\ i \in sent

\* Usage that passes validate: recorded as reported, an overrun latches the model.
Settle(i, actual) ==
  LET overrun == IF actual > res[i].liability THEN {ModelScope(res[i].model)} ELSE {} IN
  /\ Settleable(i)
  /\ Finish(i, "SETTLED", actual, actual)
  /\ latches' = latches \cup overrun
  /\ evidence' = evidence \cup overrun
  /\ UNCHANGED <<remaining, sent, lifted, exposed>>

\* Usage that fails validate: written off in full, and the pool latched.
SettleDefective(i) ==
  /\ Settleable(i)
  /\ Finish(i, "CONSUMED_UNRECOVERABLE", res[i].liability, 0)
  /\ latches' = latches \cup {PoolScope(PoolFor(i))}
  /\ evidence' = evidence \cup {PoolScope(PoolFor(i))}
  /\ UNCHANGED <<remaining, sent, lifted, exposed>>

WriteOff(i) ==
  /\ Running
  /\ i \in DOMAIN res
  /\ res[i].state \in PossiblySent
  /\ Finish(i, "CONSUMED_UNRECOVERABLE", res[i].liability, 0)
  /\ UNCHANGED <<guardsVars, history>>

ReleaseUnsentWithRefund(i) ==
  /\ Running
  /\ i \in InState("RESERVED")
  /\ Finish(i, "RELEASED_UNSENT", 0, 0)
  /\ remaining' = [k \in Key |-> IF remaining[k] = Missing THEN Missing
                                 ELSE remaining[k] + res[i].liability]
  /\ UNCHANGED <<latches, history>>

ReleaseUnsent(i) ==
  /\ Running
  /\ i \in InState("RESERVED")
  /\ Finish(i, "RELEASED_UNSENT", 0, 0)
  /\ UNCHANGED <<guardsVars, history>>

\* The provider answered the create request with a refusal (ADR-0006).
ReleaseRejected(i) ==
  /\ Running
  /\ i \in InState("DISPATCHING")
  /\ i \in sent
  /\ Finish(i, "REJECTED_BEFORE_PROCESSING", 0, 0)
  /\ UNCHANGED <<guardsVars, history>>

-----------------------------------------------------------------------------
(* Daily rollover                                                          *)

CarryOnlySent(e) == {i \in DOMAIN res : res[i].state \in PossiblySent /\ e \notin res[i].rows}

\* The active groups with no row in epoch e yet.
Carry(e) == {i \in ActiveIds : e \notin res[i].rows}

RaiseNothing(p, e) == 0

\* What epoch e reserves for the rows carried into it.
RaisedBy(p, e) == Total({i \in Carry(e) : PoolFor(i) = p}, LiabilityOf)

Rollover(e) ==
  /\ Running
  /\ e > epoch
  /\ opened' = opened \cup {e}
  /\ res' = [i \in DOMAIN res |->
               IF i \in Carry(e) THEN [res[i] EXCEPT !.rows = @ \cup {e}] ELSE res[i]]
  /\ reserved' = [p \in Pool |-> [reserved[p] EXCEPT ![e] = @ + RaisedBy(p, e)]]
  /\ epoch' = e
  /\ UNCHANGED <<consumed, meta, guardsVars, ext, process, history>>

-----------------------------------------------------------------------------
(* Recovery from usage reporting                                           *)

BiggerOf(a, b) == IF a > b THEN a ELSE b

\* The runtime recovers a ledger only when it is not trusted.
AdoptAnchor ==
  /\ Running
  /\ trust # "Trusted"
  /\ BiggerOf(gen, ext.generation) < MaxGeneration
  /\ ext' = [generation |-> BiggerOf(gen, ext.generation) + 1,
             cumulative |-> BiggerOf(cum, ext.cumulative), last |-> 0]
  /\ pending' = Adopting
  /\ UNCHANGED <<books, meta, guardsVars, trust, history>>

\* Recorded consumption only rises. Rows the file no longer holds are given
\* up: a ledger recovered this way claims nothing about them.
AdoptCommit(e, report) ==
  LET rise == [p \in Pool |-> BiggerOf(report[p] - consumed[p][e], 0)] IN
  /\ trust # Down
  /\ pending.op = "adopt"
  /\ e \in opened
  /\ consumed' = [p \in Pool |-> [consumed[p] EXCEPT ![e] = @ + rise[p]]]
  /\ lifted' = [p \in Pool |-> [lifted[p] EXCEPT ![e] = @ + rise[p]]]
  /\ gen' = ext.generation
  /\ cum' = ext.cumulative
  /\ trust' = "Trusted"
  /\ pending' = Idle
  /\ sent' = sent \cap DOMAIN res
  /\ UNCHANGED <<res, epoch, opened, reserved, clean, guardsVars, ext, exposed, evidence>>

\* The epoch has no row, or the commit failed.
AdoptFail ==
  /\ trust # Down
  /\ pending.op = "adopt"
  /\ pending' = Idle
  /\ UNCHANGED <<books, meta, guardsVars, ext, trust, history>>

-----------------------------------------------------------------------------
(* Shutdown, crash and restart                                             *)

\* Runtime::shutdown marks the file clean; supervisors may still be running.
MarkClean ==
  /\ Running
  /\ Integrity
  /\ clean' = TRUE
  /\ UNCHANGED <<books, gen, cum, guardsVars, ext, process, history>>

\* The process ends, at whatever point: what is durable stays.
Crash ==
  /\ trust # Down
  /\ trust' = Down
  /\ pending' = Idle
  /\ UNCHANGED <<books, meta, guardsVars, ext, history>>

Gap == ext.generation - gen

\* A gap of one that the recorded reservation, still RESERVED, accounts for.
Explained ==
  /\ ext.last \in InState("RESERVED")
  /\ res[ext.last].liability = ext.cumulative - cum

\* trust::assess, in the order of its early returns.
Assessment ==
  IF ext = Unreadable THEN "ExternalUnreadable"
  ELSE IF ext = NoRecord THEN IF gen = 0 THEN "Uninitialized" ELSE "ExternalMissing"
  ELSE IF ext.generation < gen \/ ext.cumulative < cum THEN "ExternalBehindLedger"
  ELSE IF Gap = 0 /\ ext.cumulative # cum THEN "Inconsistent"
  ELSE IF Gap > 1 \/ (Gap = 1 /\ ~Explained) THEN "LedgerRolledBack"
  ELSE IF Gap = 1 /\ clean THEN "Inconsistent"
  ELSE IF clean THEN "Trusted" ELSE "UncleanShutdown"

Interpretable == Assessment \in {"Trusted", "UncleanShutdown"}

PromotedNone == {}

\* The reservation whose dispatch reached the external record only.
Promoted == IF Interpretable /\ Gap = 1 THEN {ext.last} ELSE {}

UnsentOrDispatching ==
  IF Interpretable THEN (InState("RESERVED") \ Promoted) \cup InState("DISPATCHING") ELSE {}

\* What a restart may release: RESERVED rows of a ledger it can interpret.
Unsent == IF Interpretable THEN InState("RESERVED") \ Promoted ELSE {}

RefundOfEveryReserved(p, e) ==
  IF Interpretable THEN Total(RowsAt(p, e) \cap InState("RESERVED"), LiabilityOf) ELSE 0

\* What pool p gets back in epoch e.
Refund(p, e) == Total(RowsAt(p, e) \cap Unsent, LiabilityOf)

\* open and normalize_after_restart.
Open ==
  LET unknown == (InState("RESERVED") \cup InState("DISPATCHING")) \ Unsent IN
  /\ trust = Down
  /\ Integrity
  /\ res' = [i \in DOMAIN res |->
               IF i \in Unsent THEN [res[i] EXCEPT !.state = "RELEASED_UNSENT"]
               ELSE IF i \in unknown THEN [res[i] EXCEPT !.state = "DISPATCHED_ID_UNKNOWN"]
               ELSE res[i]]
  /\ reserved' = [p \in Pool |-> [e \in Epoch |-> reserved[p][e] - Refund(p, e)]]
  /\ gen' = IF Promoted = {} THEN gen ELSE ext.generation
  /\ cum' = IF Promoted = {} THEN cum ELSE ext.cumulative
  /\ clean' = FALSE
  /\ trust' = Assessment
  /\ UNCHANGED <<epoch, opened, consumed, guardsVars, ext, pending, history>>

-----------------------------------------------------------------------------
(* The specification                                                       *)

Init ==
  /\ res = [i \in {} |-> 0]
  /\ epoch = 0
  /\ opened = {}
  /\ consumed = [p \in Pool |-> [e \in Epoch |-> 0]]
  /\ reserved = [p \in Pool |-> [e \in Epoch |-> 0]]
  /\ gen = 0
  /\ cum = 0
  /\ clean = FALSE
  /\ remaining = [k \in Key |-> Missing]
  /\ latches = {}
  /\ ext = NoRecord
  /\ trust = Down
  /\ pending = Idle
  /\ sent = {}
  /\ lifted = [p \in Pool |-> [e \in Epoch |-> 0]]
  /\ exposed = [k \in Key |-> 0]
  /\ evidence = {}

Admission ==
  \/ \E id \in Id, m \in Model, l \in Liabilities : Reserve(id, m, l)
  \/ \E k \in Key : Revalidate(k) \/ Invalidate(k)
  \/ \E s \in ManualScopes : SetLatch(s)
  \/ \E s \in Scope : ClearLatches(s)

Dispatch ==
  \/ \E i \in DOMAIN res :
       \/ BeginDispatch(i)
       \/ Send(i)
       \/ AttachResponseId(i)
       \/ MarkIdUnknown(i)
  \/ CommitDispatch
  \/ FailDispatch

Settlement ==
  \E i \in DOMAIN res :
    \/ \E actual \in Reports : Settle(i, actual)
    \/ SettleDefective(i)
    \/ WriteOff(i)
    \/ ReleaseUnsent(i)
    \/ ReleaseRejected(i)

Lifecycle ==
  \/ \E e \in Epoch : Rollover(e)
  \/ AdoptAnchor
  \/ \E e \in Epoch, report \in [Pool -> Reports] : AdoptCommit(e, report)
  \/ AdoptFail
  \/ MarkClean
  \/ Crash
  \/ Open

Next == Admission \/ Dispatch \/ Settlement \/ Lifecycle

Spec == Init /\ [][Next]_vars

-----------------------------------------------------------------------------
(* Properties                                                              *)

TypeOK ==
  /\ DOMAIN res \subseteq Id
  /\ res \in [DOMAIN res -> Group]
  /\ epoch \in Epoch
  /\ opened \subseteq Epoch
  /\ consumed \in [Pool -> [Epoch -> Nat]]
  /\ reserved \in [Pool -> [Epoch -> Nat]]
  /\ gen \in Nat
  /\ cum \in Nat
  /\ clean \in BOOLEAN
  /\ remaining \in [Key -> Nat \cup {Missing}]
  /\ latches \subseteq Scope
  /\ ext \in HighWaterMark \cup {NoRecord, Unreadable}
  /\ trust \in Verdict \cup {Down}
  /\ pending \in Pending
  /\ sent \subseteq Id
  /\ lifted \in [Pool -> [Epoch -> Nat]]
  /\ exposed \in [Key -> Nat]
  /\ evidence \subseteq Scope

\* No token appears or evaporates, whatever the order of settlements,
\* rollovers, crashes and restarts: in every pool and epoch, `reserved` is the
\* liability of the active rows, and `consumed` is what settled and
\* written-off rows used plus what was adopted from usage reporting. A double
\* settlement, a refund made twice or a carry counted twice breaks it.
BooksBalance ==
  \A p \in Pool, e \in Epoch :
    /\ reserved[p][e] = ReservedTokens(p, e)
    /\ consumed[p][e] = lifted[p][e] + Total(RowsAt(p, e), ConsumptionOf)

Excess == [i \in DOMAIN res |->
             IF res[i].state = "SETTLED" THEN BiggerOf(res[i].settled - res[i].liability, 0) ELSE 0]

\* The core invariant of the design: what was consumed plus what live requests
\* may still consume stays within the grant of every pool and epoch, but for
\* what only the provider can cause: usage reported above the liability, and
\* consumption adopted from usage reporting.
GrantHeld ==
  \A p \in Pool, e \in opened :
    consumed[p][e] + reserved[p][e]
      <= Grant[p] + lifted[p][e] + Total(RowsAt(p, e), Excess)

\* begin_dispatch and adoption write the external record before the ledger, so
\* that a crash between the two never leaves it behind the ledger.
ExternalNeverTrails ==
  /\ gen <= BiggerOf(ext.generation, 0)
  /\ cum <= ext.cumulative

Accounted == PossiblySent \cup {"SETTLED", "CONSUMED_UNRECOVERABLE", "REJECTED_BEFORE_PROCESSING"}

\* A request whose bytes may have left is never forgotten nor released as
\* unsent by a ledger that believes its own rows, through any crash, restart
\* or failed commit; only settled usage, a write-off or a refusal end its hold.
SentIsHeld ==
  trust \in {"Trusted", "UncleanShutdown"} =>
    \A i \in sent : i \in DOMAIN res /\ res[i].state \in Accounted

\* A live request weighs on the epoch new requests are admitted to: it has a
\* row in the current epoch, and in every epoch opened since its first row.
CarriedForward ==
  \A i \in ActiveIds :
    /\ epoch \in res[i].rows
    /\ \A e \in opened : (\E d \in res[i].rows : d < e) => e \in res[i].rows

\* What is admitted between two verifications of a safety input never exceeds
\* the budget of one, however often requests are released and re-admitted.
ExposureWithinBudget ==
  \A k \in Key : remaining[k] # Missing => exposed[k] <= Budget

\* Once a settlement has shown that a pool or a model does not behave as
\* assumed, nothing is reserved there until an operator clears the latch: not
\* after a restart, and not after the daily rollover.
EvidenceStopsAdmission ==
  [][\A i \in DOMAIN res' \ DOMAIN res :
       LET m == res'[i].model
       IN  {Global, PoolScope(PoolOf[m]), ModelScope(m)} \cap evidence = {}]_vars
=============================================================================
