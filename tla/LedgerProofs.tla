---------------------------- MODULE LedgerProofs ----------------------------
(* Proofs about Ledger, for every value of its constants: its types; what  *)
(* the two files promise together (the external record never trails the    *)
(* ledger, sent requests stay accounted for); the rollover's rows, the     *)
(* safety budgets and the latches; and that the counters are what the rows *)
(* add up to, within the grant. Then the same about LedgerRollback, when   *)
(* either of the two volumes is restored from an older copy, or the        *)
(* external record is lost.                                                *)
EXTENDS LedgerRollback, LedgerInvariants, FiniteSetTheorems, TLAPS

-----------------------------------------------------------------------------
(* Sums: a total is a natural number, that of a disjoint union is the sum  *)
(* of its parts, and only the amounts of its members matter.               *)

LEMMA TokensFinite ==
  ASSUME NEW S, IsFiniteSet(S), NEW f, \A i \in S : f[i] \in Nat
  PROVE  IsFiniteSet(Tokens(S, f)) /\ Total(S, f) \in Nat
<1> DEFINE piece == [i \in S |-> {i} \X (1..f[i])]
           pieces == {{i} \X (1..f[i]) : i \in S}
<1>1. piece \in Surjection(S, pieces)
  BY DEF Surjection
<1>2. IsFiniteSet(pieces)
  BY <1>1, FS_Surjection
<1>3. \A T \in pieces : IsFiniteSet(T)
  <2> SUFFICES ASSUME NEW i \in S PROVE IsFiniteSet({i} \X (1..f[i]))
    OBVIOUS
  <2>1. IsFiniteSet({i})
    BY FS_Singleton
  <2>2. IsFiniteSet(1..f[i])
    BY FS_Interval
  <2>3. QED
    BY <2>1, <2>2, FS_Product
<1>4. IsFiniteSet(UNION pieces)
  BY <1>2, <1>3, FS_UNION
<1>5. QED
  BY <1>4, FS_CardinalityType DEF Tokens, Total

LEMMA TotalEmpty == ASSUME NEW f PROVE Total({}, f) = 0
BY FS_EmptySet DEF Total, Tokens

LEMMA TotalOne ==
  ASSUME NEW i, NEW f, f[i] \in Nat
  PROVE  Total({i}, f) = f[i]
<1>1. Tokens({i}, f) = {i} \X (1..f[i])
  BY DEF Tokens
<1>2. IsFiniteSet({i}) /\ Cardinality({i}) = 1
  BY FS_Singleton
<1>3. IsFiniteSet(1..f[i]) /\ Cardinality(1..f[i]) = f[i]
  BY FS_Interval
<1>4. Cardinality({i} \X (1..f[i])) = Cardinality({i}) * Cardinality(1..f[i])
  BY <1>2, <1>3, FS_Product
<1>5. Cardinality({i}) * Cardinality(1..f[i]) = 1 * f[i]
  BY <1>2, <1>3
<1>6. 1 * f[i] = f[i]
  OBVIOUS
<1>7. QED
  BY <1>1, <1>4, <1>5, <1>6 DEF Total

LEMMA TotalUnion ==
  ASSUME NEW S, NEW T, IsFiniteSet(S), IsFiniteSet(T), S \cap T = {},
         NEW f, \A i \in S \cup T : f[i] \in Nat
  PROVE  Total(S \cup T, f) = Total(S, f) + Total(T, f)
<1>1. Tokens(S \cup T, f) = Tokens(S, f) \cup Tokens(T, f)
  BY DEF Tokens
<1>2. Tokens(S, f) \cap Tokens(T, f) = {}
  BY DEF Tokens
<1>3. IsFiniteSet(Tokens(S, f)) /\ IsFiniteSet(Tokens(T, f))
  BY TokensFinite
<1>4. Total(S, f) \in Nat /\ Total(T, f) \in Nat
  BY TokensFinite
<1>5. Cardinality(Tokens(S, f) \cup Tokens(T, f)) =
        Total(S, f) + Total(T, f) - Cardinality(Tokens(S, f) \cap Tokens(T, f))
  BY <1>3, FS_Union DEF Total
<1>6. Cardinality(Tokens(S, f) \cap Tokens(T, f)) = 0
  BY <1>2, FS_EmptySet
<1>7. Total(S \cup T, f) = Cardinality(Tokens(S, f) \cup Tokens(T, f))
  BY <1>1 DEF Total
<1>8. QED
  BY <1>4, <1>5, <1>6, <1>7

LEMMA TotalSplit ==
  ASSUME NEW S, NEW T, IsFiniteSet(T), S \subseteq T,
         NEW f, \A i \in T : f[i] \in Nat
  PROVE  /\ Total(T, f) = Total(S, f) + Total(T \ S, f)
         /\ Total(S, f) \in Nat /\ Total(T, f) \in Nat
         /\ Total(S, f) <= Total(T, f)
<1>1. IsFiniteSet(S) /\ IsFiniteSet(T \ S)
  BY FS_Subset
<1>2. T = S \cup (T \ S) /\ S \cap (T \ S) = {}
  OBVIOUS
<1>3. Total(S \cup (T \ S), f) = Total(S, f) + Total(T \ S, f)
  BY <1>1, <1>2, TotalUnion
<1>4. Total(S, f) \in Nat /\ Total(T \ S, f) \in Nat
  BY <1>1, TokensFinite
<1>5. QED
  BY <1>2, <1>3, <1>4

LEMMA TotalSame ==
  ASSUME NEW S, NEW f, NEW g, \A i \in S : f[i] = g[i]
  PROVE  Total(S, f) = Total(S, g)
<1>1. {{i} \X (1..f[i]) : i \in S} = {{i} \X (1..g[i]) : i \in S}
  OBVIOUS
<1>2. QED
  BY <1>1 DEF Total, Tokens

LEMMA TotalZero ==
  ASSUME NEW S, NEW f, \A i \in S : f[i] = 0
  PROVE  Total(S, f) = 0
<1>1. \A i \in S : {i} \X (1..f[i]) = {}
  BY Z3
<1>2. Tokens(S, f) = {}
  BY <1>1 DEF Tokens
<1>3. QED
  BY <1>2, FS_EmptySet DEF Total

LEMMA TotalRemove ==
  ASSUME NEW T, IsFiniteSet(T), NEW i \in T, NEW f, \A j \in T : f[j] \in Nat
  PROVE  /\ Total(T, f) = f[i] + Total(T \ {i}, f)
         /\ Total(T, f) \in Nat /\ Total(T \ {i}, f) \in Nat
<1>1. {i} \subseteq T /\ f[i] \in Nat
  OBVIOUS
<1>2. Total(T, f) = Total({i}, f) + Total(T \ {i}, f) /\ Total(T, f) \in Nat
  BY <1>1, TotalSplit
<1>3. Total({i}, f) = f[i]
  BY <1>1, TotalOne
<1>4. IsFiniteSet(T \ {i})
  BY FS_Subset
<1>5. Total(T \ {i}, f) \in Nat
  BY <1>4, TokensFinite
<1>6. QED
  BY <1>2, <1>3, <1>5

LEMMA TotalUpdate ==
  ASSUME NEW T, IsFiniteSet(T), NEW i \in T, NEW f, NEW g,
         \A j \in T : f[j] \in Nat /\ g[j] \in Nat,
         \A j \in T \ {i} : f[j] = g[j]
  PROVE  /\ Total(T, g) + f[i] = Total(T, f) + g[i]
         /\ Total(T, f) \in Nat /\ Total(T, g) \in Nat
<1>1. Total(T \ {i}, f) = Total(T \ {i}, g)
  BY TotalSame
<1>2. Total(T, f) = f[i] + Total(T \ {i}, f) /\ Total(T, f) \in Nat /\ Total(T \ {i}, f) \in Nat
  BY TotalRemove
<1>3. Total(T, g) = g[i] + Total(T \ {i}, g) /\ Total(T, g) \in Nat
  BY TotalRemove
<1>4. f[i] \in Nat /\ g[i] \in Nat
  OBVIOUS
<1>5. QED
  BY <1>1, <1>2, <1>3, <1>4

\* A set that gains members, the amounts of the old ones unchanged.
LEMMA TotalGrow ==
  ASSUME NEW S, NEW T, IsFiniteSet(S), IsFiniteSet(T), S \cap T = {}, NEW f, NEW g,
         \A i \in S : f[i] \in Nat /\ g[i] = f[i], \A i \in T : g[i] \in Nat
  PROVE  /\ Total(S \cup T, g) = Total(S, f) + Total(T, g)
         /\ Total(S, f) \in Nat /\ Total(T, g) \in Nat
<1>1. Total(S \cup T, g) = Total(S, g) + Total(T, g)
  <2>1. \A i \in S \cup T : g[i] \in Nat
    OBVIOUS
  <2>2. QED
    BY <2>1, TotalUnion
<1>2. Total(S, g) = Total(S, f)
  BY TotalSame
<1>3. Total(S, f) \in Nat /\ Total(T, g) \in Nat
  BY TokensFinite
<1>4. QED
  BY <1>1, <1>2, <1>3

-----------------------------------------------------------------------------
(* Lemmas                                                                  *)

LEMMA GroupsFinite ==
  ASSUME TypeOK, NEW S, S \subseteq DOMAIN res
  PROVE  IsFiniteSet(S) /\ \A i \in S : LiabilityOf[i] \in Nat
<1>1. IsFiniteSet(Id)
  BY LedgerAssumption, FS_Interval DEF Id, LedgerAssumption
<1>2. S \subseteq Id
  BY DEF TypeOK
<1>3. \A i \in S : LiabilityOf[i] \in Nat
  BY DEF TypeOK, Group, LiabilityOf
<1>4. QED
  BY <1>1, <1>2, <1>3, FS_Subset

\* adjust_pool keeps the counters natural when no row would go negative.
LEMMA AdjustType ==
  ASSUME NEW counter \in [Pool -> [Epoch -> Nat]], NEW p \in Pool,
         NEW E \in SUBSET Epoch, NEW delta \in Int,
         \A e \in E : counter[p][e] + delta >= 0
  PROVE  Adjust(counter, p, E, delta) \in [Pool -> [Epoch -> Nat]]
<1>1. ASSUME NEW q \in Pool, NEW e \in Epoch
      PROVE  (IF q = p /\ e \in E THEN counter[q][e] + delta ELSE counter[q][e]) \in Nat
  BY <1>1
<1>2. QED
  BY <1>1 DEF Adjust

\* A terminal transition keeps the types.
LEMMA FinishType ==
  ASSUME TypeOK, NEW i \in DOMAIN res, NEW target \in State,
         NEW amount \in Nat, NEW settled \in Nat,
         Finish(i, target, amount, settled)
  PROVE  /\ DOMAIN res' = DOMAIN res
         /\ res' \in [DOMAIN res -> Group]
         /\ \A j \in DOMAIN res : res'[j].rows = res[j].rows /\ res'[j].liability = res[j].liability
         /\ \A j \in DOMAIN res \ {i} : res'[j] = res[j]
         /\ res'[i].state = target
         /\ reserved' \in [Pool -> [Epoch -> Nat]]
         /\ consumed' \in [Pool -> [Epoch -> Nat]]
<1>1. res[i] \in Group /\ PoolFor(i) \in Pool
  BY LedgerAssumption DEF TypeOK, PoolFor, LedgerAssumption, Group
<1>2. res[i].rows \in SUBSET Epoch /\ res[i].liability \in Nat
  BY <1>1 DEF Group
<1>3. reserved' \in [Pool -> [Epoch -> Nat]]
  <2>1. reserved' = Adjust(reserved, PoolFor(i), res[i].rows, 0 - res[i].liability)
    BY DEF Finish
  <2>2. reserved \in [Pool -> [Epoch -> Nat]] /\ 0 - res[i].liability \in Int
    BY <1>2 DEF TypeOK
  <2>3. \A e \in res[i].rows : reserved[PoolFor(i)][e] + (0 - res[i].liability) >= 0
    <3>1. \A e \in res[i].rows : reserved[PoolFor(i)][e] >= res[i].liability
      BY DEF Finish, CanFinish
    <3>2. \A e \in res[i].rows : reserved[PoolFor(i)][e] \in Nat
      BY <1>1, <1>2, <2>2
    <3>3. QED
      BY <1>2, <3>1, <3>2
  <2>4. QED
    BY <1>1, <1>2, <2>1, <2>2, <2>3, AdjustType
<1>4. consumed' \in [Pool -> [Epoch -> Nat]]
  <2>1. consumed' = Adjust(consumed, PoolFor(i), res[i].rows, amount)
    BY DEF Finish
  <2>2. consumed \in [Pool -> [Epoch -> Nat]] /\ amount \in Int
    BY DEF TypeOK
  <2>3. \A e \in res[i].rows : consumed[PoolFor(i)][e] + amount >= 0
    BY <1>1, <1>2, <2>2
  <2>4. QED
    BY <1>1, <1>2, <2>1, <2>2, <2>3, AdjustType
<1>5. res' = [res EXCEPT ![i].state = target, ![i].settled = settled]
  BY DEF Finish
<1>6. DOMAIN res' = DOMAIN res /\ \A j \in DOMAIN res \ {i} : res'[j] = res[j]
  BY <1>5 DEF TypeOK
<1>7. /\ res'[i] \in Group /\ res'[i].state = target
      /\ res'[i].rows = res[i].rows /\ res'[i].liability = res[i].liability
  BY <1>1, <1>5 DEF TypeOK, Group
<1>8. res' \in [DOMAIN res -> Group]
  BY <1>5, <1>6, <1>7 DEF TypeOK
<1>9. QED
  BY <1>3, <1>4, <1>6, <1>7, <1>8

\* A restart gives back no more than is reserved: check_integrity has passed
\* for the opened epochs, and the others have no row to give back.
LEMMA RefundBound ==
  ASSUME TypeOK, RowsOpened, Integrity, NEW p \in Pool, NEW e \in Epoch
  PROVE  Refund(p, e) \in Nat /\ Refund(p, e) <= reserved[p][e]
<1> DEFINE S == RowsAt(p, e) \cap Unsent
           T == RowsAt(p, e) \cap ActiveIds
<1>1. S \subseteq T /\ T \subseteq DOMAIN res
  BY DEF Unsent, RowsAt, ActiveIds, InState, Active
<1>2. IsFiniteSet(T) /\ \A i \in T : LiabilityOf[i] \in Nat
  BY <1>1, GroupsFinite
<1>3. Total(S, LiabilityOf) \in Nat /\ Total(S, LiabilityOf) <= Total(T, LiabilityOf)
  BY <1>1, <1>2, TotalSplit
<1>4. CASE e \in opened
  BY <1>3, <1>4 DEF Integrity, ReservedTokens, Refund
<1>5. CASE e \notin opened
  <2>1. S = {}
    BY <1>5 DEF RowsAt, RowsOpened
  <2>2. Refund(p, e) = 0
    BY <2>1, TotalEmpty DEF Refund
  <2>3. QED
    BY <2>2 DEF TypeOK
<1>6. QED
  BY <1>4, <1>5

-----------------------------------------------------------------------------
(* Type correctness                                                        *)

LEMMA InitType == Init => TypeInv
<1> SUFFICES ASSUME Init PROVE TypeInv
  OBVIOUS
<1>1. DOMAIN res = {}
  BY DEF Init
<1>2. res \in [DOMAIN res -> Group] /\ DOMAIN res \subseteq Id
  BY <1>1 DEF Init
<1>3. epoch \in Epoch /\ opened \subseteq Epoch
  BY LedgerAssumption DEF Init, Epoch, LedgerAssumption
<1>4. TypeOK
  BY <1>2, <1>3 DEF TypeOK, Init, Missing, Verdict, Down, Pending, Idle, NoRecord
<1>5. PendingOK /\ RowsOpened
  BY <1>1 DEF PendingOK, RowsOpened, Init, Idle
<1>6. QED
  BY <1>4, <1>5 DEF TypeInv

LEMMA IdlePending == pending' = Idle => PendingOK'
BY DEF PendingOK, Idle

\* Relabelling groups changes neither their rows nor their liabilities.
LEMMA RelabelType ==
  ASSUME TypeOK, NEW S, NEW s \in State, res' = Relabel(S, s)
  PROVE  /\ DOMAIN res' = DOMAIN res
         /\ res' \in [DOMAIN res -> Group]
         /\ \A i \in DOMAIN res : res'[i].rows = res[i].rows /\ res'[i].liability = res[i].liability
<1>1. \A i \in DOMAIN res : [res[i] EXCEPT !.state = s] \in Group
  BY DEF TypeOK, Group
<1>2. QED
  BY <1>1 DEF TypeOK, Relabel, Group

LEMMA FinishStep ==
  ASSUME TypeInv, Running, NEW i \in DOMAIN res, NEW target \in State,
         NEW amount \in Nat, NEW settled \in Nat,
         Finish(i, target, amount, settled),
         UNCHANGED <<remaining, sent, lifted, exposed>>,
         latches' \subseteq Scope, evidence' \subseteq Scope
  PROVE  TypeInv'
<1>1. /\ DOMAIN res' = DOMAIN res /\ res' \in [DOMAIN res -> Group]
      /\ reserved' \in [Pool -> [Epoch -> Nat]] /\ consumed' \in [Pool -> [Epoch -> Nat]]
      /\ \A j \in DOMAIN res : res'[j].rows = res[j].rows
  BY FinishType DEF TypeInv
<1>2. UNCHANGED <<epoch, opened, gen, cum, clean, ext, trust, pending>>
  BY DEF Finish, meta, process
<1>3. TypeOK'
  BY <1>1, <1>2 DEF TypeInv, TypeOK
<1>4. PendingOK' /\ RowsOpened'
  BY <1>1, <1>2, IdlePending DEF Running, TypeInv, RowsOpened
<1>5. QED
  BY <1>3, <1>4 DEF TypeInv

LEMMA NextType == TypeInv /\ [Next]_vars => TypeInv'
<1> SUFFICES ASSUME TypeInv, [Next]_vars PROVE TypeInv'
  OBVIOUS
<1> USE DEF TypeInv
<1>1. ASSUME NEW id \in Id, NEW m \in Model, NEW l \in Liabilities, Reserve(id, m, l)
      PROVE  TypeInv'
  <2>1. l \in Nat /\ epoch \in Epoch /\ PoolOf[m] \in Pool
    BY LedgerAssumption DEF LedgerAssumption, TypeOK
  <2>2. DOMAIN res' = DOMAIN res \cup {id} /\ res' \in [DOMAIN res' -> Group]
    <3>1. [state |-> "RESERVED", model |-> m, liability |-> l,
           rows |-> {epoch}, settled |-> 0] \in Group
      BY <2>1 DEF Group, State, Active
    <3>2. QED
      BY <1>1, <3>1 DEF Reserve, TypeOK
  <2>3. reserved' \in [Pool -> [Epoch -> Nat]]
    <3>1. \A e \in {epoch} : reserved[PoolOf[m]][e] + l >= 0
      BY <2>1 DEF TypeOK
    <3>2. reserved \in [Pool -> [Epoch -> Nat]] /\ {epoch} \in SUBSET Epoch /\ l \in Int
      BY <2>1 DEF TypeOK
    <3>3. reserved' = Adjust(reserved, PoolOf[m], {epoch}, l)
      BY <1>1 DEF Reserve
    <3>4. QED
      BY <2>1, <3>1, <3>2, <3>3, AdjustType
  <2>4. remaining' \in [Key -> Nat \cup {Missing}] /\ exposed' \in [Key -> Nat]
    <3>1. ASSUME NEW k \in Key PROVE remaining[k] - l \in Nat
      BY <1>1, <2>1, <3>1 DEF Reserve, Covered, TypeOK, Missing
    <3>2. ASSUME NEW k \in Key PROVE exposed[k] + l \in Nat
      BY <2>1, <3>2 DEF TypeOK
    <3>3. QED
      BY <1>1, <3>1, <3>2 DEF Reserve
  <2>5. UNCHANGED <<epoch, opened, consumed, gen, cum, clean, latches, ext, trust, pending,
                    sent, lifted, evidence>>
    BY <1>1 DEF Reserve, meta, process
  <2>6. TypeOK'
    BY <2>2, <2>3, <2>4, <2>5 DEF TypeOK
  <2>7. PendingOK'
    BY <1>1, <2>5, IdlePending DEF Reserve, Running
  <2>8. RowsOpened'
    BY <1>1, <2>2, <2>5 DEF RowsOpened, Reserve
  <2>9. QED
    BY <2>6, <2>7, <2>8
<1>2. ASSUME NEW k \in Key, Revalidate(k) \/ Invalidate(k)
      PROVE  TypeInv'
  <2>1. UNCHANGED <<res, epoch, opened, consumed, reserved, gen, cum, clean, latches, ext,
                    trust, pending, sent, lifted, evidence>>
    BY <1>2 DEF Revalidate, Invalidate, books, meta, process, history
  <2>2. remaining' \in [Key -> Nat \cup {Missing}] /\ exposed' \in [Key -> Nat]
    <3>1. remaining' = [remaining EXCEPT ![k] = Budget] \/ remaining' = [remaining EXCEPT ![k] = Missing]
      BY <1>2 DEF Revalidate, Invalidate
    <3>2. exposed' = [exposed EXCEPT ![k] = 0] \/ exposed' = exposed
      BY <1>2 DEF Revalidate, Invalidate, history
    <3>3. QED
      BY <3>1, <3>2, LedgerAssumption DEF TypeOK, LedgerAssumption
  <2>3. TypeOK'
    BY <2>1, <2>2 DEF TypeOK
  <2>4. PendingOK' /\ RowsOpened'
    BY <2>1 DEF PendingOK, RowsOpened, InState
  <2>5. QED
    BY <2>3, <2>4
<1>3. ASSUME NEW s \in Scope, ClearLatches(s)
      PROVE  TypeInv'
  <2>1. UNCHANGED <<res, epoch, opened, consumed, reserved, gen, cum, clean, remaining, ext,
                    trust, pending, sent, lifted, exposed>>
    BY <1>3 DEF ClearLatches, books, meta, process
  <2>2. latches' \subseteq latches /\ evidence' \subseteq evidence
    BY <1>3 DEF ClearLatches
  <2>3. TypeOK' /\ PendingOK' /\ RowsOpened'
    BY <2>1, <2>2 DEF TypeOK, PendingOK, RowsOpened, InState
  <2>4. QED
    BY <2>3
<1>4. ASSUME NEW s \in ManualScopes, SetLatch(s)
      PROVE  TypeInv'
  <2>1. UNCHANGED <<res, epoch, opened, consumed, reserved, gen, cum, clean, remaining, ext,
                    trust, pending, sent, lifted, exposed, evidence>>
    BY <1>4 DEF SetLatch, books, meta, process, history
  <2>2. latches' \subseteq Scope
    BY <1>4, ScopeAssumption DEF SetLatch, TypeOK, ScopeAssumption
  <2>3. TypeOK' /\ PendingOK' /\ RowsOpened'
    BY <2>1, <2>2 DEF TypeOK, PendingOK, RowsOpened, InState
  <2>4. QED
    BY <2>3
<1>5. ASSUME NEW i \in DOMAIN res, BeginDispatch(i)
      PROVE  TypeInv'
  <2>1. UNCHANGED <<res, epoch, opened, consumed, reserved, gen, cum, clean, remaining, latches,
                    trust, sent, lifted, exposed, evidence>>
    BY <1>5 DEF BeginDispatch, books, meta, guardsVars, history
  <2>2. res[i].liability \in Nat /\ i \in Nat /\ i \in InState("RESERVED")
    BY <1>5 DEF TypeOK, Group, BeginDispatch, Id
  <2>3. ext' = [generation |-> gen + 1, cumulative |-> cum + res[i].liability, last |-> i]
    BY <1>5 DEF BeginDispatch
  <2>4. ext' \in HighWaterMark
    BY <2>2, <2>3 DEF HighWaterMark, TypeOK
  <2>5. pending' = [op |-> "dispatch", id |-> i]
    BY <1>5 DEF BeginDispatch, Dispatching
  <2>6. TypeOK'
    BY <2>1, <2>2, <2>4, <2>5 DEF TypeOK, Pending
  <2>7. PendingOK'
    BY <1>5, <2>1, <2>2, <2>3, <2>5 DEF PendingOK, BeginDispatch, Running, InState
  <2>8. RowsOpened'
    BY <2>1 DEF RowsOpened
  <2>9. QED
    BY <2>6, <2>7, <2>8
<1>6. CASE CommitDispatch
  <2>1. UNCHANGED <<epoch, opened, consumed, reserved, clean, remaining, latches, ext,
                    trust, sent, lifted, exposed, evidence>>
    BY <1>6 DEF CommitDispatch, guardsVars, history
  <2>2. /\ DOMAIN res' = DOMAIN res /\ res' \in [DOMAIN res -> Group]
        /\ \A i \in DOMAIN res : res'[i].rows = res[i].rows
    BY <1>6, RelabelType DEF CommitDispatch, State, Active, PossiblySent
  <2>3. gen' = gen + 1 /\ cum' = cum + res[pending.id].liability /\ pending' = Idle
    BY <1>6 DEF CommitDispatch, PendingOK
  <2>4. res[pending.id].liability \in Nat
    BY <1>6 DEF CommitDispatch, PendingOK, InState, TypeOK, Group
  <2>5. TypeOK'
    BY <2>1, <2>2, <2>3, <2>4 DEF TypeOK, Pending, Idle
  <2>6. PendingOK' /\ RowsOpened'
    BY <2>1, <2>2, <2>3, IdlePending DEF RowsOpened
  <2>7. QED
    BY <2>5, <2>6
<1>7. CASE FailDispatch \/ AdoptFail
  <2>1. UNCHANGED <<res, epoch, opened, consumed, reserved, gen, cum, clean, remaining, latches,
                    ext, trust, sent, lifted, exposed, evidence>>
    BY <1>7 DEF FailDispatch, AdoptFail, books, meta, guardsVars, history
  <2>2. pending' = Idle
    BY <1>7 DEF FailDispatch, AdoptFail
  <2>3. TypeOK'
    BY <2>1, <2>2 DEF TypeOK, Pending, Idle
  <2>4. PendingOK' /\ RowsOpened'
    BY <2>1, <2>2, IdlePending DEF RowsOpened
  <2>5. QED
    BY <2>3, <2>4
<1>8. ASSUME NEW i \in DOMAIN res, Send(i)
      PROVE  TypeInv'
  <2>1. UNCHANGED <<res, epoch, opened, consumed, reserved, gen, cum, clean, remaining, latches,
                    ext, trust, pending, lifted, exposed, evidence>>
    BY <1>8 DEF Send, books, meta, guardsVars, process
  <2>2. sent' \subseteq Id
    BY <1>8 DEF Send, TypeOK
  <2>3. TypeOK' /\ PendingOK' /\ RowsOpened'
    BY <2>1, <2>2 DEF TypeOK, PendingOK, RowsOpened, InState
  <2>4. QED
    BY <2>3
<1>9. ASSUME NEW i \in DOMAIN res, AttachResponseId(i) \/ MarkIdUnknown(i)
      PROVE  TypeInv'
  <2>1. PICK s \in State : Rename(i, s)
    BY <1>9 DEF AttachResponseId, MarkIdUnknown, State, Active, PossiblySent
  <2>2. UNCHANGED <<epoch, opened, consumed, reserved, gen, cum, clean, remaining, latches,
                    ext, trust, pending, sent, lifted, exposed, evidence>>
    BY <2>1 DEF Rename, meta, guardsVars, process, history
  <2>3. /\ DOMAIN res' = DOMAIN res /\ res' \in [DOMAIN res -> Group]
        /\ \A j \in DOMAIN res : res'[j].rows = res[j].rows
    BY <2>1, RelabelType DEF Rename
  <2>4. TypeOK'
    BY <2>2, <2>3 DEF TypeOK
  <2>5. PendingOK' /\ RowsOpened'
    BY <2>1, <2>2, <2>3, IdlePending DEF RowsOpened, Rename, Running
  <2>6. QED
    BY <2>4, <2>5
<1>10. ASSUME NEW i \in DOMAIN res, NEW actual \in Reports, Settle(i, actual)
       PROVE  TypeInv'
  <2>1. actual \in Nat /\ "SETTLED" \in State
    BY LedgerAssumption DEF LedgerAssumption, State
  <2>2. Running /\ Finish(i, "SETTLED", actual, actual) /\ UNCHANGED <<remaining, sent, lifted, exposed>>
    BY <1>10 DEF Settle, Settleable
  <2>3. ModelScope(res[i].model) \in Scope
    BY DEF Scope, TypeOK, Group
  <2>4. latches' \subseteq Scope /\ evidence' \subseteq Scope
    BY <1>10, <2>3 DEF Settle, TypeOK
  <2>5. QED
    BY <2>1, <2>2, <2>4, FinishStep
<1>11. ASSUME NEW i \in DOMAIN res, SettleDefective(i)
       PROVE  TypeInv'
  <2>1. res[i].liability \in Nat /\ PoolFor(i) \in Pool
    BY LedgerAssumption DEF LedgerAssumption, TypeOK, Group, PoolFor
  <2>2. /\ Running /\ Finish(i, "CONSUMED_UNRECOVERABLE", res[i].liability, 0)
        /\ UNCHANGED <<remaining, sent, lifted, exposed>>
    BY <1>11 DEF SettleDefective, Settleable
  <2>3. latches' \subseteq Scope /\ evidence' \subseteq Scope
    BY <1>11, <2>1 DEF SettleDefective, TypeOK, Scope
  <2>4. QED
    BY <2>1, <2>2, <2>3, FinishStep DEF State
<1>12. ASSUME NEW i \in DOMAIN res, WriteOff(i)
       PROVE  TypeInv'
  <2>1. res[i].liability \in Nat
    BY DEF TypeOK, Group
  <2>2. Running /\ Finish(i, "CONSUMED_UNRECOVERABLE", res[i].liability, 0)
    BY <1>12 DEF WriteOff
  <2>3. UNCHANGED <<remaining, latches, sent, lifted, exposed, evidence>>
    BY <1>12 DEF WriteOff, guardsVars, history
  <2>4. QED
    BY <2>1, <2>2, <2>3, FinishStep DEF State, TypeOK
<1>13. ASSUME NEW i \in DOMAIN res, ReleaseUnsent(i) \/ ReleaseRejected(i)
       PROVE  TypeInv'
  <2>1. PICK s \in State : Finish(i, s, 0, 0)
    BY <1>13 DEF ReleaseUnsent, ReleaseRejected, State
  <2>2. Running /\ UNCHANGED <<remaining, latches, sent, lifted, exposed, evidence>>
    BY <1>13 DEF ReleaseUnsent, ReleaseRejected, guardsVars, history
  <2>3. QED
    BY <2>1, <2>2, FinishStep DEF TypeOK
<1>14. ASSUME NEW e \in Epoch, Rollover(e)
       PROVE  TypeInv'
  <2>1. UNCHANGED <<consumed, gen, cum, clean, remaining, latches, ext, trust, pending,
                    sent, lifted, exposed, evidence>>
    BY <1>14 DEF Rollover, meta, guardsVars, process, history
  <2>2. /\ DOMAIN res' = DOMAIN res /\ res' \in [DOMAIN res -> Group]
        /\ \A i \in DOMAIN res : res'[i].rows \subseteq res[i].rows \cup {e}
    <3>1. \A i \in DOMAIN res : /\ [res[i] EXCEPT !.rows = @ \cup {e}] \in Group
                                /\ [res[i] EXCEPT !.rows = @ \cup {e}].rows = res[i].rows \cup {e}
      BY DEF TypeOK, Group
    <3>2. QED
      BY <1>14, <3>1 DEF Rollover, TypeOK
  <2>3. reserved' \in [Pool -> [Epoch -> Nat]]
    <3>1. ASSUME NEW p \in Pool PROVE RaisedBy(p, e) \in Nat
      <4> DEFINE S == {i \in Carry(e) : PoolFor(i) = p}
      <4>1. S \subseteq DOMAIN res
        BY DEF Carry, ActiveIds
      <4>2. QED
        BY <4>1, GroupsFinite, TokensFinite DEF RaisedBy
    <3>2. ASSUME NEW p \in Pool
          PROVE  [reserved[p] EXCEPT ![e] = @ + RaisedBy(p, e)] \in [Epoch -> Nat]
      BY <3>1, <3>2 DEF TypeOK
    <3>3. QED
      BY <1>14, <3>2 DEF Rollover
  <2>4. epoch' \in Epoch /\ opened' \subseteq Epoch /\ opened' = opened \cup {e}
    BY <1>14 DEF Rollover, TypeOK
  <2>5. TypeOK'
    BY <2>1, <2>2, <2>3, <2>4 DEF TypeOK
  <2>6. PendingOK' /\ RowsOpened'
    BY <1>14, <2>1, <2>2, <2>4, IdlePending DEF Rollover, Running, RowsOpened
  <2>7. QED
    BY <2>5, <2>6
<1>15. CASE AdoptAnchor
  <2>1. UNCHANGED <<res, epoch, opened, consumed, reserved, gen, cum, clean, remaining, latches,
                    trust, sent, lifted, exposed, evidence>>
    BY <1>15 DEF AdoptAnchor, books, meta, guardsVars, history
  <2>2. /\ ext.generation \in Int /\ ext.cumulative \in Nat
        /\ gen \in Nat /\ cum \in Nat
    BY DEF TypeOK, HighWaterMark, NoRecord, Unreadable
  <2>3. BiggerOf(gen, ext.generation) + 1 \in Nat /\ BiggerOf(cum, ext.cumulative) \in Nat
    BY <2>2 DEF BiggerOf
  <2>4. ext' \in HighWaterMark
    BY <1>15, <2>3 DEF AdoptAnchor, HighWaterMark
  <2>5. pending' = [op |-> "adopt", id |-> 0]
    BY <1>15 DEF AdoptAnchor, Adopting
  <2>6. TypeOK'
    BY <2>1, <2>4, <2>5 DEF TypeOK, Pending
  <2>7. PendingOK' /\ RowsOpened'
    BY <1>15, <2>1, <2>4, <2>5 DEF PendingOK, RowsOpened, AdoptAnchor, Running
  <2>8. QED
    BY <2>6, <2>7
<1>16. ASSUME NEW e \in Epoch, NEW report \in [Pool -> Reports], AdoptCommit(e, report)
       PROVE  TypeInv'
  <2> DEFINE rise == [p \in Pool |-> BiggerOf(report[p] - consumed[p][e], 0)]
  <2>1. UNCHANGED <<res, epoch, opened, reserved, clean, remaining, latches, ext, exposed, evidence>>
    BY <1>16 DEF AdoptCommit, guardsVars
  <2>2. gen' \in Nat /\ cum' \in Nat /\ trust' = "Trusted" /\ pending' = Idle /\ sent' \subseteq sent
    BY <1>16 DEF AdoptCommit, PendingOK, HighWaterMark
  <2>3. \A p \in Pool : rise[p] \in Nat
    <3>1. ASSUME NEW p \in Pool PROVE report[p] \in Nat /\ consumed[p][e] \in Nat
      BY <3>1, LedgerAssumption DEF LedgerAssumption, TypeOK
    <3>2. QED
      BY <3>1 DEF BiggerOf
  <2>4. /\ consumed' = [p \in Pool |-> [consumed[p] EXCEPT ![e] = @ + rise[p]]]
        /\ lifted' = [p \in Pool |-> [lifted[p] EXCEPT ![e] = @ + rise[p]]]
    BY <1>16 DEF AdoptCommit
  <2> HIDE DEF rise
  <2>5. consumed' \in [Pool -> [Epoch -> Nat]] /\ lifted' \in [Pool -> [Epoch -> Nat]]
    <3>1. ASSUME NEW p \in Pool
          PROVE  /\ [consumed[p] EXCEPT ![e] = @ + rise[p]] \in [Epoch -> Nat]
                 /\ [lifted[p] EXCEPT ![e] = @ + rise[p]] \in [Epoch -> Nat]
      BY <2>3, <3>1 DEF TypeOK
    <3>2. QED
      BY <2>4, <3>1
  <2>6. TypeOK'
    BY <2>1, <2>2, <2>5 DEF TypeOK, Verdict, Pending, Idle
  <2>7. PendingOK' /\ RowsOpened'
    BY <2>1, <2>2, IdlePending DEF RowsOpened
  <2>8. QED
    BY <2>6, <2>7
<1>17. CASE MarkClean \/ Crash
  <2>1. UNCHANGED <<res, epoch, opened, consumed, reserved, gen, cum, remaining, latches,
                    ext, sent, lifted, exposed, evidence>>
    BY <1>17 DEF MarkClean, Crash, books, meta, guardsVars, history
  <2>2. clean' \in BOOLEAN /\ trust' \in Verdict \cup {Down} /\ pending' = Idle
    BY <1>17 DEF MarkClean, Crash, meta, process, Running, TypeOK
  <2>3. TypeOK'
    BY <2>1, <2>2 DEF TypeOK, Pending, Idle
  <2>4. PendingOK' /\ RowsOpened'
    BY <2>1, <2>2, IdlePending DEF RowsOpened
  <2>5. QED
    BY <2>3, <2>4
<1>18. CASE Open
  <2>1. UNCHANGED <<epoch, opened, consumed, remaining, latches, ext, pending,
                    sent, lifted, exposed, evidence>>
    BY <1>18 DEF Open, guardsVars, history
  <2>2. /\ DOMAIN res' = DOMAIN res /\ res' \in [DOMAIN res -> Group]
        /\ \A i \in DOMAIN res : res'[i].rows = res[i].rows
    <3>1. ASSUME NEW i \in DOMAIN res, NEW s \in State
          PROVE  [res[i] EXCEPT !.state = s] \in Group /\ [res[i] EXCEPT !.state = s].rows = res[i].rows
      BY <3>1 DEF TypeOK, Group
    <3>2. {"RELEASED_UNSENT", "DISPATCHED_ID_UNKNOWN"} \subseteq State
      BY DEF State, Active, PossiblySent
    <3>3. QED
      BY <1>18, <3>1, <3>2 DEF Open, TypeOK
  <2>3. reserved' \in [Pool -> [Epoch -> Nat]]
    <3>1. ASSUME NEW p \in Pool, NEW e \in Epoch PROVE reserved[p][e] - Refund(p, e) \in Nat
      <4>1. Refund(p, e) \in Nat /\ Refund(p, e) <= reserved[p][e]
        BY <1>18, RefundBound DEF Open
      <4>2. QED
        BY <4>1 DEF TypeOK
    <3>2. QED
      BY <1>18, <3>1 DEF Open
  <2>4. gen' \in Nat /\ cum' \in Nat
    <3>1. CASE Promoted = {}
      BY <1>18, <3>1 DEF Open, TypeOK
    <3>2. CASE Promoted # {}
      <4>1. Interpretable
        BY <3>2 DEF Promoted
      <4>2. ext \in HighWaterMark
        BY <4>1 DEF Interpretable, Assessment, TypeOK
      <4>3. QED
        BY <1>18, <3>2, <4>2 DEF Open, HighWaterMark
    <3>3. QED
      BY <3>1, <3>2
  <2>5. clean' \in BOOLEAN /\ trust' \in Verdict
    BY <1>18 DEF Open, Assessment, Verdict
  <2>6. TypeOK'
    BY <2>1, <2>2, <2>3, <2>4, <2>5 DEF TypeOK
  <2>7. pending' = Idle
    BY <1>18, <2>1 DEF Open, PendingOK
  <2>8. PendingOK' /\ RowsOpened'
    BY <2>1, <2>2, <2>7, IdlePending DEF RowsOpened
  <2>9. QED
    BY <2>6, <2>8
<1>19. CASE UNCHANGED vars
  BY <1>19 DEF vars, books, meta, guardsVars, process, history, TypeOK, PendingOK, RowsOpened, InState
<1>20. QED
  BY <1>1, <1>2, <1>3, <1>4, <1>5, <1>6, <1>7, <1>8, <1>9, <1>10, <1>11, <1>12, <1>13,
     <1>14, <1>15, <1>16, <1>17, <1>18, <1>19
     DEF Next, Admission, Dispatch, Settlement, Lifecycle

THEOREM TypeCorrect == Spec => []TypeOK
<1>1. TypeInv => TypeOK
  BY DEF TypeInv
<1>2. QED
  BY <1>1, InitType, NextType, PTL DEF Spec


-----------------------------------------------------------------------------
(* The external record never trails the ledger                             *)

LEMMA NextTrails ==
  TypeInv /\ ExternalNeverTrails /\ [Next]_vars => ExternalNeverTrails'
<1> SUFFICES ASSUME TypeInv, ExternalNeverTrails, [Next]_vars PROVE ExternalNeverTrails'
  OBVIOUS
<1>1. /\ gen \in Nat /\ cum \in Nat
      /\ ext.generation \in Int /\ ext.cumulative \in Nat
  BY DEF TypeInv, TypeOK, HighWaterMark, NoRecord, Unreadable
<1>2. CASE UNCHANGED <<gen, cum, ext>>
  BY <1>2 DEF ExternalNeverTrails, BiggerOf
<1>3. ASSUME NEW i \in DOMAIN res, BeginDispatch(i)
      PROVE  ExternalNeverTrails'
  <2>1. gen' = gen /\ cum' = cum
    BY <1>3 DEF BeginDispatch, meta
  <2>2. res[i].liability \in Nat
    BY DEF TypeInv, TypeOK, Group
  <2>3. ext'.generation = gen + 1 /\ ext'.cumulative = cum + res[i].liability
    BY <1>3 DEF BeginDispatch
  <2>4. QED
    BY <1>1, <2>1, <2>2, <2>3 DEF ExternalNeverTrails, BiggerOf
<1>4. ASSUME CommitDispatch \/ \E e \in Epoch, report \in [Pool -> Reports] : AdoptCommit(e, report)
      PROVE  ExternalNeverTrails'
  <2>1. ext' = ext /\ gen' = ext.generation /\ cum' = ext.cumulative
    BY <1>4 DEF CommitDispatch, AdoptCommit
  <2>2. QED
    BY <1>1, <2>1 DEF ExternalNeverTrails, BiggerOf
<1>5. CASE AdoptAnchor
  <2>1. gen' = gen /\ cum' = cum
    BY <1>5 DEF AdoptAnchor, meta
  <2>2. /\ ext'.generation = BiggerOf(gen, ext.generation) + 1
        /\ ext'.cumulative = BiggerOf(cum, ext.cumulative)
    BY <1>5 DEF AdoptAnchor
  <2>3. QED
    BY <1>1, <2>1, <2>2 DEF ExternalNeverTrails, BiggerOf
<1>6. CASE Open
  <2>1. ext' = ext
    BY <1>6 DEF Open
  <2>2. \/ gen' = gen /\ cum' = cum
        \/ gen' = ext.generation /\ cum' = ext.cumulative
    BY <1>6 DEF Open
  <2>3. QED
    BY <1>1, <2>1, <2>2 DEF ExternalNeverTrails, BiggerOf
<1>7. ASSUME Admission \/ Settlement
      PROVE  UNCHANGED <<gen, cum, ext>>
  BY <1>7 DEF Admission, Settlement, Reserve, Revalidate, Invalidate, SetLatch, ClearLatches,
              Settle, SettleDefective, WriteOff, ReleaseUnsent, ReleaseRejected, Finish, meta
<1>8. ASSUME \/ \E i \in DOMAIN res : Send(i) \/ AttachResponseId(i) \/ MarkIdUnknown(i)
             \/ FailDispatch \/ AdoptFail \/ MarkClean \/ Crash
             \/ \E e \in Epoch : Rollover(e)
             \/ UNCHANGED vars
      PROVE  UNCHANGED <<gen, cum, ext>>
  BY <1>8 DEF Send, AttachResponseId, MarkIdUnknown, Rename, FailDispatch, AdoptFail, MarkClean,
              Crash, Rollover, vars, meta
<1>9. QED
  BY <1>2, <1>3, <1>4, <1>5, <1>6, <1>7, <1>8 DEF Next, Dispatch, Lifecycle

\* begin_dispatch and adopt_recovered_consumption write the external record
\* first: however they are interrupted, it is never behind the ledger.
THEOREM ExternalLeads == Spec => []ExternalNeverTrails
<1>1. Init => ExternalNeverTrails
  BY DEF Init, ExternalNeverTrails, NoRecord, BiggerOf
<1>2. QED
  BY <1>1, InitType, NextType, NextTrails, PTL DEF Spec

-----------------------------------------------------------------------------
(* Sent requests stay accounted for                                        *)

\* A step that touches no accounted group, nor adds to sent, keeps Held.
LEMMA HeldKept ==
  ASSUME Held, sent' \subseteq sent,
         \A i \in DOMAIN res : res[i].state \in Accounted =>
            i \in DOMAIN res' /\ res'[i].state \in Accounted
  PROVE  Held'
BY DEF Held

LEMMA NextHeld == TypeInv /\ Held /\ [Next]_vars => Held'
<1> SUFFICES ASSUME TypeInv, Held, [Next]_vars PROVE Held'
  OBVIOUS
<1>1. ASSUME NEW id \in Id, NEW m \in Model, NEW l \in Liabilities, Reserve(id, m, l)
      PROVE  Held'
  <2>1. sent' = sent /\ \A i \in DOMAIN res : i # id
    BY <1>1 DEF Reserve, Id
  <2>2. \A i \in DOMAIN res : i \in DOMAIN res' /\ res'[i] = res[i]
    BY <1>1, <2>1 DEF Reserve
  <2>3. QED
    BY <2>1, <2>2, HeldKept
<1>2. ASSUME UNCHANGED <<res, sent>>
      PROVE  Held'
  BY <1>2 DEF Held
<1>3. ASSUME NEW S, NEW s \in Accounted, res' = Relabel(S, s), sent' = sent
      PROVE  Held'
  <2>1. \A i \in DOMAIN res : res'[i].state \in {res[i].state, s}
    BY <1>3 DEF Relabel, TypeInv, TypeOK, Group
  <2>2. DOMAIN res' = DOMAIN res
    BY <1>3 DEF Relabel
  <2>3. QED
    BY <1>3, <2>1, <2>2, HeldKept
<1>4. ASSUME NEW i \in DOMAIN res, NEW target \in State, NEW amount \in Nat, NEW settled \in Nat,
             Finish(i, target, amount, settled), sent' = sent,
             target \in Accounted \/ res[i].state = "RESERVED"
      PROVE  Held'
  <2>1. /\ DOMAIN res' = DOMAIN res /\ res'[i].state = target
        /\ \A j \in DOMAIN res \ {i} : res'[j] = res[j]
    BY <1>4, FinishType DEF TypeInv
  <2>2. "RESERVED" \notin Accounted
    BY DEF Accounted, PossiblySent
  <2>3. QED
    BY <1>4, <2>1, <2>2, HeldKept
<1>5. ASSUME NEW i \in DOMAIN res, Send(i)
      PROVE  Held'
  BY <1>5 DEF Send, Held, InState, Accounted, PossiblySent, books
<1>6. ASSUME NEW i \in DOMAIN res, BeginDispatch(i) \/ AttachResponseId(i) \/ MarkIdUnknown(i)
      PROVE  Held'
  <2>1. CASE BeginDispatch(i)
    BY <1>2, <2>1 DEF BeginDispatch, books, history
  <2>2. CASE AttachResponseId(i) \/ MarkIdUnknown(i)
    BY <1>3, <2>2 DEF AttachResponseId, MarkIdUnknown, Rename, Accounted, PossiblySent, history
  <2>3. QED
    BY <1>6, <2>1, <2>2
<1>7. CASE CommitDispatch
  BY <1>3, <1>7 DEF CommitDispatch, Accounted, PossiblySent, history
<1>8. ASSUME NEW i \in DOMAIN res,
             \/ \E actual \in Reports : Settle(i, actual)
             \/ SettleDefective(i) \/ WriteOff(i) \/ ReleaseUnsent(i) \/ ReleaseRejected(i)
      PROVE  Held'
  <2>1. sent' = sent
    BY <1>8 DEF Settle, SettleDefective, WriteOff, ReleaseUnsent, ReleaseRejected, history
  <2>2. res[i].liability \in Nat /\ Reports \subseteq Nat
    BY LedgerAssumption DEF TypeInv, TypeOK, Group, LedgerAssumption
  <2>3. {"SETTLED", "CONSUMED_UNRECOVERABLE", "REJECTED_BEFORE_PROCESSING", "RELEASED_UNSENT"}
          \subseteq State
    BY DEF State
  <2>4. \/ \E actual \in Nat : Finish(i, "SETTLED", actual, actual)
        \/ Finish(i, "CONSUMED_UNRECOVERABLE", res[i].liability, 0)
        \/ Finish(i, "RELEASED_UNSENT", 0, 0) /\ res[i].state = "RESERVED"
        \/ Finish(i, "REJECTED_BEFORE_PROCESSING", 0, 0)
    BY <1>8, <2>2 DEF Settle, SettleDefective, WriteOff, ReleaseUnsent, ReleaseRejected, InState
  <2>5. QED
    BY <1>4, <2>1, <2>2, <2>3, <2>4 DEF Accounted
<1>9. ASSUME NEW e \in Epoch, Rollover(e)
      PROVE  Held'
  <2>1. DOMAIN res' = DOMAIN res /\ sent' = sent
    BY <1>9 DEF Rollover, history
  <2>2. \A i \in DOMAIN res : res'[i].state = res[i].state
    BY <1>9 DEF Rollover, TypeInv, TypeOK, Group
  <2>3. QED
    BY <2>1, <2>2, HeldKept
<1>10. ASSUME NEW e \in Epoch, NEW report \in [Pool -> Reports], AdoptCommit(e, report)
       PROVE  Held'
  BY <1>10 DEF AdoptCommit, Held
<1>11. CASE Open
  <2>1. DOMAIN res' = DOMAIN res /\ sent' = sent
    BY <1>11 DEF Open, history
  <2>2. ASSUME NEW i \in DOMAIN res, res[i].state \in Accounted
        PROVE  res'[i].state \in Accounted
    <3>1. i \notin Unsent
      BY <2>2 DEF Unsent, InState, Accounted, PossiblySent
    <3>2. res'[i].state \in {res[i].state, "DISPATCHED_ID_UNKNOWN"}
      BY <1>11, <3>1 DEF Open, TypeInv, TypeOK, Group
    <3>3. QED
      BY <2>2, <3>2 DEF Accounted, PossiblySent
  <2>3. QED
    BY <2>1, <2>2, HeldKept
<1>12. ASSUME \/ \E k \in Key : Revalidate(k) \/ Invalidate(k)
              \/ \E s \in ManualScopes : SetLatch(s)
              \/ \E s \in Scope : ClearLatches(s)
              \/ FailDispatch \/ AdoptAnchor \/ AdoptFail \/ MarkClean \/ Crash
              \/ UNCHANGED vars
       PROVE  UNCHANGED <<res, sent>>
  BY <1>12 DEF Revalidate, Invalidate, SetLatch, ClearLatches, FailDispatch, AdoptAnchor,
               AdoptFail, MarkClean, Crash, vars, books, history
<1>13. QED
  BY <1>1, <1>2, <1>5, <1>6, <1>7, <1>8, <1>9, <1>10, <1>11, <1>12
     DEF Next, Admission, Dispatch, Settlement, Lifecycle

\* No crash, restart, failed commit, rollover or recovery makes the ledger
\* forget a request whose bytes may have left, or release it as unsent.
THEOREM SentHeld == Spec => []SentIsHeld
<1>1. Init => Held
  BY DEF Init, Held
<1>2. Held => SentIsHeld
  BY DEF Held, SentIsHeld
<1>3. QED
  BY <1>1, <1>2, InitType, NextType, NextHeld, PTL DEF Spec

-----------------------------------------------------------------------------
(* Live requests weigh on the current epoch                                *)

\* A step that makes no group active and moves no row keeps ForwardInv.
LEMMA ForwardKept ==
  ASSUME ForwardInv, UNCHANGED <<epoch, opened>>,
         \A i \in ActiveIds' : i \in ActiveIds /\ res'[i].rows = res[i].rows
  PROVE  ForwardInv'
BY DEF ForwardInv, OpenedInOrder, CarriedForward

LEMMA NextForward == TypeInv /\ ForwardInv /\ [Next]_vars => ForwardInv'
<1> SUFFICES ASSUME TypeInv, ForwardInv, [Next]_vars PROVE ForwardInv'
  OBVIOUS
<1>1. ASSUME NEW id \in Id, NEW m \in Model, NEW l \in Liabilities, Reserve(id, m, l)
      PROVE  ForwardInv'
  <2>1. UNCHANGED <<epoch, opened>> /\ epoch \in opened /\ epoch \in Int /\ opened \subseteq Int
    BY <1>1 DEF Reserve, TypeInv, TypeOK, Epoch
  <2>2. res'[id].rows = {epoch} /\ \A i \in DOMAIN res' \ {id} : i \in DOMAIN res /\ res'[i] = res[i]
    BY <1>1 DEF Reserve
  <2>3. \A i \in ActiveIds' \ {id} : i \in ActiveIds /\ res'[i].rows = res[i].rows
    BY <2>2 DEF ActiveIds
  <2>4. \A e \in opened : ~ (epoch < e)
    BY <2>1 DEF ForwardInv, OpenedInOrder
  <2>5. QED
    BY <2>1, <2>2, <2>3, <2>4 DEF ForwardInv, OpenedInOrder, CarriedForward
<1>2. ASSUME UNCHANGED <<res, epoch, opened>>
      PROVE  ForwardInv'
  BY <1>2, ForwardKept DEF ActiveIds
<1>3. ASSUME NEW S, NEW s \in State, S \subseteq ActiveIds, res' = Relabel(S, s),
             UNCHANGED <<epoch, opened>>
      PROVE  ForwardInv'
  <2>1. \A i \in DOMAIN res : i \in S \/ res'[i] = res[i]
    BY <1>3 DEF Relabel
  <2>2. DOMAIN res' = DOMAIN res /\ \A i \in DOMAIN res : res'[i].rows = res[i].rows
    BY <1>3, RelabelType DEF TypeInv
  <2>3. QED
    BY <1>3, <2>1, <2>2, ForwardKept DEF ActiveIds
<1>4. ASSUME NEW i \in DOMAIN res, NEW target \in State \ Active, NEW amount \in Nat,
             NEW settled \in Nat, Finish(i, target, amount, settled)
      PROVE  ForwardInv'
  <2>1. /\ DOMAIN res' = DOMAIN res /\ res'[i].state = target
        /\ \A j \in DOMAIN res : res'[j].rows = res[j].rows
        /\ \A j \in DOMAIN res \ {i} : res'[j] = res[j]
    BY <1>4, FinishType DEF TypeInv
  <2>2. UNCHANGED <<epoch, opened>>
    BY <1>4 DEF Finish
  <2>3. QED
    BY <1>4, <2>1, <2>2, ForwardKept DEF ActiveIds
<1>5. ASSUME NEW i \in DOMAIN res,
             \/ BeginDispatch(i) \/ Send(i) \/ AttachResponseId(i) \/ MarkIdUnknown(i)
      PROVE  ForwardInv'
  <2>1. CASE BeginDispatch(i) \/ Send(i)
    BY <1>2, <2>1 DEF BeginDispatch, Send, books
  <2>2. ASSUME NEW s \in PossiblySent, Rename(i, s)
        PROVE  ForwardInv'
    <3>1. {i} \subseteq ActiveIds /\ s \in State
      BY <2>2 DEF Rename, InState, ActiveIds, State, Active, PossiblySent
    <3>2. QED
      BY <1>3, <2>2, <3>1 DEF Rename
  <2>3. QED
    BY <1>5, <2>1, <2>2 DEF AttachResponseId, MarkIdUnknown, PossiblySent
<1>6. CASE CommitDispatch
  <2>1. {pending.id} \subseteq ActiveIds /\ "DISPATCHING" \in State
    BY <1>6 DEF CommitDispatch, TypeInv, PendingOK, InState, ActiveIds, State, Active, PossiblySent
  <2>2. QED
    BY <1>3, <1>6, <2>1 DEF CommitDispatch
<1>7. ASSUME NEW i \in DOMAIN res,
             \/ \E actual \in Reports : Settle(i, actual)
             \/ SettleDefective(i) \/ WriteOff(i) \/ ReleaseUnsent(i) \/ ReleaseRejected(i)
      PROVE  ForwardInv'
  <2>1. res[i].liability \in Nat /\ Reports \subseteq Nat
    BY LedgerAssumption DEF TypeInv, TypeOK, Group, LedgerAssumption
  <2>2. {"SETTLED", "CONSUMED_UNRECOVERABLE", "REJECTED_BEFORE_PROCESSING", "RELEASED_UNSENT"}
          \subseteq State \ Active
    BY DEF State, Active, PossiblySent
  <2>3. \/ \E actual \in Nat : Finish(i, "SETTLED", actual, actual)
        \/ Finish(i, "CONSUMED_UNRECOVERABLE", res[i].liability, 0)
        \/ Finish(i, "RELEASED_UNSENT", 0, 0)
        \/ Finish(i, "REJECTED_BEFORE_PROCESSING", 0, 0)
    BY <1>7, <2>1 DEF Settle, SettleDefective, WriteOff, ReleaseUnsent, ReleaseRejected
  <2>4. QED
    BY <1>4, <2>1, <2>2, <2>3
<1>8. ASSUME NEW e \in Epoch, Rollover(e)
      PROVE  ForwardInv'
  <2>1. epoch' = e /\ opened' = opened \cup {e} /\ e > epoch
    BY <1>8 DEF Rollover
  <2>2. e \in Int /\ epoch \in Int /\ opened \subseteq Int
    BY DEF TypeInv, TypeOK, Epoch
  <2>3. OpenedInOrder'
    BY <2>1, <2>2 DEF ForwardInv, OpenedInOrder
  <2>4. /\ ActiveIds' = ActiveIds
        /\ \A i \in ActiveIds : res'[i].rows = res[i].rows \cup {e}
    <3>1. DOMAIN res' = DOMAIN res /\ \A i \in DOMAIN res :
            /\ res'[i].state = res[i].state
            /\ i \in ActiveIds => res'[i].rows = res[i].rows \cup {e}
      BY <1>8 DEF Rollover, TypeInv, TypeOK, Group, Carry
    <3>2. QED
      BY <3>1 DEF ActiveIds
  <2>5. CarriedForward'
    <3>1. ASSUME NEW i \in ActiveIds, NEW f \in opened', NEW d \in res'[i].rows, d < f
          PROVE  f \in res'[i].rows
      <4>1. CASE f = e
        BY <2>4, <4>1
      <4>2. CASE f # e
        <5>1. f \in opened /\ f <= epoch
          BY <2>1, <4>2 DEF ForwardInv, OpenedInOrder
        <5>2. d \in res[i].rows
          BY <2>1, <2>2, <2>4, <3>1, <5>1
        <5>3. QED
          BY <2>4, <3>1, <5>1, <5>2 DEF ForwardInv, CarriedForward
      <4>3. QED
        BY <4>1, <4>2
    <3>2. QED
      BY <2>1, <2>4, <3>1 DEF CarriedForward
  <2>6. QED
    BY <2>3, <2>5 DEF ForwardInv
<1>9. CASE Open
  <2>1. UNCHANGED <<epoch, opened>> /\ DOMAIN res' = DOMAIN res
    BY <1>9 DEF Open
  <2>2. ASSUME NEW i \in DOMAIN res
        PROVE  /\ res'[i].rows = res[i].rows
               /\ res'[i].state \in Active => res[i].state \in Active
    BY <1>9 DEF Open, TypeInv, TypeOK, Group, InState, Active, PossiblySent
  <2>3. QED
    BY <2>1, <2>2, ForwardKept DEF ActiveIds
<1>10. ASSUME \/ \E k \in Key : Revalidate(k) \/ Invalidate(k)
              \/ \E s \in ManualScopes : SetLatch(s)
              \/ \E s \in Scope : ClearLatches(s)
              \/ FailDispatch \/ AdoptAnchor \/ AdoptFail \/ MarkClean \/ Crash
              \/ \E e \in Epoch, report \in [Pool -> Reports] : AdoptCommit(e, report)
              \/ UNCHANGED vars
       PROVE  UNCHANGED <<res, epoch, opened>>
  BY <1>10 DEF Revalidate, Invalidate, SetLatch, ClearLatches, FailDispatch, AdoptAnchor,
               AdoptFail, AdoptCommit, MarkClean, Crash, vars, books
<1>11. QED
  BY <1>1, <1>2, <1>5, <1>6, <1>7, <1>8, <1>9, <1>10
     DEF Next, Admission, Dispatch, Settlement, Lifecycle

\* However rollovers, settlements and restarts interleave, a live request has
\* a row in the current epoch and in every epoch opened since its first row.
THEOREM LiveIsCarried == Spec => []CarriedForward
<1>1. Init => ForwardInv
  BY DEF Init, ForwardInv, OpenedInOrder, CarriedForward, ActiveIds
<1>2. ForwardInv => CarriedForward
  BY DEF ForwardInv
<1>3. QED
  BY <1>1, <1>2, InitType, NextType, NextForward, PTL DEF Spec

-----------------------------------------------------------------------------
(* Safety budgets and latches                                              *)

LEMMA NextGuards == TypeInv /\ GuardsInv /\ [Next]_vars => GuardsInv'
<1> SUFFICES ASSUME TypeInv, GuardsInv, [Next]_vars PROVE GuardsInv'
  OBVIOUS
<1>1. ASSUME NEW k \in Key
      PROVE  /\ remaining[k] \in Nat \cup {Missing} /\ exposed[k] \in Nat
             /\ Budget \in Nat /\ Missing = -1
  BY <1>1, LedgerAssumption DEF TypeInv, TypeOK, LedgerAssumption, Missing
<1>2. ASSUME NEW id \in Id, NEW m \in Model, NEW l \in Liabilities, Reserve(id, m, l)
      PROVE  GuardsInv'
  <2>1. UNCHANGED <<latches, evidence>>
    BY <1>2 DEF Reserve
  <2>2. ASSUME NEW k \in Key PROVE exposed'[k] + remaining'[k] = Budget
    <3>1. /\ remaining'[k] = remaining[k] - l /\ exposed'[k] = exposed[k] + l
          /\ remaining[k] # Missing
      BY <1>2, <2>2 DEF Reserve, Covered
    <3>2. exposed[k] + remaining[k] = Budget
      BY <3>1 DEF GuardsInv, BudgetSpent
    <3>3. l \in Nat
      BY LedgerAssumption DEF LedgerAssumption
    <3>4. QED
      BY <1>1, <3>1, <3>2, <3>3
  <2>3. QED
    BY <2>1, <2>2 DEF GuardsInv, BudgetSpent, EvidenceLatched
<1>3. ASSUME NEW k \in Key, Revalidate(k)
      PROVE  GuardsInv'
  <2>1. UNCHANGED <<latches, evidence>>
    BY <1>3 DEF Revalidate
  <2>2. remaining'[k] = Budget /\ exposed'[k] = 0
    BY <1>3 DEF Revalidate, TypeInv, TypeOK
  <2>3. \A j \in Key \ {k} : remaining'[j] = remaining[j] /\ exposed'[j] = exposed[j]
    BY <1>3 DEF Revalidate, TypeInv, TypeOK
  <2>4. QED
    BY <1>1, <2>1, <2>2, <2>3 DEF GuardsInv, BudgetSpent, EvidenceLatched
<1>4. ASSUME NEW k \in Key, Invalidate(k)
      PROVE  GuardsInv'
  <2>1. UNCHANGED <<latches, evidence, exposed>>
    BY <1>4 DEF Invalidate, history
  <2>2. remaining'[k] = Missing
    BY <1>4 DEF Invalidate, TypeInv, TypeOK
  <2>3. \A j \in Key \ {k} : remaining'[j] = remaining[j]
    BY <1>4 DEF Invalidate, TypeInv, TypeOK
  <2>4. QED
    BY <2>1, <2>2, <2>3 DEF GuardsInv, BudgetSpent, EvidenceLatched
<1>5. ASSUME UNCHANGED <<remaining, exposed>>, evidence' \subseteq latches'
      PROVE  GuardsInv'
  BY <1>5 DEF GuardsInv, BudgetSpent, EvidenceLatched
<1>6. ASSUME NEW s \in Scope, SetLatch(s) \/ ClearLatches(s)
      PROVE  GuardsInv'
  BY <1>5, <1>6 DEF SetLatch, ClearLatches, history, GuardsInv, EvidenceLatched
<1>7. ASSUME NEW i \in DOMAIN res,
             \/ \E actual \in Reports : Settle(i, actual)
             \/ SettleDefective(i) \/ WriteOff(i) \/ ReleaseUnsent(i) \/ ReleaseRejected(i)
      PROVE  GuardsInv'
  <2>1. UNCHANGED <<remaining, exposed>>
    BY <1>7 DEF Settle, SettleDefective, WriteOff, ReleaseUnsent, ReleaseRejected, guardsVars, history
  <2>2. \E X : latches' = latches \cup X /\ evidence' = evidence \cup X
    <3>1. CASE \E actual \in Reports : Settle(i, actual)
      BY <3>1 DEF Settle
    <3>2. CASE SettleDefective(i)
      BY <3>2 DEF SettleDefective
    <3>3. CASE WriteOff(i) \/ ReleaseUnsent(i) \/ ReleaseRejected(i)
      <4>1. latches' = latches \cup {} /\ evidence' = evidence \cup {}
        BY <3>3 DEF WriteOff, ReleaseUnsent, ReleaseRejected, guardsVars, history
      <4>2. QED
        BY <4>1
    <3>4. QED
      BY <1>7, <3>1, <3>2, <3>3
  <2>3. QED
    BY <1>5, <2>1, <2>2 DEF GuardsInv, EvidenceLatched
<1>8. ASSUME Dispatch \/ Lifecycle \/ UNCHANGED vars
      PROVE  UNCHANGED <<remaining, latches, exposed, evidence>>
  BY <1>8 DEF Dispatch, Lifecycle, BeginDispatch, CommitDispatch, FailDispatch, Send, Rename,
              AttachResponseId, MarkIdUnknown, Rollover, AdoptAnchor, AdoptCommit, AdoptFail,
              MarkClean, Crash, Open, guardsVars, history, vars
<1>9. QED
  BY <1>2, <1>3, <1>4, <1>5, <1>6, <1>7, <1>8, ScopeAssumption
     DEF Next, Admission, Settlement, ScopeAssumption, GuardsInv, EvidenceLatched

\* However often requests are released and admitted again, what is admitted
\* between two verifications of a safety input fits the budget of one.
THEOREM ExposureBounded == Spec => []ExposureWithinBudget
<1>1. Init => GuardsInv
  BY DEF Init, GuardsInv, BudgetSpent, EvidenceLatched
<1>2. TypeInv /\ GuardsInv => ExposureWithinBudget
  <2> SUFFICES ASSUME TypeInv, GuardsInv, NEW k \in Key, remaining[k] # Missing
               PROVE  exposed[k] <= Budget
    BY DEF ExposureWithinBudget
  <2>1. remaining[k] \in Nat /\ exposed[k] \in Nat /\ Budget \in Nat
    BY LedgerAssumption DEF TypeInv, TypeOK, LedgerAssumption
  <2>2. QED
    BY <2>1 DEF GuardsInv, BudgetSpent
<1>3. QED
  BY <1>1, <1>2, InitType, NextType, NextGuards, PTL DEF Spec

\* A reservation is never made under a latch that a settlement left behind,
\* after restarts and rollovers too.
THEOREM EvidenceRespected == Spec => EvidenceStopsAdmission
<1> DEFINE P == \A i \in DOMAIN res' \ DOMAIN res :
                  LET m == res'[i].model
                  IN  {Global, PoolScope(PoolOf[m]), ModelScope(m)} \cap evidence = {}
<1>1. Init => GuardsInv
  BY DEF Init, GuardsInv, BudgetSpent, EvidenceLatched
<1>2. TypeInv /\ GuardsInv /\ [Next]_vars => [P]_vars
  <2> SUFFICES ASSUME TypeInv, GuardsInv, Next PROVE P
    OBVIOUS
  <2>1. ASSUME NEW id \in Id, NEW m \in Model, NEW l \in Liabilities, Reserve(id, m, l)
        PROVE  P
    <3>1. DOMAIN res' \ DOMAIN res \subseteq {id} /\ res'[id].model = m
      BY <2>1 DEF Reserve
    <3>2. {Global, PoolScope(PoolOf[m]), ModelScope(m)} \cap evidence = {}
      BY <2>1 DEF Reserve, Blocking, GuardsInv, EvidenceLatched
    <3>3. QED
      BY <3>1, <3>2
  <2>2. ASSUME ~ \E id \in Id, m \in Model, l \in Liabilities : Reserve(id, m, l)
        PROVE  DOMAIN res' = DOMAIN res
    BY <2>2 DEF Next, Admission, Revalidate, Invalidate, SetLatch, ClearLatches,
                Dispatch, BeginDispatch, CommitDispatch, FailDispatch, Send, Rename, Relabel,
                AttachResponseId, MarkIdUnknown, Settlement, Settle, SettleDefective, WriteOff,
                ReleaseUnsent, ReleaseRejected, Finish, Lifecycle, Rollover, AdoptAnchor,
                AdoptCommit, AdoptFail, MarkClean, Crash, Open, books
  <2>3. QED
    BY <2>1, <2>2
<1>3. QED
  BY <1>1, <1>2, InitType, NextType, NextGuards, PTL DEF Spec, EvidenceStopsAdmission
-----------------------------------------------------------------------------
(* The sums over the groups of one pool and epoch                          *)

\* A group that has not ended consumed nothing and exceeded nothing.
LEMMA AmountTypes ==
  ASSUME TypeOK, NEW S, S \subseteq DOMAIN res
  PROVE  /\ IsFiniteSet(S)
         /\ \A i \in S : /\ LiabilityOf[i] \in Nat /\ ConsumptionOf[i] \in Nat /\ Excess[i] \in Nat
                         /\ i \in ActiveIds => ConsumptionOf[i] = 0 /\ Excess[i] = 0
<1>1. ASSUME NEW i \in S
      PROVE  /\ ConsumptionOf[i] \in Nat /\ Excess[i] \in Nat
             /\ i \in ActiveIds => ConsumptionOf[i] = 0 /\ Excess[i] = 0
  <2>1. res[i].settled \in Nat /\ res[i].liability \in Nat
    BY <1>1 DEF TypeOK, Group
  <2>2. BiggerOf(res[i].settled - res[i].liability, 0) \in Nat
    BY <2>1 DEF BiggerOf
  <2>3. ConsumptionOf[i] \in Nat /\ Excess[i] \in Nat
    BY <1>1, <2>1, <2>2 DEF ConsumptionOf, Excess
  <2>4. i \in ActiveIds => ConsumptionOf[i] = 0 /\ Excess[i] = 0
    BY <1>1 DEF ConsumptionOf, Excess, ActiveIds, Active, PossiblySent
  <2>5. QED
    BY <2>3, <2>4
<1>2. QED
  BY <1>1, GroupsFinite

LEMMA SetsOfGroups ==
  ASSUME NEW p, NEW e
  PROVE  Live(p, e) \subseteq RowsAt(p, e) /\ RowsAt(p, e) \subseteq DOMAIN res
BY DEF Live, RowsAt

\* A step after which no group has moved between pools, epochs and the live
\* ones, and no amount has changed, leaves every sum alone.
LEMMA SumsKept ==
  ASSUME NEW p, NEW e, DOMAIN res' = DOMAIN res,
         \A i \in DOMAIN res :
            /\ res'[i].model = res[i].model /\ res'[i].liability = res[i].liability
            /\ res'[i].rows = res[i].rows /\ res'[i].settled = res[i].settled
            /\ res'[i].state \in Active <=> res[i].state \in Active
            /\ res'[i].state = res[i].state \/ res[i].state \in Active
  PROVE  /\ Live(p, e)' = Live(p, e) /\ RowsAt(p, e)' = RowsAt(p, e)
         /\ LiabilityOf' = LiabilityOf /\ ConsumptionOf' = ConsumptionOf /\ Excess' = Excess
<1>1. RowsAt(p, e)' = RowsAt(p, e)
  BY DEF RowsAt, PoolFor
<1>2. ActiveIds' = ActiveIds
  BY DEF ActiveIds
<1>3. LiabilityOf' = LiabilityOf
  BY DEF LiabilityOf
<1>4. \A i \in DOMAIN res : /\ res'[i].state = "SETTLED" <=> res[i].state = "SETTLED"
                            /\ res'[i].state = "CONSUMED_UNRECOVERABLE" <=> res[i].state = "CONSUMED_UNRECOVERABLE"
  BY DEF Active, PossiblySent
<1>5. ConsumptionOf' = ConsumptionOf /\ Excess' = Excess
  BY <1>4 DEF ConsumptionOf, Excess
<1>6. QED
  BY <1>1, <1>2, <1>3, <1>5 DEF Live

-----------------------------------------------------------------------------
(* The books, action by action                                            *)

\* The counters and sums of one pool and epoch are numbers.
LEMMA CellTypes ==
  ASSUME TypeOK, NEW p \in Pool, NEW e \in Epoch
  PROVE  /\ reserved[p][e] \in Nat /\ consumed[p][e] \in Nat /\ lifted[p][e] \in Nat
         /\ Grant[p] \in Nat
         /\ Total(Live(p, e), LiabilityOf) \in Nat
         /\ Total(RowsAt(p, e), ConsumptionOf) \in Nat
         /\ Total(RowsAt(p, e), Excess) \in Nat
<1>1. reserved[p][e] \in Nat /\ consumed[p][e] \in Nat /\ lifted[p][e] \in Nat /\ Grant[p] \in Nat
  BY LedgerAssumption DEF TypeOK, LedgerAssumption
<1>2. Live(p, e) \subseteq DOMAIN res /\ RowsAt(p, e) \subseteq DOMAIN res
  BY SetsOfGroups
<1>3. /\ Total(Live(p, e), LiabilityOf) \in Nat
      /\ Total(RowsAt(p, e), ConsumptionOf) \in Nat
      /\ Total(RowsAt(p, e), Excess) \in Nat
  BY <1>2, AmountTypes, TokensFinite
<1>4. QED
  BY <1>1, <1>3

\* A step that touches neither the counters nor the sums keeps MoneyInv.
LEMMA MoneyKept ==
  ASSUME MoneyInv, UNCHANGED <<opened, consumed, reserved, lifted>>,
         DOMAIN res' = DOMAIN res,
         \A i \in DOMAIN res :
            /\ res'[i].model = res[i].model /\ res'[i].liability = res[i].liability
            /\ res'[i].rows = res[i].rows /\ res'[i].settled = res[i].settled
            /\ res'[i].state \in Active <=> res[i].state \in Active
            /\ res'[i].state = res[i].state \/ res[i].state \in Active
  PROVE  MoneyInv'
<1>1. \A p, e : /\ Live(p, e)' = Live(p, e) /\ RowsAt(p, e)' = RowsAt(p, e)
                /\ LiabilityOf' = LiabilityOf /\ ConsumptionOf' = ConsumptionOf /\ Excess' = Excess
  BY SumsKept
<1>2. BooksBalance'
  BY <1>1 DEF MoneyInv, BooksBalance, ReservedTokens, Live
<1>3. ReservedFits' /\ GrantHeld'
  BY <1>1 DEF MoneyInv, ReservedFits, GrantHeld
<1>4. QED
  BY <1>2, <1>3 DEF MoneyInv

\* A terminal transition moves the liability of one live group out of
\* `reserved`, and what the group used into `consumed`.
LEMMA FinishMoney ==
  ASSUME TypeInv, MoneyInv, NEW i \in ActiveIds, NEW target \in State \ Active,
         NEW amount \in Nat, NEW settled \in Nat, Finish(i, target, amount, settled),
         lifted' = lifted,
         target = "SETTLED" => amount = settled,
         target = "CONSUMED_UNRECOVERABLE" => amount = res[i].liability,
         target \notin {"SETTLED", "CONSUMED_UNRECOVERABLE"} => amount = 0
  PROVE  MoneyInv'
<1>1. i \in DOMAIN res /\ res[i].liability \in Nat /\ res[i].rows \subseteq Epoch
  BY DEF ActiveIds, TypeInv, TypeOK, Group
<1>2. res' = [res EXCEPT ![i].state = target, ![i].settled = settled] /\ opened' = opened
  BY DEF Finish
<1>3. /\ DOMAIN res' = DOMAIN res
      /\ \A j \in DOMAIN res : /\ res'[j].model = res[j].model /\ res'[j].rows = res[j].rows
                               /\ res'[j].liability = res[j].liability
      /\ \A j \in DOMAIN res \ {i} : res'[j] = res[j]
      /\ res'[i].state = target /\ res'[i].settled = settled
  BY <1>1, <1>2 DEF TypeInv, TypeOK, Group
<1>4. /\ LiabilityOf' = LiabilityOf
      /\ \A j \in DOMAIN res \ {i} : ConsumptionOf'[j] = ConsumptionOf[j] /\ Excess'[j] = Excess[j]
  BY <1>3 DEF LiabilityOf, ConsumptionOf, Excess
<1>5. ConsumptionOf'[i] = amount
  BY <1>1, <1>3 DEF ConsumptionOf
<1>6. Excess'[i] \in Nat /\ amount <= res[i].liability + Excess'[i]
  <2>1. Excess'[i] = IF target = "SETTLED" THEN BiggerOf(settled - res[i].liability, 0) ELSE 0
    BY <1>1, <1>3 DEF Excess
  <2>2. QED
    BY <1>1, <2>1 DEF BiggerOf
<1>7. ASSUME NEW p \in Pool, NEW e \in Epoch
      PROVE  /\ reserved'[p][e] = Total(Live(p, e)', LiabilityOf')
             /\ consumed'[p][e] = lifted'[p][e] + Total(RowsAt(p, e)', ConsumptionOf')
             /\ reserved'[p][e] <= Grant[p]
             /\ e \in opened' => consumed'[p][e] + reserved'[p][e]
                                   <= Grant[p] + lifted'[p][e] + Total(RowsAt(p, e)', Excess')
  <2> DEFINE A == RowsAt(p, e)
             R == Live(p, e)
  <2>1. A' = A /\ R' = R \ {i}
    <3>1. A' = A
      BY <1>3 DEF RowsAt, PoolFor
    <3>2. ActiveIds' = ActiveIds \ {i}
      BY <1>3 DEF ActiveIds
    <3>3. QED
      BY <3>1, <3>2 DEF Live
  <2>2. /\ reserved[p][e] = Total(R, LiabilityOf)
        /\ consumed[p][e] = lifted[p][e] + Total(A, ConsumptionOf)
        /\ reserved[p][e] <= Grant[p]
        /\ e \in opened => consumed[p][e] + reserved[p][e] <= Grant[p] + lifted[p][e] + Total(A, Excess)
    BY DEF MoneyInv, BooksBalance, ReservedFits, GrantHeld, ReservedTokens, Live
  <2>3. /\ reserved[p][e] \in Nat /\ consumed[p][e] \in Nat /\ lifted[p][e] \in Nat
        /\ Grant[p] \in Nat
        /\ Total(A, ConsumptionOf) \in Nat /\ Total(A, Excess) \in Nat
    BY CellTypes DEF TypeInv
  <2>4. /\ reserved'[p][e] = IF p = PoolFor(i) /\ e \in res[i].rows
                             THEN reserved[p][e] + (0 - res[i].liability) ELSE reserved[p][e]
        /\ consumed'[p][e] = IF p = PoolFor(i) /\ e \in res[i].rows
                             THEN consumed[p][e] + amount ELSE consumed[p][e]
    BY DEF Finish, Adjust
  <2>5. R \subseteq A /\ A \subseteq DOMAIN res
    BY SetsOfGroups
  <2>6. /\ IsFiniteSet(A) /\ IsFiniteSet(R)
        /\ \A j \in A : LiabilityOf[j] \in Nat /\ ConsumptionOf[j] \in Nat /\ Excess[j] \in Nat
        /\ i \in A => ConsumptionOf[i] = 0 /\ Excess[i] = 0
    BY <2>5, AmountTypes, FS_Subset DEF TypeInv
  <2>7. i \in A <=> p = PoolFor(i) /\ e \in res[i].rows
    BY <1>1 DEF RowsAt
  <2>8. \A j \in A : /\ ConsumptionOf'[j] \in Nat /\ Excess'[j] \in Nat
                     /\ j # i => ConsumptionOf'[j] = ConsumptionOf[j] /\ Excess'[j] = Excess[j]
    BY <1>4, <1>5, <1>6, <2>5, <2>6
  <2>9. CASE i \in A
    <3>1. i \in R
      BY <2>9 DEF Live
    <3>2. Total(R, LiabilityOf) = res[i].liability + Total(R \ {i}, LiabilityOf)
          /\ Total(R \ {i}, LiabilityOf) \in Nat
      <4>1. LiabilityOf[i] = res[i].liability
        BY <1>1 DEF LiabilityOf
      <4>2. \A j \in R : LiabilityOf[j] \in Nat
        BY <2>5, <2>6
      <4>3. QED
        BY <2>6, <3>1, <4>1, <4>2, TotalRemove
    <3>3. Total(A, ConsumptionOf') + 0 = Total(A, ConsumptionOf) + amount
          /\ Total(A, ConsumptionOf') \in Nat
      BY <1>5, <2>6, <2>8, <2>9, TotalUpdate
    <3>4. Total(A, Excess') + 0 = Total(A, Excess) + Excess'[i] /\ Total(A, Excess') \in Nat
      BY <2>6, <2>8, <2>9, TotalUpdate
    <3>5. /\ reserved'[p][e] = reserved[p][e] - res[i].liability
          /\ consumed'[p][e] = consumed[p][e] + amount
      BY <1>1, <2>3, <2>4, <2>7, <2>9
    <3>6. /\ Total(R', LiabilityOf') = Total(R \ {i}, LiabilityOf)
          /\ Total(A', ConsumptionOf') = Total(A, ConsumptionOf')
          /\ Total(A', Excess') = Total(A, Excess')
          /\ lifted'[p][e] = lifted[p][e]
      BY <1>4, <2>1
    <3>7. QED
      BY <1>1, <1>2, <1>6, <2>2, <2>3, <3>2, <3>3, <3>4, <3>5, <3>6
  <2>10. CASE i \notin A
    <3>1. R \ {i} = R
      BY <2>5, <2>10
    <3>2. Total(A, ConsumptionOf') = Total(A, ConsumptionOf) /\ Total(A, Excess') = Total(A, Excess)
      BY <2>8, <2>10, TotalSame
    <3>3. reserved'[p][e] = reserved[p][e] /\ consumed'[p][e] = consumed[p][e]
      BY <2>4, <2>7, <2>10
    <3>4. /\ Total(R', LiabilityOf') = Total(R, LiabilityOf)
          /\ Total(A', ConsumptionOf') = Total(A, ConsumptionOf)
          /\ Total(A', Excess') = Total(A, Excess)
      BY <1>4, <2>1, <3>1, <3>2
    <3>5. QED
      BY <1>2, <2>2, <3>3, <3>4
  <2>11. QED
    BY <2>9, <2>10
<1>8. BooksBalance'
  BY <1>7 DEF BooksBalance, ReservedTokens, Live
<1>9. ReservedFits' /\ GrantHeld'
  <2>1. opened' \subseteq Epoch
    BY <1>2 DEF TypeInv, TypeOK
  <2>2. QED
    BY <1>7, <2>1 DEF ReservedFits, GrantHeld
<1>10. QED
  BY <1>8, <1>9 DEF MoneyInv

\* What MoneyInv says of one pool and epoch, after a step.
MoneyCell(p, e) ==
  /\ reserved[p][e] = Total(Live(p, e), LiabilityOf)
  /\ consumed[p][e] = lifted[p][e] + Total(RowsAt(p, e), ConsumptionOf)
  /\ reserved[p][e] <= Grant[p]
  /\ e \in opened => consumed[p][e] + reserved[p][e]
                       <= Grant[p] + lifted[p][e] + Total(RowsAt(p, e), Excess)

LEMMA MoneyByCell ==
  ASSUME TypeInv
  PROVE  MoneyInv <=> \A p \in Pool, e \in Epoch : MoneyCell(p, e)
BY DEF MoneyInv, BooksBalance, ReservedFits, GrantHeld, ReservedTokens, Live, MoneyCell,
       TypeInv, TypeOK

\* The same, of the state after a step.
LEMMA MoneyByCellNext ==
  ASSUME TypeInv', \A p \in Pool, e \in Epoch : MoneyCell(p, e)'
  PROVE  MoneyInv'
BY DEF MoneyInv, BooksBalance, ReservedFits, GrantHeld, ReservedTokens, Live, MoneyCell,
       TypeInv, TypeOK

\* compare-and-reserve: the headroom it checks is exactly what GrantHeld needs.
LEMMA ReserveMoney ==
  ASSUME TypeInv, TypeInv', MoneyInv,
         NEW id \in Id, NEW m \in Model, NEW l \in Liabilities, Reserve(id, m, l)
  PROVE  MoneyInv'
<1>1. l \in Nat /\ PoolOf[m] \in Pool /\ epoch \in Epoch /\ epoch \in opened
  BY LedgerAssumption DEF LedgerAssumption, TypeInv, TypeOK, Reserve
<1>2. /\ id \notin DOMAIN res /\ DOMAIN res' = DOMAIN res \cup {id}
      /\ \A j \in DOMAIN res : res'[j] = res[j]
      /\ res'[id] = [state |-> "RESERVED", model |-> m, liability |-> l,
                     rows |-> {epoch}, settled |-> 0]
      /\ UNCHANGED <<opened, consumed, lifted>>
      /\ Headroom(PoolOf[m]) >= l
  BY DEF Reserve, Id
<1>3. /\ \A j \in DOMAIN res : /\ LiabilityOf'[j] = LiabilityOf[j]
                               /\ ConsumptionOf'[j] = ConsumptionOf[j]
                               /\ Excess'[j] = Excess[j]
      /\ LiabilityOf'[id] = l /\ ConsumptionOf'[id] = 0 /\ Excess'[id] = 0
  BY <1>2 DEF LiabilityOf, ConsumptionOf, Excess
<1>4. ASSUME NEW p \in Pool, NEW e \in Epoch
      PROVE  MoneyCell(p, e)'
  <2> DEFINE A == RowsAt(p, e)
             R == Live(p, e)
             N == IF p = PoolOf[m] /\ e = epoch THEN {id} ELSE {}
  <2>1. A' = A \cup N /\ R' = R \cup N
    <3>1. A' = A \cup N
      BY <1>2 DEF RowsAt, PoolFor
    <3>2. ActiveIds' = ActiveIds \cup {id}
      BY <1>2 DEF ActiveIds, Active
    <3>3. id \notin A
      BY <1>2 DEF RowsAt
    <3>4. QED
      BY <3>1, <3>2, <3>3, <1>2 DEF Live, ActiveIds
  <2>2. MoneyCell(p, e)
    BY MoneyByCell
  <2>3. /\ reserved[p][e] \in Nat /\ consumed[p][e] \in Nat /\ lifted[p][e] \in Nat
        /\ Grant[p] \in Nat
        /\ Total(R, LiabilityOf) \in Nat
        /\ Total(A, ConsumptionOf) \in Nat /\ Total(A, Excess) \in Nat
    BY CellTypes DEF TypeInv
  <2>4. R \subseteq A /\ A \subseteq DOMAIN res
    BY SetsOfGroups
  <2>5. /\ IsFiniteSet(A) /\ IsFiniteSet(R) /\ IsFiniteSet(N)
        /\ A \cap N = {} /\ R \cap N = {}
        /\ \A j \in A : LiabilityOf[j] \in Nat /\ ConsumptionOf[j] \in Nat /\ Excess[j] \in Nat
    BY <1>2, <2>4, AmountTypes, FS_Subset, FS_Singleton, FS_EmptySet DEF TypeInv
  <2>6. /\ Total(R', LiabilityOf') = Total(R, LiabilityOf) + Total(N, LiabilityOf')
        /\ Total(A', ConsumptionOf') = Total(A, ConsumptionOf) + Total(N, ConsumptionOf')
        /\ Total(A', Excess') = Total(A, Excess) + Total(N, Excess')
    <3>1. /\ \A j \in R : LiabilityOf[j] \in Nat /\ LiabilityOf'[j] = LiabilityOf[j]
          /\ \A j \in A : ConsumptionOf[j] \in Nat /\ ConsumptionOf'[j] = ConsumptionOf[j]
          /\ \A j \in A : Excess[j] \in Nat /\ Excess'[j] = Excess[j]
          /\ \A j \in N : LiabilityOf'[j] \in Nat /\ ConsumptionOf'[j] \in Nat /\ Excess'[j] \in Nat
      BY <1>1, <1>3, <2>4, <2>5
    <3>2. Total(R \cup N, LiabilityOf') = Total(R, LiabilityOf) + Total(N, LiabilityOf')
      BY <2>5, <3>1, TotalGrow
    <3>3. Total(A \cup N, ConsumptionOf') = Total(A, ConsumptionOf) + Total(N, ConsumptionOf')
      BY <2>5, <3>1, TotalGrow
    <3>4. Total(A \cup N, Excess') = Total(A, Excess) + Total(N, Excess')
      BY <2>5, <3>1, TotalGrow
    <3>5. QED
      BY <2>1, <3>2, <3>3, <3>4
  <2>7. Total(N, ConsumptionOf') = 0 /\ Total(N, Excess') = 0
    BY <1>3, TotalZero
  <2>8. reserved'[p][e] = IF p = PoolOf[m] /\ e \in {epoch} THEN reserved[p][e] + l ELSE reserved[p][e]
    BY DEF Reserve, Adjust
  <2>9. consumed'[p][e] = consumed[p][e] /\ lifted'[p][e] = lifted[p][e] /\ opened' = opened
    BY <1>2
  <2>10. CASE p = PoolOf[m] /\ e = epoch
    <3>1. Total(N, LiabilityOf') = l
      BY <1>1, <1>3, <2>10, TotalOne
    <3>2. reserved'[p][e] = reserved[p][e] + l
      BY <2>8, <2>10
    <3>3. Grant[p] - consumed[p][e] - reserved[p][e] >= l
      BY <1>2, <2>10 DEF Headroom
    <3>4. QED
      BY <1>1, <2>2, <2>3, <2>6, <2>7, <2>9, <3>1, <3>2, <3>3 DEF MoneyCell
  <2>11. CASE ~ (p = PoolOf[m] /\ e = epoch)
    <3>1. Total(N, LiabilityOf') = 0
      BY <2>11, TotalEmpty
    <3>2. reserved'[p][e] = reserved[p][e]
      BY <2>8, <2>11
    <3>3. QED
      BY <2>2, <2>3, <2>6, <2>7, <2>9, <3>1, <3>2 DEF MoneyCell
  <2>12. QED
    BY <2>10, <2>11
<1>5. QED
  BY <1>4, MoneyByCellNext

\* Rollover: the new epoch holds exactly the live requests of the old one, so
\* it reserves what the old one reserves, which fits the grant.
LEMMA RolloverMoney ==
  ASSUME TypeInv, TypeInv', ForwardInv, MoneyInv, NEW f \in Epoch, Rollover(f)
  PROVE  MoneyInv'
<1>1. /\ f > epoch /\ opened' = opened \cup {f}
      /\ UNCHANGED <<consumed, lifted>>
      /\ reserved' = [p \in Pool |-> [reserved[p] EXCEPT ![f] = @ + RaisedBy(p, f)]]
  BY DEF Rollover, history
<1>2. f \notin opened
  <2>1. f \in Int /\ epoch \in Int
    BY DEF TypeInv, TypeOK, Epoch
  <2>2. QED
    BY <1>1, <2>1 DEF ForwardInv, OpenedInOrder
<1>3. \A i \in DOMAIN res : f \notin res[i].rows
  BY <1>2 DEF TypeInv, RowsOpened
<1>4. Carry(f) = ActiveIds
  BY <1>3 DEF Carry, ActiveIds
<1>5. /\ DOMAIN res' = DOMAIN res
      /\ \A i \in DOMAIN res : /\ res'[i].state = res[i].state /\ res'[i].model = res[i].model
                               /\ res'[i].liability = res[i].liability
                               /\ res'[i].settled = res[i].settled
                               /\ res'[i].rows = IF i \in ActiveIds THEN res[i].rows \cup {f} ELSE res[i].rows
  BY <1>4 DEF Rollover, TypeInv, TypeOK, Group
<1>6. /\ LiabilityOf' = LiabilityOf /\ ConsumptionOf' = ConsumptionOf /\ Excess' = Excess
      /\ ActiveIds' = ActiveIds
  BY <1>5 DEF LiabilityOf, ConsumptionOf, Excess, ActiveIds
<1>7. ASSUME NEW p \in Pool, NEW e \in Epoch, e # f
      PROVE  MoneyCell(p, e)'
  <2>1. RowsAt(p, e)' = RowsAt(p, e) /\ Live(p, e)' = Live(p, e)
    <3>1. \A i \in DOMAIN res : e \in res'[i].rows <=> e \in res[i].rows
      BY <1>5, <1>7
    <3>2. RowsAt(p, e)' = RowsAt(p, e)
      BY <1>5, <3>1 DEF RowsAt, PoolFor
    <3>3. QED
      BY <1>6, <3>2 DEF Live
  <2>2. reserved'[p][e] = reserved[p][e]
    BY <1>1, <1>7 DEF TypeInv, TypeOK
  <2>3. MoneyCell(p, e)
    BY <1>7, MoneyByCell
  <2>4. e \in opened' => e \in opened
    BY <1>1, <1>7
  <2>5. QED
    BY <1>1, <1>6, <2>1, <2>2, <2>3, <2>4 DEF MoneyCell
<1>8. ASSUME NEW p \in Pool
      PROVE  MoneyCell(p, f)'
  <2> DEFINE C == {i \in ActiveIds : PoolFor(i) = p}
  <2>1. RowsAt(p, f) = {} /\ Live(p, f) = {}
    BY <1>3 DEF RowsAt, Live
  <2>2. RowsAt(p, f)' = C /\ Live(p, f)' = C
    <3>1. \A i \in DOMAIN res : f \in res'[i].rows <=> i \in ActiveIds
      BY <1>3, <1>5
    <3>2. RowsAt(p, f)' = C
      <4>1. ActiveIds \subseteq DOMAIN res
        BY DEF ActiveIds
      <4>2. \A i \in DOMAIN res : PoolFor(i)' = PoolFor(i)
        BY <1>5 DEF PoolFor
      <4>3. RowsAt(p, f)' = {i \in DOMAIN res : PoolFor(i) = p /\ i \in ActiveIds}
        BY <1>5, <3>1, <4>2 DEF RowsAt
      <4>4. QED
        BY <4>1, <4>3
    <3>3. QED
      BY <1>6, <3>2 DEF Live
  <2>3. reserved[p][f] = 0 /\ consumed[p][f] = lifted[p][f]
    <3>1. MoneyCell(p, f) /\ lifted[p][f] \in Nat
      BY MoneyByCell, CellTypes DEF TypeInv
    <3>2. QED
      BY <2>1, <3>1, TotalEmpty DEF MoneyCell
  <2>4. C = Live(p, epoch)
    BY DEF ForwardInv, CarriedForward, Live, RowsAt, ActiveIds
  <2>5. epoch \in Epoch
    BY DEF TypeInv, TypeOK
  <2>6. Total(C, LiabilityOf) = reserved[p][epoch] /\ reserved[p][epoch] <= Grant[p]
        /\ reserved[p][epoch] \in Nat
    <3>1. MoneyCell(p, epoch)
      BY <2>5, MoneyByCell
    <3>2. QED
      BY <2>4, <2>5, <3>1, CellTypes DEF MoneyCell, TypeInv
  <2>7. RaisedBy(p, f) = Total(C, LiabilityOf)
    BY <1>4 DEF RaisedBy
  <2>8. reserved'[p][f] = Total(C, LiabilityOf)
    <3>1. reserved'[p][f] = reserved[p][f] + RaisedBy(p, f)
      BY <1>1 DEF TypeInv, TypeOK
    <3>2. QED
      BY <2>3, <2>6, <2>7, <3>1
  <2>9. Total(C, ConsumptionOf) = 0 /\ Total(C, Excess) = 0
    <3>1. C \subseteq DOMAIN res
      BY DEF ActiveIds
    <3>2. \A i \in C : ConsumptionOf[i] = 0 /\ Excess[i] = 0
      BY <3>1, AmountTypes DEF TypeInv
    <3>3. QED
      BY <3>2, TotalZero
  <2>10. lifted[p][f] \in Nat /\ Grant[p] \in Nat
    BY CellTypes DEF TypeInv
  <2>11. QED
    BY <1>1, <1>6, <2>2, <2>3, <2>6, <2>8, <2>9, <2>10 DEF MoneyCell
<1>9. QED
  BY <1>7, <1>8, MoneyByCellNext

\* Recovery raises `consumed` and the history of what it raised alike.
LEMMA AdoptMoney ==
  ASSUME TypeInv, TypeInv', MoneyInv,
         NEW f \in Epoch, NEW report \in [Pool -> Reports], AdoptCommit(f, report)
  PROVE  MoneyInv'
<1> DEFINE rise == [p \in Pool |-> BiggerOf(report[p] - consumed[p][f], 0)]
<1>1. /\ UNCHANGED <<res, opened, reserved>>
      /\ consumed' = [p \in Pool |-> [consumed[p] EXCEPT ![f] = @ + rise[p]]]
      /\ lifted' = [p \in Pool |-> [lifted[p] EXCEPT ![f] = @ + rise[p]]]
  BY DEF AdoptCommit
<1>2. \A p \in Pool : rise[p] \in Int
  <2>1. ASSUME NEW p \in Pool PROVE report[p] \in Nat /\ consumed[p][f] \in Nat
    BY <2>1, LedgerAssumption DEF LedgerAssumption, TypeInv, TypeOK
  <2>2. QED
    BY <2>1 DEF BiggerOf
<1> HIDE DEF rise
<1>3. ASSUME NEW p \in Pool, NEW e \in Epoch
      PROVE  MoneyCell(p, e)'
  <2>1. RowsAt(p, e)' = RowsAt(p, e) /\ Live(p, e)' = Live(p, e)
        /\ LiabilityOf' = LiabilityOf /\ ConsumptionOf' = ConsumptionOf /\ Excess' = Excess
    BY <1>1 DEF RowsAt, PoolFor, Live, ActiveIds, LiabilityOf, ConsumptionOf, Excess
  <2>2. MoneyCell(p, e)
    BY MoneyByCell
  <2>3. /\ consumed[p][e] \in Nat /\ lifted[p][e] \in Nat /\ reserved[p][e] \in Nat
        /\ Grant[p] \in Nat
        /\ Total(RowsAt(p, e), ConsumptionOf) \in Nat /\ Total(RowsAt(p, e), Excess) \in Nat
    BY CellTypes DEF TypeInv
  <2>4. PICK d \in Int : consumed'[p][e] = consumed[p][e] + d /\ lifted'[p][e] = lifted[p][e] + d
    <3>1. CASE e = f
      BY <1>1, <1>2, <3>1 DEF TypeInv, TypeOK
    <3>2. CASE e # f
      <4>1. consumed'[p][e] = consumed[p][e] + 0 /\ lifted'[p][e] = lifted[p][e] + 0
        BY <1>1, <2>3, <3>2 DEF TypeInv, TypeOK
      <4>2. QED
        BY <4>1
    <3>3. QED
      BY <3>1, <3>2
  <2>5. QED
    BY <1>1, <2>1, <2>2, <2>3, <2>4 DEF MoneyCell
<1>4. QED
  BY <1>3, MoneyByCellNext

\* A restart gives back exactly the rows it releases.
LEMMA OpenMoney ==
  ASSUME TypeInv, TypeInv', MoneyInv, Open
  PROVE  MoneyInv'
<1>1. /\ UNCHANGED <<opened, consumed, lifted>>
      /\ reserved' = [p \in Pool |-> [e \in Epoch |-> reserved[p][e] - Refund(p, e)]]
  BY DEF Open, history
<1>2. Unsent \subseteq ActiveIds
  BY DEF Unsent, InState, ActiveIds, Active
<1>3. /\ DOMAIN res' = DOMAIN res
      /\ \A i \in DOMAIN res : /\ res'[i].model = res[i].model
                               /\ res'[i].liability = res[i].liability
                               /\ res'[i].settled = res[i].settled
                               /\ res'[i].rows = res[i].rows
                               /\ \/ i \in Unsent /\ res'[i].state = "RELEASED_UNSENT"
                                  \/ i \in ActiveIds \ Unsent /\ res'[i].state = "DISPATCHED_ID_UNKNOWN"
                                  \/ i \notin Unsent /\ res'[i].state = res[i].state
  BY DEF Open, TypeInv, TypeOK, Group, InState, ActiveIds, Active, PossiblySent
<1>4. /\ LiabilityOf' = LiabilityOf /\ ConsumptionOf' = ConsumptionOf /\ Excess' = Excess
      /\ ActiveIds' = ActiveIds \ Unsent
  <2>1. \A i \in DOMAIN res :
          /\ (res'[i].state = "SETTLED") = (res[i].state = "SETTLED")
          /\ (res'[i].state = "CONSUMED_UNRECOVERABLE") = (res[i].state = "CONSUMED_UNRECOVERABLE")
    BY <1>2, <1>3 DEF ActiveIds, Active, PossiblySent
  <2>2. LiabilityOf' = LiabilityOf
    BY <1>3 DEF LiabilityOf
  <2>3. ConsumptionOf' = ConsumptionOf /\ Excess' = Excess
    BY <1>3, <2>1 DEF ConsumptionOf, Excess
  <2>4. ActiveIds' = ActiveIds \ Unsent
    BY <1>2, <1>3 DEF ActiveIds, Active, PossiblySent
  <2>5. QED
    BY <2>2, <2>3, <2>4
<1>5. ASSUME NEW p \in Pool, NEW e \in Epoch
      PROVE  MoneyCell(p, e)'
  <2> DEFINE A == RowsAt(p, e)
             R == Live(p, e)
             U == A \cap Unsent
  <2>1. A' = A /\ R' = R \ U /\ U \subseteq R
    <3>1. A' = A
      BY <1>3 DEF RowsAt, PoolFor
    <3>2. QED
      BY <1>2, <1>4, <3>1 DEF Live
  <2>2. MoneyCell(p, e)
    BY MoneyByCell
  <2>3. /\ reserved[p][e] \in Nat /\ consumed[p][e] \in Nat /\ lifted[p][e] \in Nat
        /\ Grant[p] \in Nat /\ Total(A, Excess) \in Nat
    BY CellTypes DEF TypeInv
  <2>4. IsFiniteSet(R) /\ \A i \in R : LiabilityOf[i] \in Nat
    BY SetsOfGroups, AmountTypes DEF TypeInv
  <2>5. /\ Total(R, LiabilityOf) = Total(U, LiabilityOf) + Total(R \ U, LiabilityOf)
        /\ Total(U, LiabilityOf) \in Nat /\ Total(R \ U, LiabilityOf) \in Nat
    <3>1. Total(R, LiabilityOf) = Total(U, LiabilityOf) + Total(R \ U, LiabilityOf)
          /\ Total(U, LiabilityOf) \in Nat
      BY <2>1, <2>4, TotalSplit
    <3>2. IsFiniteSet(R \ U)
      BY <2>4, FS_Subset
    <3>3. Total(R \ U, LiabilityOf) \in Nat
      BY <2>4, <3>2, TokensFinite
    <3>4. QED
      BY <3>1, <3>3
  <2>6. reserved'[p][e] = reserved[p][e] - Total(U, LiabilityOf)
    BY <1>1 DEF Refund
  <2>7. /\ Total(R', LiabilityOf') = Total(R \ U, LiabilityOf)
        /\ Total(A', ConsumptionOf') = Total(A, ConsumptionOf)
        /\ Total(A', Excess') = Total(A, Excess)
    BY <1>4, <2>1
  <2>8. QED
    BY <1>1, <2>2, <2>3, <2>5, <2>6, <2>7 DEF MoneyCell
<1>6. QED
  BY <1>5, MoneyByCellNext

LEMMA NextMoney ==
  TypeInv /\ TypeInv' /\ ForwardInv /\ MoneyInv /\ [Next]_vars => MoneyInv'
<1> SUFFICES ASSUME TypeInv, TypeInv', ForwardInv, MoneyInv, [Next]_vars PROVE MoneyInv'
  OBVIOUS
<1>1. ASSUME UNCHANGED <<res, opened, consumed, reserved, lifted>>
      PROVE  MoneyInv'
  BY <1>1, MoneyKept
<1>2. ASSUME NEW S, NEW s \in PossiblySent, S \subseteq ActiveIds, res' = Relabel(S, s),
             UNCHANGED <<opened, consumed, reserved, lifted>>
      PROVE  MoneyInv'
  <2>1. DOMAIN res' = DOMAIN res /\ \A i \in DOMAIN res :
          /\ res'[i].model = res[i].model /\ res'[i].liability = res[i].liability
          /\ res'[i].rows = res[i].rows /\ res'[i].settled = res[i].settled
          /\ res'[i].state = IF i \in S THEN s ELSE res[i].state
    BY <1>2 DEF Relabel, TypeInv, TypeOK, Group
  <2>2. \A i \in DOMAIN res :
          /\ res'[i].state \in Active <=> res[i].state \in Active
          /\ res'[i].state = res[i].state \/ res[i].state \in Active
    BY <1>2, <2>1 DEF ActiveIds, Active
  <2>3. QED
    BY <1>2, <2>1, <2>2, MoneyKept
<1>3. ASSUME NEW i \in DOMAIN res,
             BeginDispatch(i) \/ Send(i) \/ AttachResponseId(i) \/ MarkIdUnknown(i)
      PROVE  MoneyInv'
  <2>1. CASE BeginDispatch(i) \/ Send(i)
    BY <1>1, <2>1 DEF BeginDispatch, Send, books, history
  <2>2. ASSUME NEW s \in PossiblySent, Rename(i, s)
        PROVE  MoneyInv'
    <3>1. {i} \subseteq ActiveIds
      BY <2>2 DEF Rename, InState, ActiveIds, Active, PossiblySent
    <3>2. QED
      BY <1>2, <2>2, <3>1 DEF Rename, history
  <2>3. QED
    BY <1>3, <2>1, <2>2 DEF AttachResponseId, MarkIdUnknown, PossiblySent
<1>4. CASE CommitDispatch
  <2>1. {pending.id} \subseteq ActiveIds /\ "DISPATCHING" \in PossiblySent
    BY <1>4 DEF CommitDispatch, TypeInv, PendingOK, InState, ActiveIds, Active, PossiblySent
  <2>2. QED
    BY <1>2, <1>4, <2>1 DEF CommitDispatch, history
<1>5. ASSUME NEW i \in DOMAIN res,
             \/ \E actual \in Reports : Settle(i, actual)
             \/ SettleDefective(i) \/ WriteOff(i) \/ ReleaseUnsent(i) \/ ReleaseRejected(i)
      PROVE  MoneyInv'
  <2>1. lifted' = lifted
    BY <1>5 DEF Settle, SettleDefective, WriteOff, ReleaseUnsent, ReleaseRejected, history
  <2>2. res[i].liability \in Nat /\ Reports \subseteq Nat
    BY LedgerAssumption DEF TypeInv, TypeOK, Group, LedgerAssumption
  <2>3. i \in ActiveIds
    BY <1>5 DEF Settle, SettleDefective, Settleable, WriteOff, ReleaseUnsent, ReleaseRejected,
                InState, ActiveIds, Active, PossiblySent
  <2>4. {"SETTLED", "CONSUMED_UNRECOVERABLE", "REJECTED_BEFORE_PROCESSING", "RELEASED_UNSENT"}
          \subseteq State \ Active
    BY DEF State, Active, PossiblySent
  <2>5. \/ \E actual \in Nat : Finish(i, "SETTLED", actual, actual)
        \/ Finish(i, "CONSUMED_UNRECOVERABLE", res[i].liability, 0)
        \/ Finish(i, "RELEASED_UNSENT", 0, 0)
        \/ Finish(i, "REJECTED_BEFORE_PROCESSING", 0, 0)
    BY <1>5, <2>2 DEF Settle, SettleDefective, WriteOff, ReleaseUnsent, ReleaseRejected
  <2>6. QED
    BY <2>1, <2>2, <2>3, <2>4, <2>5, FinishMoney
<1>6. ASSUME \/ \E k \in Key : Revalidate(k) \/ Invalidate(k)
             \/ \E s \in ManualScopes : SetLatch(s)
             \/ \E s \in Scope : ClearLatches(s)
             \/ FailDispatch \/ AdoptAnchor \/ AdoptFail \/ MarkClean \/ Crash
             \/ UNCHANGED vars
      PROVE  UNCHANGED <<res, opened, consumed, reserved, lifted>>
  BY <1>6 DEF Revalidate, Invalidate, SetLatch, ClearLatches, FailDispatch, AdoptAnchor,
              AdoptFail, MarkClean, Crash, vars, books, history
<1>7. QED
  BY <1>1, <1>3, <1>4, <1>5, <1>6, ReserveMoney, RolloverMoney, AdoptMoney, OpenMoney
     DEF Next, Admission, Dispatch, Settlement, Lifecycle

LEMMA InitMoney == Init => MoneyInv
<1> SUFFICES ASSUME Init PROVE MoneyInv
  OBVIOUS
<1>1. TypeInv
  BY InitType
<1>2. ASSUME NEW p \in Pool, NEW e \in Epoch
      PROVE  MoneyCell(p, e)
  <2>1. Live(p, e) = {} /\ RowsAt(p, e) = {}
    BY DEF Init, Live, RowsAt
  <2>2. Grant[p] \in Nat
    BY LedgerAssumption DEF LedgerAssumption
  <2>3. reserved[p][e] = 0 /\ consumed[p][e] = 0 /\ lifted[p][e] = 0 /\ opened = {}
    BY DEF Init
  <2>4. QED
    BY <2>1, <2>2, <2>3, TotalEmpty DEF MoneyCell
<1>3. QED
  BY <1>1, <1>2, MoneyByCell

-----------------------------------------------------------------------------
(* The theorems                                                            *)

\* No token appears or evaporates: the counters of every pool and epoch are
\* what its rows, and what was adopted from usage reporting, add up to.
THEOREM BooksAlwaysBalance == Spec => []BooksBalance
<1>1. Init => ForwardInv
  BY DEF Init, ForwardInv, OpenedInOrder, CarriedForward, ActiveIds
<1>2. MoneyInv => BooksBalance
  BY DEF MoneyInv
<1>3. QED
  BY <1>1, <1>2, InitType, NextType, NextForward, InitMoney, NextMoney, PTL DEF Spec

\* The core invariant of the design, for every grant, catalog and number of
\* epochs: consumption and live liability stay within the grant, but for what
\* the provider reports beyond the liabilities.
THEOREM GrantAlwaysHeld == Spec => []GrantHeld
<1>1. Init => ForwardInv
  BY DEF Init, ForwardInv, OpenedInOrder, CarriedForward, ActiveIds
<1>2. MoneyInv => GrantHeld
  BY DEF MoneyInv
<1>3. QED
  BY <1>1, <1>2, InitType, NextType, NextForward, InitMoney, NextMoney, PTL DEF Spec

-----------------------------------------------------------------------------
(* The copy of the file keeps the books it was taken with                  *)

CopiedLedger == snap.of = "ledger"

\* The ledger as it would be after the copy is put back.
Saved == INSTANCE LedgerInvariants WITH
  res <- snap.copy.res, epoch <- snap.copy.epoch, opened <- snap.copy.opened,
  consumed <- snap.copy.consumed, reserved <- snap.copy.reserved,
  gen <- snap.copy.gen, cum <- snap.copy.cum, clean <- snap.copy.clean,
  remaining <- snap.copy.remaining, latches <- snap.copy.latches,
  lifted <- snap.copy.lifted,
  ext <- NoRecord, trust <- Down, pending <- Idle,
  sent <- {}, exposed <- [k \in Key |-> 0], evidence <- {}

CopyInv ==
  /\ CopiedLedger => Saved!TypeInv /\ Saved!ForwardInv /\ Saved!MoneyInv
  /\ snap.of = "external" => snap.copy \in HighWaterMark \cup {NoRecord, Unreadable}

-----------------------------------------------------------------------------
(* What two versions of the file have in common                            *)

\* Row i of the file `r' still holds the liability of request i.
HoldsIn(r, i) == i \in DOMAIN r /\ r[i].state \in Accounted

\* The record of the external volume is the one written for generation g and
\* cumulative liability c, or the one of the dispatch that was to follow.
Same(g, c) == ext.generation = g /\ ext.cumulative = c
Ahead(r, g, c) ==
  /\ ext.generation = g + 1
  /\ ext.last \in DOMAIN r
  /\ r[ext.last].state = "RESERVED"
  /\ r[ext.last].liability = ext.cumulative - c

\* A file the external record vouches for accounts for all that was sent, but
\* for the dispatch the record itself names.
Vouched(r, g, c) ==
  /\ Same(g, c) => \A i \in sent : HoldsIn(r, i)
  /\ Ahead(r, g, c) => \A i \in sent : HoldsIn(r, i) \/ i = ext.last

Copy == snap.copy

\* The file descends from its copy.
Descends ==
  /\ Copy.gen <= gen
  /\ Copy.gen = gen => Copy.cum = cum
  /\ DOMAIN Copy.res \subseteq DOMAIN res
  /\ \A i \in DOMAIN Copy.res :
       Copy.res[i].state = "RELEASED_UNSENT" => res[i].state = "RELEASED_UNSENT"

\* What is being dispatched now was so already when the copy was taken, unless
\* the generation has moved since; by one, and the record names it.
DispatchMoves ==
  \A i \in InState("DISPATCHING") :
    /\ Copy.gen = gen => HoldsIn(Copy.res, i)
    /\ Copy.gen + 1 = gen /\ ext.generation = gen => HoldsIn(Copy.res, i) \/ i = ext.last

\* While a trusted ledger is at the generation of the copy, nothing was sent
\* that the copy does not account for.
NothingSentSince ==
  trust = "Trusted" /\ Copy.gen = gen => \A i \in sent : HoldsIn(Copy.res, i)

NeverReleased == \A i \in sent \cap DOMAIN res : res[i].state # "RELEASED_UNSENT"

BehindCopy ==
  /\ trust \in {"Trusted", "UncleanShutdown"} => Held
  /\ NeverReleased
  /\ Vouched(res, gen, cum)
  /\ Vouched(Copy.res, Copy.gen, Copy.cum)
  /\ Descends
  /\ DispatchMoves
  /\ NothingSentSince

\* A ledger that is not trusted has nothing to dispatch.
NothingPrepared ==
  trust \notin {Down, "Trusted"} => InState("RESERVED") \cup InState("DISPATCHING") = {}

\* The record leads a trusted ledger, and the one adoption is about to take over.
RecordLeads ==
  /\ trust = "Trusted" => ext.generation >= gen
  /\ pending.op = "adopt" => ext.generation > gen

SentInv ==
  /\ NothingPrepared
  /\ RecordLeads
  /\ IF CopiedLedger THEN BehindCopy ELSE Held

-----------------------------------------------------------------------------
(* Taking and putting back a copy                                          *)

\* A sum is the same, whichever file it is taken over.
LEMMA SameTotals == \A S, f : Saved!Total(S, f) = Total(S, f)
<1>1. \A S, f : Saved!Tokens(S, f) = Tokens(S, f)
  BY DEF Saved!Tokens, Tokens
<1>2. QED
  BY <1>1 DEF Saved!Total, Total, Saved!Cardinality, Cardinality

LEMMA CopyTaken ==
  ASSUME TypeInv, ForwardInv, MoneyInv, CopyLedger
  PROVE  CopyInv'
<1>1. /\ snap'.of = "ledger" /\ snap'.copy = File
      /\ UNCHANGED vars
  BY DEF CopyLedger
<1>2. /\ snap'.copy.res = res /\ snap'.copy.epoch = epoch /\ snap'.copy.opened = opened
      /\ snap'.copy.consumed = consumed /\ snap'.copy.reserved = reserved
      /\ snap'.copy.gen = gen /\ snap'.copy.cum = cum /\ snap'.copy.clean = clean
      /\ snap'.copy.remaining = remaining /\ snap'.copy.latches = latches
      /\ snap'.copy.lifted = lifted
  BY <1>1 DEF File
<1>3. Saved!TypeOK'
  BY <1>2 DEF TypeInv, TypeOK, Saved!TypeOK, Saved!Id, Saved!Epoch, Saved!Group, Saved!State,
     Saved!Active, Saved!PossiblySent, Id, Epoch, Group, State, Active, PossiblySent,
     Saved!Missing, Missing, Saved!Scope, Scope, Saved!Global, Saved!PoolScope, Saved!ModelScope,
     Global, PoolScope, ModelScope, Saved!HighWaterMark, Saved!NoRecord, NoRecord, Saved!Verdict,
     Saved!Down, Down, Saved!Pending, Saved!Idle, Idle, Pending
<1>4. Saved!PendingOK' /\ Saved!RowsOpened'
  BY <1>2 DEF TypeInv, RowsOpened, Saved!PendingOK, Saved!RowsOpened, Saved!Idle, Idle
<1>5. Saved!ForwardInv'
  BY <1>2 DEF ForwardInv, OpenedInOrder, CarriedForward, ActiveIds, Active, PossiblySent,
     Saved!ForwardInv, Saved!OpenedInOrder, Saved!CarriedForward, Saved!ActiveIds, Saved!Active,
     Saved!PossiblySent
<1>6. /\ Saved!ActiveIds' = ActiveIds /\ Saved!LiabilityOf' = LiabilityOf
      /\ Saved!ConsumptionOf' = ConsumptionOf /\ Saved!Excess' = Excess
      /\ \A p, e : Saved!RowsAt(p, e)' = RowsAt(p, e)
  BY <1>2 DEF ActiveIds, Active, PossiblySent, LiabilityOf, ConsumptionOf, Excess, BiggerOf,
     RowsAt, PoolFor, Saved!ActiveIds, Saved!Active, Saved!PossiblySent, Saved!LiabilityOf,
     Saved!ConsumptionOf, Saved!Excess, Saved!BiggerOf, Saved!RowsAt, Saved!PoolFor
<1>7. Saved!BooksBalance'
  BY <1>2, <1>6, SameTotals DEF MoneyInv, BooksBalance, ReservedTokens, Saved!BooksBalance,
     Saved!ReservedTokens, Saved!Epoch, Epoch
<1>8. Saved!ReservedFits' /\ Saved!GrantHeld'
  BY <1>2, <1>6, SameTotals DEF MoneyInv, ReservedFits, GrantHeld, Saved!ReservedFits,
     Saved!GrantHeld, Saved!Epoch, Epoch
<1>9. snap'.of # "external"
  BY <1>1
<1>10. QED
  BY <1>3, <1>4, <1>5, <1>7, <1>8, <1>9 DEF CopyInv, Saved!TypeInv, Saved!MoneyInv

LEMMA CopyKept == CopyInv /\ UNCHANGED snap => CopyInv'
<1> SUFFICES ASSUME CopyInv, UNCHANGED snap PROVE CopyInv'
  OBVIOUS
<1>1. Saved!TypeInv => Saved!TypeInv'
  BY DEF Saved!TypeInv, Saved!TypeOK, Saved!PendingOK, Saved!RowsOpened, Saved!InState
<1>2. Saved!ForwardInv => Saved!ForwardInv'
  BY DEF Saved!ForwardInv, Saved!OpenedInOrder, Saved!CarriedForward, Saved!ActiveIds
<1>3. /\ Saved!ActiveIds' = Saved!ActiveIds /\ Saved!LiabilityOf' = Saved!LiabilityOf
      /\ Saved!ConsumptionOf' = Saved!ConsumptionOf /\ Saved!Excess' = Saved!Excess
      /\ \A p, e : Saved!RowsAt(p, e)' = Saved!RowsAt(p, e)
  BY DEF Saved!ActiveIds, Saved!LiabilityOf, Saved!ConsumptionOf, Saved!Excess, Saved!RowsAt,
         Saved!PoolFor
<1>4. Saved!MoneyInv => Saved!MoneyInv'
  BY <1>3 DEF Saved!MoneyInv, Saved!BooksBalance, Saved!ReservedTokens, Saved!ReservedFits,
              Saved!GrantHeld
<1>5. QED
  BY <1>1, <1>2, <1>4 DEF CopyInv, CopiedLedger

LEMMA CopyRestored ==
  ASSUME CopyInv, TypeInv, RestoreLedger
  PROVE  TypeInv' /\ ForwardInv' /\ MoneyInv'
<1>1. /\ res' = snap.copy.res /\ epoch' = snap.copy.epoch /\ opened' = snap.copy.opened
      /\ consumed' = snap.copy.consumed /\ reserved' = snap.copy.reserved
      /\ gen' = snap.copy.gen /\ cum' = snap.copy.cum /\ clean' = snap.copy.clean
      /\ remaining' = snap.copy.remaining /\ latches' = snap.copy.latches
      /\ lifted' = snap.copy.lifted
  BY DEF RestoreLedger
<1>2. UNCHANGED <<ext, trust, pending, sent, exposed, evidence>> /\ pending = Idle
  BY DEF RestoreLedger, process, TypeInv, PendingOK
<1>3. Saved!TypeInv /\ Saved!ForwardInv /\ Saved!MoneyInv
  BY DEF CopyInv, RestoreLedger, CopiedLedger
<1>4. TypeOK'
  BY <1>1, <1>2, <1>3 DEF TypeInv, TypeOK, Saved!TypeInv, Saved!TypeOK, Saved!Id, Saved!Epoch, Saved!Group,
     Saved!State, Saved!Active, Saved!PossiblySent, Id, Epoch, Group, State, Active, PossiblySent,
     Saved!Missing, Missing, Saved!Scope, Scope, Saved!Global, Saved!PoolScope, Saved!ModelScope,
     Global, PoolScope, ModelScope
<1>5. PendingOK' /\ RowsOpened'
  BY <1>1, <1>2, <1>3, IdlePending DEF RowsOpened, Saved!TypeInv, Saved!RowsOpened
<1>6. ForwardInv'
  BY <1>1, <1>3 DEF ForwardInv, OpenedInOrder, CarriedForward, ActiveIds, Active, PossiblySent,
     Saved!ForwardInv, Saved!OpenedInOrder, Saved!CarriedForward, Saved!ActiveIds, Saved!Active,
     Saved!PossiblySent
<1>7. /\ Saved!ActiveIds = ActiveIds' /\ Saved!LiabilityOf = LiabilityOf'
      /\ Saved!ConsumptionOf = ConsumptionOf' /\ Saved!Excess = Excess'
      /\ \A p, e : Saved!RowsAt(p, e) = RowsAt(p, e)'
  BY <1>1 DEF ActiveIds, Active, PossiblySent, LiabilityOf, ConsumptionOf, Excess, BiggerOf,
     RowsAt, PoolFor, Saved!ActiveIds, Saved!Active, Saved!PossiblySent, Saved!LiabilityOf,
     Saved!ConsumptionOf, Saved!Excess, Saved!BiggerOf, Saved!RowsAt, Saved!PoolFor
<1>8. BooksBalance'
  BY <1>1, <1>3, <1>7, SameTotals DEF BooksBalance, ReservedTokens, Saved!MoneyInv,
     Saved!BooksBalance, Saved!ReservedTokens, Saved!Epoch, Epoch
<1>9. ReservedFits' /\ GrantHeld'
  BY <1>1, <1>3, <1>7, SameTotals DEF ReservedFits, GrantHeld, Saved!MoneyInv,
     Saved!ReservedFits, Saved!GrantHeld, Saved!Epoch, Epoch
<1>10. QED
  BY <1>4, <1>5, <1>6, <1>8, <1>9 DEF TypeInv, MoneyInv

-----------------------------------------------------------------------------
(* The books, under every fault                                            *)

BooksInv == TypeInv /\ ForwardInv /\ MoneyInv /\ CopyInv

\* A fault of the external volume touches nothing but the record.
LEMMA RecordReplaced ==
  ASSUME BooksInv, trust = Down, ext' \in HighWaterMark \cup {NoRecord, Unreadable},
         UNCHANGED <<books, meta, guardsVars, process, history>>
  PROVE  TypeInv' /\ ForwardInv' /\ MoneyInv'
<1>1. /\ UNCHANGED <<res, epoch, opened, consumed, reserved, gen, cum, clean, remaining, latches,
                     trust, pending, sent, lifted, exposed, evidence>>
      /\ pending = Idle
  BY DEF books, meta, guardsVars, process, history, BooksInv, TypeInv, PendingOK
<1>2. TypeOK' /\ RowsOpened'
  BY <1>1 DEF BooksInv, TypeInv, TypeOK, RowsOpened
<1>3. PendingOK'
  BY <1>1, IdlePending
<1>4. ForwardInv'
  BY <1>1, ForwardKept DEF BooksInv, ActiveIds
<1>5. MoneyInv'
  BY <1>1, MoneyKept DEF BooksInv
<1>6. QED
  BY <1>2, <1>3, <1>4, <1>5 DEF TypeInv

LEMMA NextBooks == BooksInv /\ [RollbackNext]_rollbackVars => BooksInv'
<1> SUFFICES ASSUME BooksInv, [RollbackNext]_rollbackVars PROVE BooksInv'
  OBVIOUS
<1>1. ASSUME [Next]_vars
      PROVE  TypeInv' /\ ForwardInv' /\ MoneyInv'
  BY <1>1, NextType, NextForward, NextMoney DEF BooksInv
<1>2. CASE (Next /\ UNCHANGED snap) \/ UNCHANGED rollbackVars
  <2>1. [Next]_vars /\ UNCHANGED snap
    BY <1>2 DEF rollbackVars
  <2>2. QED
    BY <1>1, <2>1, CopyKept DEF BooksInv
<1>3. CASE CopyLedger
  <2>1. [Next]_vars
    BY <1>3 DEF CopyLedger
  <2>2. QED
    BY <1>1, <1>3, <2>1, CopyTaken DEF BooksInv
<1>4. CASE CopyExternal
  <2>1. [Next]_vars
    BY <1>4 DEF CopyExternal
  <2>2. snap'.of = "external" /\ snap'.copy = ext
    BY <1>4 DEF CopyExternal
  <2>3. CopyInv'
    BY <2>2 DEF CopyInv, CopiedLedger, BooksInv, TypeInv, TypeOK
  <2>4. QED
    BY <1>1, <2>1, <2>3 DEF BooksInv
<1>5. CASE RestoreLedger
  <2>1. UNCHANGED snap
    BY <1>5 DEF RestoreLedger
  <2>2. QED
    BY <1>5, <2>1, CopyKept, CopyRestored DEF BooksInv
<1>6. CASE RestoreExternal
  <2>1. UNCHANGED snap /\ ext' \in HighWaterMark \cup {NoRecord, Unreadable}
    BY <1>6 DEF RestoreExternal, BooksInv, CopyInv
  <2>2. QED
    BY <1>6, <2>1, CopyKept, RecordReplaced DEF RestoreExternal, BooksInv
<1>7. ASSUME NEW record \in {NoRecord, Unreadable}, SpoilExternal(record)
      PROVE  BooksInv'
  BY <1>7, CopyKept, RecordReplaced DEF SpoilExternal, BooksInv
<1>8. QED
  BY <1>2, <1>3, <1>4, <1>5, <1>6, <1>7 DEF RollbackNext

LEMMA InitBooks == RollbackInit => BooksInv
<1> SUFFICES ASSUME RollbackInit PROVE BooksInv
  OBVIOUS
<1>1. Init /\ snap.of = "none"
  BY DEF RollbackInit, NoCopy
<1>2. ForwardInv
  BY <1>1 DEF Init, ForwardInv, OpenedInOrder, CarriedForward, ActiveIds
<1>3. QED
  BY <1>1, <1>2, InitType, InitMoney DEF BooksInv, CopyInv, CopiedLedger

\* Whichever volume is put back from an older copy, and whenever: the counters
\* of the file that is opened are what its rows, and what it adopted, add up to.
THEOREM BooksBalanceRolledBack == RollbackSpec => []BooksBalance
<1>1. BooksInv => BooksBalance
  BY DEF BooksInv, MoneyInv
<1>2. QED
  BY <1>1, InitBooks, NextBooks, PTL DEF RollbackSpec

\* And they stay within the grant: an older copy reserves no more than it did.
THEOREM GrantHeldRolledBack == RollbackSpec => []GrantHeld
<1>1. BooksInv => GrantHeld
  BY DEF BooksInv, MoneyInv
<1>2. QED
  BY <1>1, InitBooks, NextBooks, PTL DEF RollbackSpec

\* A live request weighs on the current epoch of the file that is open.
THEOREM LiveIsCarriedRolledBack == RollbackSpec => []CarriedForward
<1>1. BooksInv => CarriedForward
  BY DEF BooksInv, ForwardInv
<1>2. QED
  BY <1>1, InitBooks, NextBooks, PTL DEF RollbackSpec

-----------------------------------------------------------------------------
(* Which steps matter to what was sent                                     *)

\* The ledger's own record of a request moves only towards its end, and
\* nothing else that the record of the external volume is compared with moves.
Quietly ==
  /\ UNCHANGED <<gen, cum, ext, trust, sent>>
  /\ pending' \in {pending, Idle}
  /\ DOMAIN res' = DOMAIN res
  /\ \A i \in DOMAIN res :
       /\ res'[i].liability = res[i].liability
       /\ \/ res'[i].state = res[i].state
          \/ /\ res[i].state \in PossiblySent
             /\ res'[i].state \in Accounted \ {"DISPATCHING"}
          \/ /\ Running
             /\ res[i].state = "RESERVED"
             /\ res'[i].state = "RELEASED_UNSENT"

\* The steps that are not quiet.
Loud ==
  \/ \E id \in Id, m \in Model, l \in Liabilities : Reserve(id, m, l)
  \/ \E i \in DOMAIN res : BeginDispatch(i) \/ Send(i)
  \/ CommitDispatch
  \/ AdoptAnchor
  \/ \E e \in Epoch, report \in [Pool -> Reports] : AdoptCommit(e, report)
  \/ Crash
  \/ Open

LEMMA QuietlyOrLoud == TypeInv /\ [Next]_vars => Quietly \/ Loud
<1> SUFFICES ASSUME TypeInv, [Next]_vars, ~Loud PROVE Quietly
  OBVIOUS
<1>1. ASSUME UNCHANGED <<res, gen, cum, ext, trust, sent>>, pending' \in {pending, Idle}
      PROVE  Quietly
  BY <1>1 DEF Quietly
<1>2. ASSUME \/ \E k \in Key : Revalidate(k) \/ Invalidate(k)
             \/ \E s \in ManualScopes : SetLatch(s)
             \/ \E s \in Scope : ClearLatches(s)
             \/ FailDispatch \/ AdoptFail \/ MarkClean
             \/ UNCHANGED vars
      PROVE  Quietly
  BY <1>1, <1>2 DEF Revalidate, Invalidate, SetLatch, ClearLatches, FailDispatch, AdoptFail,
                    MarkClean, vars, books, meta, process, history
<1>3. ASSUME NEW i \in DOMAIN res, AttachResponseId(i) \/ MarkIdUnknown(i)
      PROVE  Quietly
  <2>1. PICK s \in Accounted \ {"DISPATCHING"} : s \in State /\ Rename(i, s)
    BY <1>3 DEF AttachResponseId, MarkIdUnknown, Accounted, PossiblySent, State, Active
  <2>2. /\ UNCHANGED <<gen, cum, ext, trust, sent, pending>>
        /\ i \in InState("DISPATCHING") /\ res' = Relabel({i}, s)
    BY <2>1 DEF Rename, meta, process, history
  <2>3. /\ DOMAIN res' = DOMAIN res
        /\ \A j \in DOMAIN res : res'[j].liability = res[j].liability
    BY <2>1, <2>2, RelabelType DEF TypeInv
  <2>4. /\ res'[i].state = s
        /\ \A j \in DOMAIN res \ {i} : res'[j] = res[j]
    BY <2>2 DEF Relabel, TypeInv, TypeOK, Group
  <2>5. res[i].state \in PossiblySent
    BY <2>2 DEF InState, PossiblySent
  <2>6. QED
    BY <2>1, <2>2, <2>3, <2>4, <2>5 DEF Quietly
<1>4. ASSUME NEW i \in DOMAIN res,
             \/ \E actual \in Reports : Settle(i, actual)
             \/ SettleDefective(i) \/ WriteOff(i) \/ ReleaseUnsent(i) \/ ReleaseRejected(i)
      PROVE  Quietly
  <2>1. res[i].liability \in Nat /\ Reports \subseteq Nat
    BY LedgerAssumption DEF TypeInv, TypeOK, Group, LedgerAssumption
  <2>2. {"SETTLED", "CONSUMED_UNRECOVERABLE", "REJECTED_BEFORE_PROCESSING", "RELEASED_UNSENT"}
          \subseteq State
    BY DEF State
  <2>3. \/ \E actual \in Nat : Finish(i, "SETTLED", actual, actual)
        \/ Finish(i, "CONSUMED_UNRECOVERABLE", res[i].liability, 0)
        \/ Finish(i, "RELEASED_UNSENT", 0, 0)
        \/ Finish(i, "REJECTED_BEFORE_PROCESSING", 0, 0)
    BY <1>4, <2>1 DEF Settle, SettleDefective, WriteOff, ReleaseUnsent, ReleaseRejected
  <2>4. UNCHANGED <<gen, cum, ext, trust, sent, pending>>
    BY <1>4 DEF Settle, SettleDefective, WriteOff, ReleaseUnsent, ReleaseRejected, Finish,
                meta, process, history
  <2>5. PICK target \in {"SETTLED", "CONSUMED_UNRECOVERABLE", "REJECTED_BEFORE_PROCESSING",
                         "RELEASED_UNSENT"} :
          /\ DOMAIN res' = DOMAIN res
          /\ \A j \in DOMAIN res : res'[j].liability = res[j].liability
          /\ \A j \in DOMAIN res \ {i} : res'[j] = res[j]
          /\ res'[i].state = target
    BY <2>1, <2>2, <2>3, FinishType DEF TypeInv
  <2>6. \/ res[i].state \in PossiblySent /\ res'[i].state # "RELEASED_UNSENT"
        \/ Running /\ res[i].state = "RESERVED" /\ res'[i].state = "RELEASED_UNSENT"
    <3>1. CASE ReleaseUnsent(i)
      <4>1. Finish(i, "RELEASED_UNSENT", 0, 0) /\ Running /\ res[i].state = "RESERVED"
        BY <3>1 DEF ReleaseUnsent, InState
      <4>2. QED
        BY <2>2, <4>1, FinishType DEF TypeInv
    <3>2. ASSUME \/ \E actual \in Reports : Settle(i, actual)
                 \/ SettleDefective(i) \/ WriteOff(i) \/ ReleaseRejected(i)
          PROVE  res[i].state \in PossiblySent /\ res'[i].state # "RELEASED_UNSENT"
      <4>1. res[i].state \in PossiblySent
        BY <3>2 DEF Settle, SettleDefective, WriteOff, ReleaseRejected, Settleable, InState,
                    PossiblySent
      <4>2. \/ \E actual \in Nat : Finish(i, "SETTLED", actual, actual)
            \/ Finish(i, "CONSUMED_UNRECOVERABLE", res[i].liability, 0)
            \/ Finish(i, "REJECTED_BEFORE_PROCESSING", 0, 0)
        BY <3>2, <2>1 DEF Settle, SettleDefective, WriteOff, ReleaseRejected
      <4>3. res'[i].state \in {"SETTLED", "CONSUMED_UNRECOVERABLE", "REJECTED_BEFORE_PROCESSING"}
        BY <2>1, <2>2, <4>2, FinishType DEF TypeInv
      <4>4. QED
        BY <4>1, <4>3
    <3>3. QED
      BY <1>4, <3>1, <3>2
  <2>7. \/ res'[i].state \in Accounted \ {"DISPATCHING"}
        \/ res'[i].state = "RELEASED_UNSENT"
    BY <2>5 DEF Accounted, PossiblySent
  <2>8. QED
    BY <2>4, <2>5, <2>6, <2>7 DEF Quietly
<1>5. ASSUME NEW e \in Epoch, Rollover(e)
      PROVE  Quietly
  <2>1. UNCHANGED <<gen, cum, ext, trust, sent, pending>> /\ DOMAIN res' = DOMAIN res
    BY <1>5 DEF Rollover, meta, process, history
  <2>2. \A i \in DOMAIN res : /\ res'[i].state = res[i].state
                              /\ res'[i].liability = res[i].liability
    BY <1>5 DEF Rollover, TypeInv, TypeOK, Group
  <2>3. QED
    BY <2>1, <2>2 DEF Quietly
<1>6. QED
  BY <1>2, <1>3, <1>4, <1>5 DEF Loud, Next, Admission, Dispatch, Settlement, Lifecycle

-----------------------------------------------------------------------------
(* What is prepared, and the record's lead                                 *)

LEMMA RecordTypes ==
  TypeInv => /\ gen \in Nat /\ cum \in Nat
             /\ ext.generation \in Int /\ ext.cumulative \in Nat /\ ext.last \in Nat
BY DEF TypeInv, TypeOK, HighWaterMark, NoRecord, Unreadable

\* Only a trusted ledger has rows that are yet to be dispatched, or being so.
LEMMA PreparedIsTrusted ==
  ASSUME NothingPrepared, trust # Down,
         NEW i \in InState("RESERVED") \cup InState("DISPATCHING")
  PROVE  trust = "Trusted"
BY DEF NothingPrepared

LEMMA NextPrepared ==
  TypeInv /\ NothingPrepared /\ RecordLeads /\ [Next]_vars => NothingPrepared' /\ RecordLeads'
<1> SUFFICES ASSUME TypeInv, NothingPrepared, RecordLeads, [Next]_vars
             PROVE  NothingPrepared' /\ RecordLeads'
  OBVIOUS
<1> USE RecordTypes
<1>1. CASE Quietly
  <2>1. InState("RESERVED")' \subseteq InState("RESERVED")
    BY <1>1 DEF Quietly, InState, Accounted, PossiblySent
  <2>2. InState("DISPATCHING")' \subseteq InState("DISPATCHING")
    BY <1>1 DEF Quietly, InState, Accounted, PossiblySent
  <2>3. UNCHANGED <<gen, ext, trust>> /\ pending' \in {pending, Idle}
    BY <1>1 DEF Quietly
  <2>4. QED
    BY <2>1, <2>2, <2>3 DEF NothingPrepared, RecordLeads, Idle
<1>2. ASSUME NEW id \in Id, NEW m \in Model, NEW l \in Liabilities, Reserve(id, m, l)
      PROVE  NothingPrepared' /\ RecordLeads'
  BY <1>2 DEF Reserve, NothingPrepared, RecordLeads, meta, process
<1>3. ASSUME NEW i \in DOMAIN res, BeginDispatch(i)
      PROVE  NothingPrepared' /\ RecordLeads'
  <2>1. trust = "Trusted" /\ trust' = trust
    BY <1>3, PreparedIsTrusted DEF BeginDispatch, Running
  <2>2. ext'.generation = gen + 1 /\ gen' = gen /\ pending'.op = "dispatch"
    BY <1>3 DEF BeginDispatch, meta, Dispatching
  <2>3. QED
    BY <2>1, <2>2 DEF NothingPrepared, RecordLeads
<1>4. ASSUME NEW i \in DOMAIN res, Send(i)
      PROVE  NothingPrepared' /\ RecordLeads'
  BY <1>4 DEF Send, NothingPrepared, RecordLeads, InState, books, meta, process
<1>5. CASE CommitDispatch
  <2>1. trust = "Trusted" /\ trust' = trust
    BY <1>5, PreparedIsTrusted DEF CommitDispatch, TypeInv, PendingOK
  <2>2. gen' = ext.generation /\ ext' = ext /\ pending'.op = "none"
    BY <1>5 DEF CommitDispatch, Idle
  <2>3. QED
    BY <2>1, <2>2 DEF NothingPrepared, RecordLeads
<1>6. CASE AdoptAnchor
  <2>1. UNCHANGED <<res, gen, trust>> /\ trust # "Trusted"
    BY <1>6 DEF AdoptAnchor, books, meta
  <2>2. ext'.generation = BiggerOf(gen, ext.generation) + 1
    BY <1>6 DEF AdoptAnchor
  <2>3. ext'.generation > gen
    BY <2>2 DEF BiggerOf
  <2>4. QED
    BY <2>1, <2>3 DEF NothingPrepared, RecordLeads, InState
<1>7. ASSUME NEW e \in Epoch, NEW report \in [Pool -> Reports], AdoptCommit(e, report)
      PROVE  NothingPrepared' /\ RecordLeads'
  <2>1. trust' = "Trusted" /\ gen' = ext.generation /\ ext' = ext /\ pending'.op = "none"
    BY <1>7 DEF AdoptCommit, Idle
  <2>2. QED
    BY <2>1 DEF NothingPrepared, RecordLeads
<1>8. CASE Crash
  BY <1>8 DEF Crash, NothingPrepared, RecordLeads, Idle, Down
<1>9. CASE Open
  <2>1. InState("RESERVED")' \cup InState("DISPATCHING")' = {}
    <3>1. ASSUME NEW i \in DOMAIN res
          PROVE  res'[i].state \notin {"RESERVED", "DISPATCHING"}
      <4>1. res[i] \in Group
        BY DEF TypeInv, TypeOK
      <4>2. CASE i \in Unsent
        BY <1>9, <4>1, <4>2 DEF Open, Group
      <4>3. CASE i \in (InState("RESERVED") \cup InState("DISPATCHING")) \ Unsent
        BY <1>9, <4>1, <4>3 DEF Open, Group
      <4>4. CASE i \notin Unsent \cup InState("RESERVED") \cup InState("DISPATCHING")
        <5>1. res'[i] = res[i]
          BY <1>9, <4>4 DEF Open
        <5>2. QED
          BY <4>4, <5>1 DEF InState
      <4>5. QED
        BY <4>2, <4>3, <4>4
    <3>2. DOMAIN res' = DOMAIN res
      BY <1>9 DEF Open
    <3>3. QED
      BY <3>1, <3>2 DEF InState
  <2>2. pending' = pending /\ pending = Idle /\ ext' = ext /\ trust' = Assessment
    BY <1>9 DEF Open, TypeInv, PendingOK
  <2>3. gen' \in {gen, ext.generation}
    BY <1>9 DEF Open
  <2>4. Assessment = "Trusted" => ext.generation >= gen
    BY DEF Assessment
  <2>5. QED
    BY <2>1, <2>2, <2>3, <2>4 DEF NothingPrepared, RecordLeads, Idle
<1>10. QED
  BY <1>1, <1>2, <1>3, <1>4, <1>5, <1>6, <1>7, <1>8, <1>9, QuietlyOrLoud DEF Loud

-----------------------------------------------------------------------------
(* What was sent, while a copy of the file may be put back                 *)

\* The invariant before a step of the ledger, with a copy of its file taken.
Behind == TypeInv /\ CopyInv /\ CopiedLedger /\ NothingPrepared /\ RecordLeads /\ BehindCopy

LEMMA CopyTypes == Behind => Copy.gen \in Nat /\ Copy.cum \in Nat
BY DEF Behind, CopyInv, Saved!TypeInv, Saved!TypeOK, Copy

LEMMA HeldGives ==
  Held => /\ trust \in {"Trusted", "UncleanShutdown"} => Held
          /\ NeverReleased
          /\ Vouched(res, gen, cum)
BY DEF Held, NeverReleased, Vouched, HoldsIn, Accounted, PossiblySent

\* A file's word counts for as long as the file, the record and what was sent
\* stand as they are.
LEMMA VouchedKept ==
  ASSUME Vouched(Copy.res, Copy.gen, Copy.cum), UNCHANGED <<ext, sent, snap>>
  PROVE  Vouched(Copy.res, Copy.gen, Copy.cum)'
BY DEF Vouched, Same, Ahead, HoldsIn, Copy

LEMMA DescendsKept ==
  ASSUME Descends, UNCHANGED <<gen, cum, snap>>, DOMAIN res \subseteq DOMAIN res',
         \A i \in DOMAIN res : res[i].state = "RELEASED_UNSENT" => res'[i].state = "RELEASED_UNSENT"
  PROVE  Descends'
BY DEF Descends, Copy

LEMMA QuietBehind ==
  ASSUME Behind, Quietly, UNCHANGED snap
  PROVE  BehindCopy'
<1> USE DEF Behind
<1>1. /\ UNCHANGED <<gen, cum, ext, trust, sent>>
      /\ DOMAIN res' = DOMAIN res
      /\ \A i \in DOMAIN res : res'[i].liability = res[i].liability
  BY DEF Quietly
<1>2. \A i \in DOMAIN res :
        /\ res[i].state \in Accounted => res'[i].state \in Accounted
        /\ res'[i].state \in {"RESERVED", "DISPATCHING"} => res'[i].state = res[i].state
        /\ res[i].state = "RELEASED_UNSENT" => res'[i].state = "RELEASED_UNSENT"
  BY DEF Quietly, Accounted, PossiblySent
<1>3. ASSUME NEW i \in sent \cap DOMAIN res, res'[i].state = "RELEASED_UNSENT",
             res[i].state = "RESERVED", Running
      PROVE  FALSE
  <2>1. trust = "Trusted"
    BY <1>3, PreparedIsTrusted DEF Running, InState
  <2>2. res[i].state \in Accounted
    BY <2>1 DEF BehindCopy, Held
  <2>3. QED
    BY <1>3, <2>2 DEF Accounted, PossiblySent
<1>4. NeverReleased'
  <2>1. ASSUME NEW i \in sent \cap DOMAIN res, res'[i].state = "RELEASED_UNSENT"
        PROVE  FALSE
    <3>1. res[i].state # "RELEASED_UNSENT"
      BY DEF BehindCopy, NeverReleased
    <3>2. res[i].state = "RESERVED" /\ Running
      BY <2>1, <3>1 DEF Quietly, Accounted, PossiblySent
    <3>3. QED
      BY <1>3, <2>1, <3>2
  <2>2. QED
    BY <1>1, <2>1 DEF NeverReleased
<1>5. trust' \in {"Trusted", "UncleanShutdown"} => Held'
  BY <1>1, <1>2 DEF BehindCopy, Held
<1>6. Vouched(res, gen, cum)'
  BY <1>1, <1>2 DEF BehindCopy, Vouched, Same, Ahead, HoldsIn
<1>7. Vouched(Copy.res, Copy.gen, Copy.cum)' /\ Descends'
  BY <1>1, <1>2, VouchedKept, DescendsKept DEF BehindCopy
<1>8. DispatchMoves'
  BY <1>1, <1>2 DEF BehindCopy, DispatchMoves, HoldsIn, InState, Copy
<1>9. NothingSentSince'
  BY <1>1 DEF BehindCopy, NothingSentSince, HoldsIn, Copy
<1>10. QED
  BY <1>4, <1>5, <1>6, <1>7, <1>8, <1>9 DEF BehindCopy

\* The first three parts follow from Held.
LEMMA HeldBehind ==
  Held /\ Vouched(Copy.res, Copy.gen, Copy.cum) /\ Descends /\ DispatchMoves /\ NothingSentSince
    => BehindCopy
BY HeldGives DEF BehindCopy

LEMMA ReserveBehind ==
  ASSUME Behind, [Next]_vars, UNCHANGED snap,
         NEW id \in Id, NEW m \in Model, NEW l \in Liabilities, Reserve(id, m, l)
  PROVE  BehindCopy'
<1> USE DEF Behind
<1>1. /\ UNCHANGED <<gen, cum, ext, trust, sent>> /\ trust = "Trusted"
      /\ DOMAIN res' = DOMAIN res \cup {id} /\ id \notin DOMAIN res
      /\ res'[id].state = "RESERVED"
      /\ \A i \in DOMAIN res : res'[i] = res[i]
  <2>1. id \notin DOMAIN res
    BY DEF Reserve, Id
  <2>2. QED
    BY <2>1 DEF Reserve, meta, process
<1>2. Held'
  BY <1>1, NextHeld DEF BehindCopy
<1>3. Vouched(Copy.res, Copy.gen, Copy.cum)' /\ Descends'
  BY <1>1, VouchedKept, DescendsKept DEF BehindCopy
<1>4. DispatchMoves'
  BY <1>1 DEF BehindCopy, DispatchMoves, HoldsIn, InState, Copy
<1>5. NothingSentSince'
  BY <1>1 DEF BehindCopy, NothingSentSince, HoldsIn, Copy
<1>6. QED
  BY <1>2, <1>3, <1>4, <1>5, HeldBehind, PTL

\* The record moves past the file and its copy: the next dispatch is the only
\* thing the copy may be missing.
LEMMA BeginBehind ==
  ASSUME Behind, [Next]_vars, UNCHANGED snap, NEW i \in DOMAIN res, BeginDispatch(i)
  PROVE  BehindCopy'
<1> USE DEF Behind
<1>1. UNCHANGED <<res, gen, cum, trust, sent>> /\ trust = "Trusted"
  BY PreparedIsTrusted DEF BeginDispatch, Running, books, meta, history
<1>2. ext'.generation = gen + 1
  BY DEF BeginDispatch
<1>3. Held'
  BY <1>1, NextHeld DEF BehindCopy
<1>4. gen \in Nat /\ Copy.gen \in Nat /\ Copy.gen <= gen
  BY RecordTypes, CopyTypes DEF BehindCopy, Descends
<1>5. Vouched(Copy.res, Copy.gen, Copy.cum)'
  <2>1. ~Same(Copy.gen, Copy.cum)'
    BY <1>2, <1>4 DEF Same, Copy
  <2>2. Ahead(Copy.res, Copy.gen, Copy.cum)' => Copy.gen = gen
    BY <1>2, <1>4 DEF Ahead, Copy
  <2>3. Copy.gen = gen => \A j \in sent : HoldsIn(Copy.res, j)
    BY <1>1 DEF BehindCopy, NothingSentSince
  <2>4. QED
    BY <1>1, <2>1, <2>2, <2>3 DEF Vouched, HoldsIn, Copy
<1>6. Descends'
  BY <1>1, DescendsKept DEF BehindCopy
<1>7. DispatchMoves'
  <2>1. ext'.generation # gen
    BY <1>2, <1>4
  <2>2. QED
    BY <1>1, <2>1 DEF BehindCopy, DispatchMoves, HoldsIn, InState, Copy
<1>8. NothingSentSince'
  BY <1>1 DEF BehindCopy, NothingSentSince, HoldsIn, Copy
<1>9. QED
  BY <1>3, <1>5, <1>6, <1>7, <1>8, HeldBehind, PTL

LEMMA CommitBehind ==
  ASSUME Behind, [Next]_vars, UNCHANGED snap, CommitDispatch
  PROVE  BehindCopy'
<1> USE DEF Behind
<1>1. UNCHANGED <<ext, trust, sent>> /\ pending.id \in InState("RESERVED")
  BY DEF CommitDispatch, history, TypeInv, PendingOK
<1>2. trust = "Trusted"
  BY <1>1, PreparedIsTrusted DEF CommitDispatch
<1>3. gen' = ext.generation /\ ext.generation = gen + 1 /\ ext.last = pending.id
  BY DEF CommitDispatch, TypeInv, PendingOK
<1>4. Held'
  BY <1>2, NextHeld DEF BehindCopy
<1>5. gen \in Nat /\ Copy.gen \in Nat /\ Copy.gen <= gen
  BY RecordTypes, CopyTypes DEF BehindCopy, Descends
<1>6. Vouched(Copy.res, Copy.gen, Copy.cum)'
  BY <1>1, VouchedKept DEF BehindCopy
<1>7. /\ DOMAIN res' = DOMAIN res
      /\ InState("DISPATCHING")' \subseteq InState("DISPATCHING") \cup {pending.id}
      /\ \A i \in DOMAIN res \ {pending.id} : res'[i] = res[i]
  BY DEF CommitDispatch, Relabel, InState
<1>8. Descends'
  <2>1. Copy.gen < gen'
    BY <1>3, <1>5
  <2>2. \A i \in DOMAIN res : res[i].state = "RELEASED_UNSENT" => res'[i] = res[i]
    BY <1>1, <1>7 DEF InState
  <2>3. QED
    BY <1>5, <1>7, <2>1, <2>2, <1>3 DEF BehindCopy, Descends, Copy
<1>9. DispatchMoves'
  <2>1. Copy.gen # gen'
    BY <1>3, <1>5
  <2>2. ASSUME NEW i \in InState("DISPATCHING")', Copy.gen + 1 = gen'
        PROVE  HoldsIn(Copy.res, i) \/ i = ext.last
    <3>1. CASE i = pending.id
      BY <1>3, <3>1
    <3>2. CASE i \in InState("DISPATCHING")
      <4>1. Copy.gen = gen
        BY <1>3, <1>5, <2>2
      <4>2. QED
        BY <3>2, <4>1 DEF BehindCopy, DispatchMoves
    <3>3. QED
      BY <1>7, <3>1, <3>2
  <2>3. QED
    BY <1>1, <2>1, <2>2 DEF DispatchMoves, HoldsIn, Copy
<1>10. NothingSentSince'
  <2>1. Copy.gen # gen'
    BY <1>3, <1>5
  <2>2. QED
    BY <2>1 DEF NothingSentSince, Copy
<1>11. QED
  BY <1>4, <1>6, <1>8, <1>9, <1>10, HeldBehind, PTL

\* The bytes leave only once the record has moved past the copy, or the copy
\* holds the request too.
LEMMA SendBehind ==
  ASSUME Behind, [Next]_vars, UNCHANGED snap, NEW i \in DOMAIN res, Send(i)
  PROVE  BehindCopy'
<1> USE DEF Behind
<1>1. /\ UNCHANGED <<res, gen, cum, ext, trust>> /\ sent' = sent \cup {i}
      /\ i \in InState("DISPATCHING")
  BY DEF Send, books, meta, process
<1>2. trust = "Trusted"
  BY <1>1, PreparedIsTrusted DEF Send
<1>3. Held'
  BY <1>2, NextHeld DEF BehindCopy
<1>4. gen \in Nat /\ Copy.gen \in Nat /\ Copy.gen <= gen /\ ext.generation \in Int
  BY RecordTypes, CopyTypes DEF BehindCopy, Descends
<1>5. ext.generation >= gen
  BY <1>2 DEF RecordLeads
<1>6. /\ Copy.gen = gen => HoldsIn(Copy.res, i)
      /\ Copy.gen + 1 = gen /\ ext.generation = gen => HoldsIn(Copy.res, i) \/ i = ext.last
  BY <1>1 DEF BehindCopy, DispatchMoves
<1>7. Vouched(Copy.res, Copy.gen, Copy.cum)'
  <2>1. ASSUME ext.generation = Copy.gen
        PROVE  HoldsIn(Copy.res, i)
    BY <1>4, <1>5, <1>6, <2>1
  <2>2. ASSUME ext.generation = Copy.gen + 1
        PROVE  HoldsIn(Copy.res, i) \/ i = ext.last
    BY <1>4, <1>5, <1>6, <2>2
  <2>3. QED
    BY <1>1, <2>1, <2>2 DEF BehindCopy, Vouched, Same, Ahead, HoldsIn, Copy
<1>8. Descends'
  BY <1>1, DescendsKept DEF BehindCopy
<1>9. DispatchMoves'
  BY <1>1 DEF BehindCopy, DispatchMoves, HoldsIn, InState, Copy
<1>10. NothingSentSince'
  BY <1>1, <1>6 DEF BehindCopy, NothingSentSince, HoldsIn, Copy
<1>11. QED
  BY <1>3, <1>7, <1>8, <1>9, <1>10, HeldBehind, PTL

\* A file that is not trusted has nothing prepared: the record leaves the file
\* and its copy behind, and names no dispatch.
LEMMA AnchorBehind ==
  ASSUME Behind, UNCHANGED snap, AdoptAnchor
  PROVE  BehindCopy'
<1> USE DEF Behind
<1>1. UNCHANGED <<res, gen, cum, trust, sent>> /\ trust \notin {Down, "Trusted"}
  BY DEF AdoptAnchor, Running, books, meta, history
<1>2. ext'.generation = BiggerOf(gen, ext.generation) + 1 /\ ext'.last = 0
  BY DEF AdoptAnchor
<1>3. gen \in Nat /\ Copy.gen \in Nat /\ Copy.gen <= gen /\ ext'.generation > gen
  BY <1>2, RecordTypes, CopyTypes DEF BehindCopy, Descends, BiggerOf
<1>4. 0 \notin DOMAIN res /\ DOMAIN Copy.res \subseteq DOMAIN res
  BY DEF BehindCopy, Descends, TypeInv, TypeOK, Id
<1>5. Vouched(res, gen, cum)' /\ Vouched(Copy.res, Copy.gen, Copy.cum)'
  BY <1>1, <1>2, <1>3, <1>4 DEF Vouched, Same, Ahead, Copy
<1>6. (trust \in {"Trusted", "UncleanShutdown"} => Held)' /\ NeverReleased'
  BY <1>1 DEF BehindCopy, Held, NeverReleased
<1>7. Descends'
  BY <1>1, DescendsKept DEF BehindCopy
<1>8. DispatchMoves'
  BY <1>1 DEF NothingPrepared, DispatchMoves, InState
<1>9. NothingSentSince'
  BY <1>1 DEF NothingSentSince
<1>10. QED
  BY <1>5, <1>6, <1>7, <1>8, <1>9 DEF BehindCopy

\* Adoption gives up the rows the file does not have; those it has were never
\* released.
LEMMA AdoptBehind ==
  ASSUME Behind, UNCHANGED snap,
         NEW e \in Epoch, NEW report \in [Pool -> Reports], AdoptCommit(e, report)
  PROVE  BehindCopy'
<1> USE DEF Behind
<1>1. /\ UNCHANGED <<res, ext>> /\ sent' = sent \cap DOMAIN res
      /\ gen' = ext.generation /\ ext.generation > gen /\ trust # Down
  BY DEF AdoptCommit, RecordLeads
<1>2. gen \in Nat /\ Copy.gen \in Nat /\ Copy.gen <= gen /\ ext.generation \in Int
  BY RecordTypes, CopyTypes DEF BehindCopy, Descends
<1>3. Held'
  <2>1. ASSUME NEW i \in sent \cap DOMAIN res
        PROVE  res[i].state \in Accounted
    <3>1. CASE trust = "Trusted"
      BY <3>1 DEF BehindCopy, Held
    <3>2. CASE trust # "Trusted"
      <4>1. res[i].state \notin {"RESERVED", "RELEASED_UNSENT"}
        BY <1>1, <3>2 DEF NothingPrepared, InState, BehindCopy, NeverReleased
      <4>2. res[i].state \in State
        BY DEF TypeInv, TypeOK, Group
      <4>3. QED
        BY <4>1, <4>2 DEF State, Active, Accounted, PossiblySent
    <3>3. QED
      BY <3>1, <3>2
  <2>2. QED
    BY <1>1, <2>1 DEF Held
<1>4. Vouched(Copy.res, Copy.gen, Copy.cum)'
  BY <1>1 DEF BehindCopy, Vouched, Same, Ahead, HoldsIn, Copy
<1>5. Descends'
  BY <1>1, <1>2 DEF BehindCopy, Descends, Copy
<1>6. DispatchMoves'
  <2>1. Copy.gen # gen'
    BY <1>1, <1>2
  <2>2. Copy.gen + 1 = gen' => Copy.gen = gen
    BY <1>1, <1>2
  <2>3. InState("DISPATCHING")' = InState("DISPATCHING")
    BY <1>1 DEF InState
  <2>4. Copy' = Copy
    BY DEF Copy
  <2>5. QED
    BY <2>1, <2>2, <2>3, <2>4 DEF BehindCopy, DispatchMoves, HoldsIn
<1>7. NothingSentSince'
  <2>1. Copy.gen # gen'
    BY <1>1, <1>2
  <2>2. QED
    BY <2>1 DEF NothingSentSince, Copy
<1>8. QED
  BY <1>3, <1>4, <1>5, <1>6, <1>7, HeldBehind, PTL

LEMMA CrashBehind ==
  ASSUME Behind, UNCHANGED snap, Crash
  PROVE  BehindCopy'
<1> USE DEF Behind
<1>1. UNCHANGED <<res, gen, cum, ext, sent>> /\ trust' = Down
  BY DEF Crash, books, meta, history
<1>2. Vouched(res, gen, cum)' /\ Vouched(Copy.res, Copy.gen, Copy.cum)'
  BY <1>1 DEF BehindCopy, Vouched, Same, Ahead, HoldsIn, Copy
<1>3. NeverReleased' /\ Descends' /\ DispatchMoves'
  BY <1>1 DEF BehindCopy, NeverReleased, Descends, DispatchMoves, HoldsIn, InState, Copy
<1>4. QED
  BY <1>1, <1>2, <1>3 DEF BehindCopy, NothingSentSince, Down

\* open leaves nothing reserved or being dispatched, and what may have been
\* sent stays as it was or becomes unknown.
LEMMA OpenRows ==
  ASSUME TypeInv, Open
  PROVE  /\ UNCHANGED <<ext, sent>> /\ DOMAIN res' = DOMAIN res /\ trust' = Assessment
         /\ \A i \in DOMAIN res :
              /\ res[i].state \in Accounted => res'[i].state \in Accounted
              /\ res[i].state = "RELEASED_UNSENT" => res'[i].state = "RELEASED_UNSENT"
              /\ res'[i].state \notin {"RESERVED", "DISPATCHING"}
              /\ i \in Promoted /\ res[i].state = "RESERVED" => res'[i].state \in Accounted
              /\ Unsent = {} /\ res'[i].state = "RELEASED_UNSENT" => res[i].state = "RELEASED_UNSENT"
<1>1. UNCHANGED <<ext, sent>> /\ DOMAIN res' = DOMAIN res /\ trust' = Assessment
  BY DEF Open, history
<1>2. ASSUME NEW i \in DOMAIN res
      PROVE  /\ res[i].state \in Accounted => res'[i].state \in Accounted
             /\ res[i].state = "RELEASED_UNSENT" => res'[i].state = "RELEASED_UNSENT"
             /\ res'[i].state \notin {"RESERVED", "DISPATCHING"}
             /\ i \in Promoted /\ res[i].state = "RESERVED" => res'[i].state \in Accounted
             /\ Unsent = {} /\ res'[i].state = "RELEASED_UNSENT" => res[i].state = "RELEASED_UNSENT"
  <2>1. res[i] \in Group
    BY DEF TypeInv, TypeOK
  <2>2. CASE i \in Unsent
    <3>1. res'[i].state = "RELEASED_UNSENT" /\ res[i].state = "RESERVED" /\ i \notin Promoted
      BY <2>1, <2>2 DEF Open, Group, Unsent, InState
    <3>2. QED
      BY <2>2, <3>1 DEF Accounted, PossiblySent
  <2>3. CASE i \in (InState("RESERVED") \cup InState("DISPATCHING")) \ Unsent
    <3>1. /\ res'[i].state = "DISPATCHED_ID_UNKNOWN"
          /\ res[i].state \in {"RESERVED", "DISPATCHING"}
      BY <2>1, <2>3 DEF Open, Group, InState
    <3>2. QED
      BY <3>1 DEF Accounted, PossiblySent
  <2>4. CASE i \notin Unsent \cup InState("RESERVED") \cup InState("DISPATCHING")
    <3>1. res'[i] = res[i] /\ res[i].state \notin {"RESERVED", "DISPATCHING"}
      BY <2>4 DEF Open, InState
    <3>2. QED
      BY <3>1
  <2>5. QED
    BY <2>2, <2>3, <2>4
<1>3. QED
  BY <1>1, <1>2

\* A file is trusted only if the record is its own, or that of its next dispatch.
LEMMA TrustedFile ==
  ASSUME TypeInv, Interpretable
  PROVE  \/ Same(gen, cum) /\ Gap = 0
         \/ Ahead(res, gen, cum) /\ Gap = 1
<1>1. ext.generation \in Int /\ gen \in Nat /\ ext.cumulative \in Nat /\ cum \in Nat
  BY RecordTypes
<1>2. /\ ext # Unreadable /\ ext # NoRecord /\ ~(ext.generation < gen)
      /\ ~(Gap = 0 /\ ext.cumulative # cum)
      /\ ~(Gap > 1 \/ (Gap = 1 /\ ~Explained))
  BY DEF Interpretable, Assessment
<1>3. Gap \in {0, 1}
  BY <1>1, <1>2 DEF Gap
<1>4. CASE Gap = 0
  BY <1>1, <1>2, <1>4 DEF Gap, Same
<1>5. CASE Gap = 1
  BY <1>1, <1>2, <1>5 DEF Gap, Ahead, Explained, InState
<1>6. QED
  BY <1>3, <1>4, <1>5

LEMMA OpenBehind ==
  ASSUME Behind, UNCHANGED snap, Open
  PROVE  BehindCopy'
<1> USE DEF Behind
<1>1. UNCHANGED <<ext, sent>> /\ DOMAIN res' = DOMAIN res /\ trust' = Assessment
  BY OpenRows
<1>2. gen \in Nat /\ Copy.gen \in Nat /\ Copy.gen <= gen /\ ext.generation \in Int
  BY RecordTypes, CopyTypes DEF BehindCopy, Descends
<1>3. Vouched(Copy.res, Copy.gen, Copy.cum)'
  BY <1>1, VouchedKept DEF BehindCopy
<1>4. DispatchMoves'
  BY OpenRows DEF DispatchMoves, InState
<1>5. CASE Interpretable
  <2>1. PICK due \in {0, 1} :
          /\ Gap = due
          /\ due = 0 => Same(gen, cum)
          /\ due = 1 => Ahead(res, gen, cum)
    BY <1>5, TrustedFile
  <2>2. Promoted = IF due = 1 THEN {ext.last} ELSE {}
    BY <1>5, <2>1 DEF Promoted
  <2>3. /\ gen' = ext.generation /\ (due = 0 => gen' = gen /\ cum' = cum)
        /\ (due = 1 => gen' = gen + 1)
    BY <1>2, <2>1, <2>2 DEF Open, Same, Ahead
  <2>4. Held'
    <3>1. ASSUME NEW i \in sent
          PROVE  \/ HoldsIn(res, i)
                 \/ i \in DOMAIN res \cap Promoted /\ res[i].state = "RESERVED"
      <4>1. Vouched(res, gen, cum)
        BY DEF BehindCopy
      <4>2. CASE due = 0
        <5>1. Same(gen, cum)
          BY <2>1, <4>2
        <5>2. QED
          BY <4>1, <5>1 DEF Vouched
      <4>3. CASE due = 1
        <5>1. Ahead(res, gen, cum) /\ Promoted = {ext.last}
          BY <2>1, <2>2, <4>3
        <5>2. HoldsIn(res, i) \/ i = ext.last
          BY <4>1, <5>1 DEF Vouched
        <5>3. QED
          BY <5>1, <5>2 DEF Ahead
      <4>4. QED
        BY <4>2, <4>3
    <3>2. QED
      BY <1>1, <3>1, OpenRows DEF Held, HoldsIn
  <2>5. Descends'
    <3>1. Copy.gen <= gen' /\ (Copy.gen = gen' => gen' = gen /\ cum' = cum)
      BY <1>2, <2>1, <2>3
    <3>2. QED
      BY <1>1, <3>1, OpenRows DEF BehindCopy, Descends, Copy
  <2>6. NothingSentSince'
    <3>1. ASSUME Copy.gen = gen'
          PROVE  \A i \in sent : HoldsIn(Copy.res, i)
      <4>1. due = 0
        BY <1>2, <2>1, <2>3, <3>1
      <4>2. Copy.cum = cum /\ Copy.gen = gen
        BY <2>3, <3>1, <4>1 DEF BehindCopy, Descends
      <4>3. Same(Copy.gen, Copy.cum)
        BY <2>1, <4>1, <4>2
      <4>4. QED
        BY <4>3 DEF BehindCopy, Vouched
    <3>2. QED
      BY <1>1, <3>1 DEF NothingSentSince, HoldsIn, Copy
  <2>7. QED
    BY <1>3, <1>4, <2>4, <2>5, <2>6, HeldBehind, PTL
<1>6. CASE ~Interpretable
  <2>1. Unsent = {} /\ Promoted = {}
    BY <1>6 DEF Unsent, Promoted
  <2>2. UNCHANGED <<gen, cum>>
    BY <2>1 DEF Open
  <2>3. trust' \notin {"Trusted", "UncleanShutdown"}
    BY <1>1, <1>6 DEF Interpretable
  <2>4. NeverReleased'
    BY <1>1, <2>1, OpenRows DEF BehindCopy, NeverReleased
  <2>5. Vouched(res, gen, cum)'
    BY <1>1, <2>2, OpenRows DEF BehindCopy, Vouched, Same, Ahead, HoldsIn
  <2>6. Descends'
    BY <1>1, <2>2, OpenRows, DescendsKept DEF BehindCopy
  <2>7. QED
    BY <1>3, <1>4, <2>3, <2>4, <2>5, <2>6 DEF BehindCopy, NothingSentSince
<1>7. QED
  BY <1>5, <1>6

LEMMA NextSent ==
  ASSUME BooksInv, SentInv, [Next]_vars, UNCHANGED snap
  PROVE  SentInv'
<1>1. NothingPrepared' /\ RecordLeads'
  BY NextPrepared DEF BooksInv, SentInv
<1>2. CASE ~CopiedLedger
  <2>1. Held'
    BY <1>2, NextHeld DEF BooksInv, SentInv
  <2>2. QED
    BY <1>1, <1>2, <2>1 DEF SentInv, CopiedLedger
<1>3. CASE CopiedLedger
  <2>1. Behind
    BY <1>3 DEF BooksInv, SentInv, Behind
  <2>2. BehindCopy'
    <3>1. CASE Quietly
      BY <2>1, <3>1, QuietBehind
    <3>2. ASSUME NEW id \in Id, NEW m \in Model, NEW l \in Liabilities, Reserve(id, m, l)
          PROVE  BehindCopy'
      BY <2>1, <3>2, ReserveBehind
    <3>3. ASSUME NEW i \in DOMAIN res, BeginDispatch(i)
          PROVE  BehindCopy'
      BY <2>1, <3>3, BeginBehind
    <3>4. ASSUME NEW i \in DOMAIN res, Send(i)
          PROVE  BehindCopy'
      BY <2>1, <3>4, SendBehind
    <3>5. ASSUME NEW e \in Epoch, NEW report \in [Pool -> Reports], AdoptCommit(e, report)
          PROVE  BehindCopy'
      BY <2>1, <3>5, AdoptBehind
    <3>6. CASE CommitDispatch \/ AdoptAnchor \/ Crash \/ Open
      BY <2>1, <3>6, CommitBehind, AnchorBehind, CrashBehind, OpenBehind
    <3>7. QED
      BY <3>1, <3>2, <3>3, <3>4, <3>5, <3>6, QuietlyOrLoud DEF Loud, BooksInv
  <2>3. QED
    BY <1>1, <1>3, <2>2 DEF SentInv, CopiedLedger
<1>4. QED
  BY <1>2, <1>3

-----------------------------------------------------------------------------
(* What was sent, under every fault                                        *)

LEMMA CopyLedgerSent ==
  ASSUME BooksInv, SentInv, CopyLedger
  PROVE  SentInv'
<1>1. /\ UNCHANGED <<res, gen, cum, ext, trust, pending, sent>>
      /\ Copy'.res = res /\ Copy'.gen = gen /\ Copy'.cum = cum
      /\ snap'.of = "ledger" /\ snap.of = "none"
  BY DEF CopyLedger, vars, books, meta, process, history, Copy, File, NoCopy
<1>2. Held
  BY <1>1 DEF SentInv, CopiedLedger
<1>3. Held' /\ NothingPrepared' /\ RecordLeads'
  BY <1>1, <1>2 DEF SentInv, Held, NothingPrepared, RecordLeads, InState
<1>4. \A i \in sent : HoldsIn(res, i)
  BY <1>2 DEF Held, HoldsIn
<1>5. Vouched(Copy.res, Copy.gen, Copy.cum)' /\ NothingSentSince'
  BY <1>1, <1>4 DEF Vouched, NothingSentSince, HoldsIn
<1>6. Descends'
  <2>1. gen <= gen
    BY RecordTypes DEF BooksInv
  <2>2. QED
    BY <1>1, <2>1 DEF Descends
<1>7. DispatchMoves'
  BY <1>1 DEF DispatchMoves, InState, HoldsIn, Accounted, PossiblySent
<1>8. BehindCopy'
  BY <1>3, <1>5, <1>6, <1>7, HeldBehind, PTL
<1>9. QED
  BY <1>1, <1>3, <1>8 DEF SentInv, CopiedLedger

LEMMA RestoreLedgerSent ==
  ASSUME BooksInv, SentInv, RestoreLedger
  PROVE  SentInv'
<1>1. /\ res' = Copy.res /\ gen' = Copy.gen /\ cum' = Copy.cum
      /\ UNCHANGED <<ext, trust, pending, sent, snap>> /\ trust = Down /\ CopiedLedger
  BY DEF RestoreLedger, process, Copy, CopiedLedger
<1>2. Behind /\ pending = Idle
  BY <1>1 DEF BooksInv, SentInv, Behind, TypeInv, PendingOK
<1>3. NothingPrepared' /\ RecordLeads'
  BY <1>1, <1>2 DEF NothingPrepared, RecordLeads, Down, Idle
<1>4. NeverReleased'
  BY <1>1, <1>2 DEF Behind, BehindCopy, Descends, NeverReleased
<1>5. Vouched(res, gen, cum)' /\ Vouched(Copy.res, Copy.gen, Copy.cum)'
  BY <1>1, <1>2 DEF Behind, BehindCopy, Vouched, Same, Ahead, HoldsIn, Copy
<1>6. Descends'
  <2>1. Copy.gen <= Copy.gen
    BY <1>2, CopyTypes
  <2>2. Copy' = Copy
    BY <1>1 DEF Copy
  <2>3. QED
    BY <1>1, <2>1, <2>2 DEF Descends
<1>7. DispatchMoves'
  <2>1. Copy' = Copy
    BY <1>1 DEF Copy
  <2>2. QED
    BY <1>1, <2>1 DEF DispatchMoves, InState, HoldsIn, Accounted, PossiblySent
<1>8. BehindCopy'
  BY <1>1, <1>4, <1>5, <1>6, <1>7 DEF BehindCopy, NothingSentSince, Down
<1>9. QED
  BY <1>1, <1>3, <1>8 DEF SentInv, CopiedLedger

LEMMA SpoilSent ==
  ASSUME BooksInv, SentInv, NEW record \in {NoRecord, Unreadable}, SpoilExternal(record)
  PROVE  SentInv'
<1>1. /\ UNCHANGED <<res, gen, cum, trust, pending, sent, snap>> /\ trust = Down
      /\ ext'.generation < 0
  BY DEF SpoilExternal, books, meta, process, history, NoRecord, Unreadable
<1>2. pending = Idle
  BY <1>1 DEF BooksInv, TypeInv, PendingOK
<1>3. NothingPrepared' /\ RecordLeads'
  BY <1>1, <1>2 DEF NothingPrepared, RecordLeads, Down, Idle
<1>4. Held => Held'
  BY <1>1 DEF Held
<1>5. CASE ~CopiedLedger
  BY <1>1, <1>3, <1>4, <1>5 DEF SentInv, CopiedLedger
<1>6. CASE CopiedLedger
  <2>1. Behind
    BY <1>6 DEF BooksInv, SentInv, Behind
  <2>2. gen \in Nat /\ Copy.gen \in Nat /\ Copy' = Copy
    BY <1>1, <2>1, RecordTypes, CopyTypes DEF Behind, Copy
  <2>3. Vouched(res, gen, cum)' /\ Vouched(Copy.res, Copy.gen, Copy.cum)'
    BY <1>1, <2>2 DEF Vouched, Same, Ahead
  <2>4. NeverReleased' /\ Descends'
    BY <1>1, <2>1, <2>2 DEF Behind, BehindCopy, NeverReleased, Descends
  <2>5. DispatchMoves'
    <3>1. ext'.generation # gen
      BY <1>1, <2>2
    <3>2. DispatchMoves
      BY <2>1 DEF Behind, BehindCopy
    <3>3. QED
      BY <1>1, <2>2, <3>1, <3>2 DEF DispatchMoves, InState, HoldsIn
  <2>6. BehindCopy'
    BY <1>1, <2>3, <2>4, <2>5 DEF BehindCopy, NothingSentSince, Down
  <2>7. QED
    BY <1>1, <1>3, <1>6, <2>6 DEF SentInv, CopiedLedger
<1>7. QED
  BY <1>5, <1>6

LEMMA NextRollback == BooksInv /\ SentInv /\ [RollbackNext]_rollbackVars => SentInv'
<1> SUFFICES ASSUME BooksInv, SentInv, [RollbackNext]_rollbackVars PROVE SentInv'
  OBVIOUS
<1>1. CASE (Next /\ UNCHANGED snap) \/ UNCHANGED rollbackVars
  <2>1. [Next]_vars /\ UNCHANGED snap
    BY <1>1 DEF rollbackVars
  <2>2. QED
    BY <2>1, NextSent
<1>2. CASE CopyLedger
  BY <1>2, CopyLedgerSent
<1>3. CASE CopyExternal
  <2>1. /\ UNCHANGED <<res, gen, ext, trust, pending, sent>>
        /\ snap'.of = "external" /\ snap.of = "none"
    BY <1>3 DEF CopyExternal, vars, books, meta, process, history, NoCopy
  <2>2. QED
    BY <2>1 DEF SentInv, CopiedLedger, Held, NothingPrepared, RecordLeads, InState
<1>4. CASE RestoreLedger
  BY <1>4, RestoreLedgerSent
<1>5. CASE RestoreExternal
  <2>1. /\ UNCHANGED <<res, gen, trust, pending, sent, snap>> /\ trust = Down
        /\ snap.of = "external"
    BY <1>5 DEF RestoreExternal, books, meta, process, history
  <2>2. pending = Idle
    BY <2>1 DEF BooksInv, TypeInv, PendingOK
  <2>3. QED
    BY <2>1, <2>2 DEF SentInv, CopiedLedger, Held, NothingPrepared, RecordLeads, Idle, Down
<1>6. ASSUME NEW record \in {NoRecord, Unreadable}, SpoilExternal(record)
      PROVE  SentInv'
  BY <1>6, SpoilSent
<1>7. QED
  BY <1>1, <1>2, <1>3, <1>4, <1>5, <1>6 DEF RollbackNext

LEMMA InitSent == RollbackInit => SentInv
<1> SUFFICES ASSUME RollbackInit PROVE SentInv
  OBVIOUS
<1>1. Init /\ snap.of = "none"
  BY DEF RollbackInit, NoCopy
<1>2. QED
  BY <1>1 DEF Init, SentInv, CopiedLedger, Held, NothingPrepared, RecordLeads, Idle, Down

\* A file put back from an older copy is not believed about what was sent: a
\* ledger that believes its rows accounts for every request whose bytes may
\* have left, whatever was restored or lost, and when.
THEOREM SentHeldRolledBack == RollbackSpec => []SentIsHeld
<1>1. SentInv => SentIsHeld
  BY DEF SentInv, BehindCopy, Held, SentIsHeld
<1>2. BooksInv /\ SentInv /\ [RollbackNext]_rollbackVars => BooksInv' /\ SentInv'
  BY NextBooks, NextRollback
<1>3. RollbackInit => BooksInv /\ SentInv
  BY InitBooks, InitSent
<1>4. QED
  BY <1>1, <1>2, <1>3, PTL DEF RollbackSpec
=============================================================================
