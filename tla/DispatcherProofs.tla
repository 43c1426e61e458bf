-------------------------- MODULE DispatcherProofs --------------------------
(* Proofs about Dispatcher, for every number of requests, ledger failures  *)
(* and restarts, and that it implements Promise.                           *)
EXTENDS Dispatcher, WellFoundedInduction, TLAPS

-----------------------------------------------------------------------------
(* The inductive invariant                                                 *)

\* Where a supervisor is tells which states its reservation can be in.
RowFits(r) ==
  /\ At(r, "none") <=> row[r] = Absent
  /\ task[r].pc \in {"admitted", "start", "abort"} => row[r] = "RESERVED"
  /\ task[r].pc \in {"post", "wait"} => row[r] = "DISPATCHING"
  /\ task[r].pc \in {"relay", "chunk"} =>
       row[r] \in IF task[r].id
                  THEN {"DISPATCHED_WITH_ID", "SETTLED", "CONSUMED_UNRECOVERABLE"}
                  ELSE {"DISPATCHING"}
  /\ task[r].id => task[r].pc \in {"relay", "chunk"}
  /\ task[r].settled => task[r].id /\ row[r] \in {"SETTLED", "CONSUMED_UNRECOVERABLE"}

\* What the reservation's state tells of the provider.
ProvFits(r) ==
  /\ row[r] \in {Absent, "RESERVED", "RELEASED_UNSENT"} => prov[r] = "none"
  /\ row[r] = "REJECTED_BEFORE_PROCESSING" => prov[r] = "refused"
  /\ row[r] \in {"DISPATCHED_WITH_ID"} => prov[r] \in {"running", "ended"}
  /\ row[r] = "SETTLED" => prov[r] = "ended"
  /\ At(r, "post") => prov[r] = "none"
  /\ task[r].pc \in {"relay", "chunk"} => prov[r] \in {"running", "ended"}

\* What a supervisor has said when it ended.
ToldFits(r) ==
  /\ head[r] = "NotSent" => At(r, "ended") /\ prov[r] = "none"
  /\ disp[r] # "None" => At(r, "ended")
  /\ disp[r] \in DOMAIN LeavesIn => row[r] \in LeavesIn[disp[r]]

Fits(r) == RowFits(r) /\ ProvFits(r) /\ ToldFits(r)

\* What the worker read may be stale, but only because the row has ended.
SweepFits(r) ==
  /\ sweep[r].state = "DISPATCHED_WITH_ID" =>
       row[r] \in {"DISPATCHED_WITH_ID", "SETTLED", "CONSUMED_UNRECOVERABLE"}
  /\ sweep[r].state = "DISPATCHED_ID_UNKNOWN" =>
       row[r] \in {"DISPATCHED_ID_UNKNOWN", "CONSUMED_UNRECOVERABLE"}

WorkerFits ==
  /\ \A r \in Swept : SweepFits(r)
  /\ asking => sweep[First].state = "DISPATCHED_WITH_ID"

Inv == TypeOK /\ (\A r \in Request : Fits(r)) /\ WorkerFits

-----------------------------------------------------------------------------
(* Lemmas                                                                  *)

LEMMA LeastRequest ==
  ASSUME NEW S, S \subseteq Request, S # {}
  PROVE  \E r \in S : \A q \in S : r <= q
<1>1. S \subseteq Nat
  BY DispatcherAssumption DEF Request
<1> DEFINE Below == {ss \in Nat \X Nat : ss[1] < ss[2]}
<1>2. IsWellFoundedOn(Below, Nat)
  BY NatLessThanWellFounded, Zenon DEF OpToRel
<1>3. PICK r \in S : \A q \in S : ~(<<q, r>> \in Below)
  <2> HIDE DEF Below
  <2> QED
    BY <1>1, <1>2, WFMin
<1>4. ASSUME NEW q \in S, q < r  PROVE FALSE
  <2>1. <<q, r>> \in Nat \X Nat /\ <<q, r>>[1] < <<q, r>>[2]
    BY <1>1, <1>4
  <2>2. <<q, r>> \in Below
    BY <2>1, Zenon
  <2>3. QED
    BY <1>3, <2>2
<1>5. QED
  BY <1>1, <1>4

\* The first of the dispatches left to a pass is one of them.
LEMMA FirstSwept ==
  ASSUME TypeOK, Swept # {}
  PROVE  First \in Swept /\ First \in Request
<1>1. Swept \subseteq Request
  BY DEF TypeOK
<1>2. \E r \in Swept : \A q \in Swept : r <= q
  BY <1>1, LeastRequest
<1>3. QED
  BY <1>1, <1>2 DEF First

\* A ledger operation moves one reservation between allowed states.
LEMMA AppliesMoves ==
  ASSUME TypeOK, NEW r \in Request, NEW t \in DOMAIN AllowedFrom, Applies(r, t)
  PROVE  /\ row' \in [Request -> {Absent} \cup Active \cup Terminal]
         /\ failures' = failures
         /\ \A q \in Request \ {r} : row'[q] = row[q]
         /\ row[r] \in AllowedFrom[t]
         /\ row'[r] \in Target[t]
<1>1. \A s \in Target[t] : s \in Active \cup Terminal
  BY DEF AllowedFrom, Target, Active, Terminal, PossiblySent
<1>2. PICK s \in Target[t] : row' = [row EXCEPT ![r] = s]
  BY DEF Applies
<1>3. QED
  BY <1>1, <1>2 DEF Applies, TypeOK

LEMMA ErrsKeeps ==
  ASSUME TypeOK, NEW r \in Request, NEW t \in DOMAIN AllowedFrom, Errs(r, t)
  PROVE  row' = row /\ failures' \in 0..MaxFailures
BY DispatcherAssumption DEF TypeOK, Errs

-----------------------------------------------------------------------------
(* A step of one request                                                   *)

\* Nothing the invariant relates changes for the other requests.
Others(r) ==
  \A q \in Request \ {r} :
    /\ row'[q] = row[q] /\ task'[q] = task[q] /\ prov'[q] = prov[q]
    /\ head'[q] = head[q] /\ disp'[q] = disp[q]

Moves(r) ==
  \/ row'[r] = row[r]
  \/ row[r] = Absent
  \/ \E t \in DOMAIN AllowedFrom : row[r] \in AllowedFrom[t] /\ row'[r] \in Target[t]

Kept(r) == TypeOK' /\ Others(r) /\ Moves(r) /\ Fits(r)'

\* A step of one request that leaves the worker alone keeps the invariant.
LEMMA KeptIsEnough ==
  ASSUME Inv, NEW r \in Request, Kept(r), UNCHANGED worker
  PROVE  Inv'
<1>1. ASSUME NEW q \in Request PROVE Fits(q)'
  <2>1. CASE q = r
    BY <2>1 DEF Kept
  <2>2. CASE q # r
    BY <2>2 DEF Kept, Others, Inv, Fits, RowFits, ProvFits, ToldFits, At
  <2>3. QED
    BY <2>1, <2>2
<1>2. ASSUME NEW q \in Swept PROVE SweepFits(q)'
  <2>1. SweepFits(q) /\ q \in Request
    BY DEF Inv, WorkerFits, TypeOK
  <2>2. CASE q # r
    BY <2>1, <2>2 DEF Kept, Others, SweepFits, worker
  <2>3. CASE q = r
    BY <2>1, <2>3 DEF Kept, Moves, SweepFits, worker, AllowedFrom, Target, PossiblySent, Absent
  <2>4. QED
    BY <2>2, <2>3
<1>3. WorkerFits'
  BY <1>2 DEF WorkerFits, Inv, First, Swept, worker
<1>4. QED
  BY <1>1, <1>3 DEF Inv, Kept

\* The last ledger operation of a supervisor.
LEMMA FinallyEnds ==
  ASSUME TypeOK, NEW r \in Request, NEW t \in DOMAIN AllowedFrom,
         NEW d \in DOMAIN LeavesIn, Finally(r, t, d), Target[t] \subseteq LeavesIn[d]
  PROVE  /\ row' \in [Request -> {Absent} \cup Active \cup Terminal]
         /\ failures' \in 0..MaxFailures
         /\ task' = [task EXCEPT ![r] = Ended]
         /\ disp' \in [Request -> Disposition]
         /\ \A q \in Request \ {r} : row'[q] = row[q] /\ disp'[q] = disp[q]
         /\ disp'[r] \in DOMAIN LeavesIn => row'[r] \in LeavesIn[disp'[r]]
         /\ \/ row'[r] = row[r]
            \/ row[r] \in AllowedFrom[t] /\ row'[r] \in Target[t]
<1>1. CASE Applies(r, t) /\ Return(r, d)
  <2>1. /\ row' \in [Request -> {Absent} \cup Active \cup Terminal]
        /\ failures' = failures
        /\ \A q \in Request \ {r} : row'[q] = row[q]
        /\ row[r] \in AllowedFrom[t]
        /\ row'[r] \in Target[t]
    BY <1>1, AppliesMoves
  <2>2. d \in Disposition
    BY DEF LeavesIn, Disposition
  <2>3. disp'[r] = d
    BY <1>1 DEF Return, TypeOK
  <2>4. QED
    BY <1>1, <2>1, <2>2, <2>3 DEF Return, TypeOK
<1>2. CASE Errs(r, t) /\ Return(r, "LedgerFailed")
  <2>1. row' = row /\ failures' \in 0..MaxFailures
    BY <1>2, ErrsKeeps
  <2>2. "LedgerFailed" \in Disposition /\ "LedgerFailed" \notin DOMAIN LeavesIn
    BY DEF LeavesIn, Disposition
  <2>3. disp'[r] = "LedgerFailed"
    BY <1>2 DEF Return, TypeOK
  <2>4. QED
    BY <1>2, <2>1, <2>2, <2>3 DEF Return, TypeOK
<1>3. QED
  BY <1>1, <1>2 DEF Finally

LEMMA EndedOK ==
  Ended \in Task /\ Ended.pc = "ended" /\ Ended.id = FALSE /\ Ended.settled = FALSE
<1>1. ASSUME NEW n \in Task
      PROVE  LET e == [n EXCEPT !.pc = "ended"]
             IN  e \in Task /\ e.pc = "ended" /\ e.id = n.id /\ e.settled = n.settled
  BY DEF Task
<1>2. NotArrived \in Task /\ NotArrived.id = FALSE /\ NotArrived.settled = FALSE
  BY DEF Task, NotArrived
<1>3. QED
  BY <1>1, <1>2 DEF Ended

\* A supervisor whose last operation leaves the row where it says, and that
\* tells the client "not sent" only when the provider has nothing.
LEMMA FinallyKept ==
  ASSUME Inv, NEW r \in Request, NEW t \in DOMAIN AllowedFrom,
         NEW d \in DOMAIN LeavesIn, Finally(r, t, d), Target[t] \subseteq LeavesIn[d],
         t \notin {"BeginDispatch", "AttachResponseId", "Settle"},
         ~At(r, "none"), prov' = prov,
         t = "RejectBeforeProcessing" => prov[r] = "refused",
         NEW h \in {"None", "NotSent", "OutcomeUnknown", "Refused", "Stream"},
         head' = [head EXCEPT ![r] = h],
         h = "NotSent" => prov[r] = "none",
         UNCHANGED <<age, worker, restarts>>
  PROVE  Kept(r)
<1>1. /\ row' \in [Request -> {Absent} \cup Active \cup Terminal]
      /\ failures' \in 0..MaxFailures
      /\ task' = [task EXCEPT ![r] = Ended]
      /\ disp' \in [Request -> Disposition]
      /\ \A q \in Request \ {r} : row'[q] = row[q] /\ disp'[q] = disp[q]
      /\ disp'[r] \in DOMAIN LeavesIn => row'[r] \in LeavesIn[disp'[r]]
      /\ \/ row'[r] = row[r]
         \/ row[r] \in AllowedFrom[t] /\ row'[r] \in Target[t]
  BY FinallyEnds DEF Inv
<1>2. TypeOK'
  BY <1>1, EndedOK DEF Inv, TypeOK, worker, Swept
<1>3. Others(r) /\ Moves(r)
  BY <1>1 DEF Others, Moves, Inv, TypeOK
<1>4. task'[r] = Ended /\ head'[r] = h /\ prov'[r] = prov[r]
  BY <1>1 DEF Inv, TypeOK
<1>5. RowFits(r) /\ ProvFits(r) /\ ToldFits(r)
  BY DEF Inv, Fits
<1>6. RowFits(r)'
  BY <1>1, <1>4, <1>5, EndedOK DEF RowFits, At, AllowedFrom, Target, PossiblySent, Absent
<1>7. ProvFits(r)'
  BY <1>1, <1>4, <1>5, EndedOK DEF ProvFits, RowFits, At, AllowedFrom, Target, PossiblySent, Absent
<1>8. ToldFits(r)'
  BY <1>1, <1>4, <1>5, EndedOK DEF ToldFits, At
<1>9. QED
  BY <1>2, <1>3, <1>6, <1>7, <1>8 DEF Kept, Fits

-----------------------------------------------------------------------------
(* The supervisor's steps                                                  *)

\* What the steps that set several fields of a task make of it.
LEMMA TaskEdits ==
  ASSUME NEW n \in Task, NEW b \in BOOLEAN, NEW pc \in {"relay", "chunk"}
  PROVE  /\ [n EXCEPT !.conn = FALSE] \in Task
         /\ [n EXCEPT !.down = b] \in Task
         /\ [n EXCEPT !.late = b] \in Task
         /\ [n EXCEPT !.pc = "admitted", !.conn = TRUE, !.bg = b] \in Task
         /\ [n EXCEPT !.pc = "relay", !.down = b] \in Task
         /\ [n EXCEPT !.id = TRUE, !.pc = pc, !.down = b] \in Task
         /\ [n EXCEPT !.pc = "relay", !.settled = TRUE, !.down = b] \in Task
<1>1. [n EXCEPT !.conn = FALSE] \in Task
  BY DEF Task
<1>2. [n EXCEPT !.down = b] \in Task
  BY DEF Task
<1>3. [n EXCEPT !.late = b] \in Task
  BY DEF Task
<1>4. [n EXCEPT !.pc = "admitted", !.conn = TRUE, !.bg = b] \in Task
  BY DEF Task
<1>5. [n EXCEPT !.pc = "relay", !.down = b] \in Task
  BY DEF Task
<1>6. [n EXCEPT !.id = TRUE, !.pc = pc, !.down = b] \in Task
  BY DEF Task
<1>7. [n EXCEPT !.pc = "relay", !.settled = TRUE, !.down = b] \in Task
  BY DEF Task
<1>8. QED
  BY <1>1, <1>2, <1>3, <1>4, <1>5, <1>6, <1>7

LEMMA AdmitKept ==
  ASSUME Inv, NEW r \in Request, Admit(r)
  PROVE  Kept(r)
<1>1. TypeOK'
  <2>1. task' \in [Request -> Task]
    <3>1. PICK bg \in BOOLEAN :
            task' = [task EXCEPT ![r] = [@ EXCEPT !.pc = "admitted", !.conn = TRUE, !.bg = bg]]
      BY DEF Admit
    <3>2. [task[r] EXCEPT !.pc = "admitted", !.conn = TRUE, !.bg = bg] \in Task
      BY TaskEdits DEF Inv, TypeOK
    <3>3. QED
      BY <3>1, <3>2 DEF Inv, TypeOK
  <2>2. QED
    BY <2>1 DEF Admit, Inv, TypeOK, Active, worker, Swept
<1>2. Others(r) /\ Moves(r)
  BY DEF Admit, Others, Moves, Inv, TypeOK
<1>3. At(r, "none") /\ prov[r] = "none" /\ head[r] # "NotSent" /\ disp[r] = "None"
      /\ task[r].id = FALSE /\ task[r].settled = FALSE
  BY DEF Admit, Inv, Fits, RowFits, ProvFits, ToldFits, At, TypeOK, Task
<1>4. row'[r] = "RESERVED" /\ task'[r].pc = "admitted"
      /\ task'[r].id = FALSE /\ task'[r].settled = FALSE
  BY <1>3 DEF Admit, Inv, TypeOK
<1>5. Fits(r)'
  BY <1>3, <1>4 DEF Admit, Fits, RowFits, ProvFits, ToldFits, At, Absent, LeavesIn
<1>6. QED
  BY <1>1, <1>2, <1>5 DEF Kept

LEMMA SpawnKept ==
  ASSUME Inv, NEW r \in Request, Spawn(r)
  PROVE  Kept(r)
<1>1. TypeOK'
  BY DEF Spawn, GoTo, Inv, TypeOK, Task, worker, ledger, Swept
<1>2. Others(r) /\ Moves(r)
  BY DEF Spawn, GoTo, ledger, Others, Moves, Inv, TypeOK
<1>3. Fits(r)'
  BY DEF Spawn, GoTo, ledger, Inv, TypeOK, Task, Fits, RowFits, ProvFits, ToldFits, At
<1>4. QED
  BY <1>1, <1>2, <1>3 DEF Kept

LEMMA DisconnectKept ==
  ASSUME Inv, NEW r \in Request, Disconnect(r)
  PROVE  Kept(r)
<1>1. TypeOK'
  <2>1. [task[r] EXCEPT !.conn = FALSE] \in Task
    BY TaskEdits DEF Inv, TypeOK
  <2>2. QED
    BY <2>1, EndedOK DEF Disconnect, Inv, TypeOK, worker, ledger, Swept
<1>2. Others(r) /\ Moves(r)
  BY DEF Disconnect, ledger, Others, Moves, Inv, TypeOK
<1>3. Fits(r)'
  BY EndedOK DEF Disconnect, ledger, Inv, TypeOK, Task, Fits, RowFits, ProvFits, ToldFits, At, Absent
<1>4. QED
  BY <1>1, <1>2, <1>3 DEF Kept

LEMMA HoldBackKept ==
  ASSUME Inv, NEW r \in Request, HoldBack(r) \/ AbortDispatch(r)
  PROVE  Kept(r)
<1>1. Finally(r, "ReleaseUnsent", "ReleasedUnsent") /\ ~At(r, "none") /\ prov[r] = "none"
  BY DEF HoldBack, AbortDispatch, Inv, Fits, RowFits, ProvFits, At
<1>2. /\ "ReleaseUnsent" \in DOMAIN AllowedFrom
      /\ "ReleasedUnsent" \in DOMAIN LeavesIn
      /\ Target["ReleaseUnsent"] \subseteq LeavesIn["ReleasedUnsent"]
  BY DEF AllowedFrom, Target, LeavesIn
<1>3. head' = [head EXCEPT ![r] = "NotSent"] /\ prov' = prov /\ UNCHANGED <<age, worker, restarts>>
  BY DEF HoldBack, AbortDispatch, Tell
<1>4. QED
  BY <1>1, <1>2, <1>3, FinallyKept

LEMMA BeginKept ==
  ASSUME Inv, NEW r \in Request, Begin(r)
  PROVE  Kept(r)
<1>1. "BeginDispatch" \in DOMAIN AllowedFrom /\ Target["BeginDispatch"] = {"DISPATCHING"}
  BY DEF AllowedFrom, Target
<1>2. CASE Applies(r, "BeginDispatch") /\ GoTo(r, "post")
  <2>1. /\ row' \in [Request -> {Absent} \cup Active \cup Terminal]
        /\ failures' = failures
        /\ \A q \in Request \ {r} : row'[q] = row[q]
        /\ row[r] \in AllowedFrom["BeginDispatch"]
        /\ row'[r] = "DISPATCHING"
    BY <1>1, <1>2, AppliesMoves DEF Inv
  <2>2. TypeOK'
    <3>1. task' \in [Request -> Task]
      BY <1>2 DEF GoTo, Inv, TypeOK, Task
    <3>2. QED
      BY <2>1, <3>1 DEF Begin, Inv, TypeOK, worker, Swept
  <2>3. Others(r) /\ Moves(r)
    BY <1>1, <1>2, <2>1 DEF Begin, GoTo, Others, Moves, Inv, TypeOK
  <2>4. prov[r] = "none" /\ task[r].id = FALSE /\ task[r].settled = FALSE
        /\ head[r] # "NotSent" /\ disp[r] = "None"
    BY DEF Begin, Inv, Fits, RowFits, ProvFits, ToldFits, At, TypeOK, Task
  <2>5. Fits(r)'
    BY <1>2, <2>1, <2>4 DEF Begin, GoTo, Inv, TypeOK, Task, Fits, RowFits, ProvFits, ToldFits, At,
                            Absent, LeavesIn
  <2>6. QED
    BY <2>2, <2>3, <2>5 DEF Kept
<1>3. CASE Errs(r, "BeginDispatch") /\ GoTo(r, "abort")
  <2>1. row' = row /\ failures' \in 0..MaxFailures
    BY <1>1, <1>3, ErrsKeeps DEF Inv
  <2>2. TypeOK'
    <3>1. task' \in [Request -> Task]
      BY <1>3 DEF GoTo, Inv, TypeOK, Task
    <3>2. QED
      BY <2>1, <3>1 DEF Begin, Inv, TypeOK, worker, Swept
  <2>3. Others(r) /\ Moves(r)
    BY <1>3, <2>1 DEF Begin, GoTo, Others, Moves, Inv, TypeOK
  <2>4. Fits(r)'
    BY <1>3, <2>1 DEF Begin, GoTo, Inv, TypeOK, Task, Fits, RowFits, ProvFits, ToldFits, At
  <2>5. QED
    BY <2>2, <2>3, <2>4 DEF Kept
<1>4. QED
  BY <1>2, <1>3 DEF Begin

LEMMA PostKept ==
  ASSUME Inv, NEW r \in Request, Post(r)
  PROVE  Kept(r)
<1>1. TypeOK'
  BY DEF Post, GoTo, Inv, TypeOK, Task, worker, ledger, Swept
<1>2. Others(r) /\ Moves(r)
  BY DEF Post, GoTo, ledger, Others, Moves, Inv, TypeOK
<1>3. row[r] = "DISPATCHING" /\ task[r].id = FALSE /\ task[r].settled = FALSE
      /\ head[r] # "NotSent" /\ disp[r] = "None"
  BY DEF Post, Inv, Fits, RowFits, ToldFits, At, TypeOK, Task
<1>4. Fits(r)'
  BY <1>3 DEF Post, GoTo, ledger, Inv, TypeOK, Task, Fits, RowFits, ProvFits, ToldFits, At, Absent, LeavesIn
<1>5. QED
  BY <1>1, <1>2, <1>4 DEF Kept

LEMMA TransportErrorKept ==
  ASSUME Inv, NEW r \in Request, TransportError(r)
  PROVE  Kept(r)
<1>1. /\ "MarkIdUnknown" \in DOMAIN AllowedFrom
      /\ "HeldAsUnknown" \in DOMAIN LeavesIn
      /\ Target["MarkIdUnknown"] \subseteq LeavesIn["HeldAsUnknown"]
  BY DEF AllowedFrom, Target, LeavesIn
<1>2. /\ Finally(r, "MarkIdUnknown", "HeldAsUnknown") /\ ~At(r, "none")
      /\ head' = [head EXCEPT ![r] = "OutcomeUnknown"]
      /\ prov' = prov /\ UNCHANGED <<age, worker, restarts>>
  BY DEF TransportError, At, Tell
<1>3. QED
  BY <1>1, <1>2, FinallyKept

LEMMA AnsweredKept ==
  ASSUME Inv, NEW r \in Request, NEW status \in Status, Answered(r, status)
  PROVE  Kept(r)
<1>1. ~At(r, "none") /\ prov' = prov /\ UNCHANGED <<age, worker, restarts>>
  BY DEF Answered, At
<1>2. Decide(status) \in {"Settle", "ReleaseRejected", "HoldAsUnknown"}
  BY DEF Decide
<1>3. CASE Decide(status) = "Settle"
  <2>1. /\ task' = [task EXCEPT ![r] = [@ EXCEPT !.pc = "relay", !.down = task[r].conn]]
        /\ head' = [head EXCEPT ![r] = "Stream"]
        /\ UNCHANGED <<ledger, disp>>
    BY <1>3 DEF Answered, Tell
  <2>2. prov[r] \in {"running", "ended"}
    BY <1>3 DEF Answered, Answers, Decide
  <2>3. TypeOK'
    <3>1. task' \in [Request -> Task]
      <4>1. task[r] \in Task /\ task[r].conn \in BOOLEAN
        BY DEF Inv, TypeOK, Task
      <4>2. [task[r] EXCEPT !.pc = "relay", !.down = task[r].conn] \in Task
        BY <4>1, TaskEdits
      <4>3. QED
        BY <2>1, <4>2 DEF Inv, TypeOK
    <3>2. head' \in [Request -> {"None", "NotSent", "OutcomeUnknown", "Refused", "Stream"}]
      BY <2>1 DEF Inv, TypeOK
    <3>3. QED
      BY <1>1, <2>1, <3>1, <3>2 DEF Inv, TypeOK, worker, ledger, Swept
  <2>4. Others(r) /\ Moves(r)
    BY <1>1, <2>1 DEF ledger, Others, Moves, Inv, TypeOK
  <2>5. row[r] = "DISPATCHING" /\ task[r].id = FALSE /\ task[r].settled = FALSE /\ disp[r] = "None"
    BY DEF Answered, Inv, Fits, RowFits, ToldFits, At, TypeOK, Task
  <2>6. Fits(r)'
    BY <1>1, <2>1, <2>2, <2>5 DEF ledger, Inv, TypeOK, Task, Fits, RowFits, ProvFits, ToldFits, At,
                                  Absent, LeavesIn
  <2>7. QED
    BY <2>3, <2>4, <2>6 DEF Kept
<1>4. CASE Decide(status) = "ReleaseRejected"
  <2>1. /\ Finally(r, "RejectBeforeProcessing", "ReleasedRejected")
        /\ head' = [head EXCEPT ![r] = "Refused"]
    BY <1>4 DEF Answered, Tell
  <2>2. prov[r] = "refused"
    BY <1>4 DEF Answered, Answers, Decide, Refusals
  <2>3. /\ "RejectBeforeProcessing" \in DOMAIN AllowedFrom
        /\ "ReleasedRejected" \in DOMAIN LeavesIn
        /\ Target["RejectBeforeProcessing"] \subseteq LeavesIn["ReleasedRejected"]
    BY DEF AllowedFrom, Target, LeavesIn
  <2>4. QED
    BY <1>1, <2>1, <2>2, <2>3, FinallyKept
<1>5. CASE Decide(status) = "HoldAsUnknown"
  <2>1. /\ Finally(r, "MarkIdUnknown", "HeldAsUnknown")
        /\ head' = [head EXCEPT ![r] = "Refused"]
    BY <1>5 DEF Answered, Tell
  <2>2. /\ "MarkIdUnknown" \in DOMAIN AllowedFrom
        /\ "HeldAsUnknown" \in DOMAIN LeavesIn
        /\ Target["MarkIdUnknown"] \subseteq LeavesIn["HeldAsUnknown"]
    BY DEF AllowedFrom, Target, LeavesIn
  <2>3. QED
    BY <1>1, <2>1, <2>2, FinallyKept
<1>6. QED
  BY <1>2, <1>3, <1>4, <1>5

LEMMA GiveUpKept ==
  ASSUME Inv, NEW r \in Request, GiveUp(r) \/ StreamEnds(r)
  PROVE  Kept(r)
<1>1. /\ At(r, "relay")
      /\ prov' = prov /\ head' = head /\ UNCHANGED <<age, worker, restarts>>
      /\ \/ Return(r, "Settled") /\ UNCHANGED ledger /\ task[r].settled
         \/ Return(r, "AwaitingRetrieval") /\ UNCHANGED ledger /\ task[r].id
         \/ Finally(r, "Unrecoverable", "WrittenOff")
         \/ Finally(r, "MarkIdUnknown", "HeldAsUnknown")
  BY DEF GiveUp, GivesUp, StreamEnds, Selects
<1>2. /\ ~At(r, "none") /\ head[r] # "NotSent"
      /\ head[r] \in {"None", "NotSent", "OutcomeUnknown", "Refused", "Stream"}
      /\ head' = [head EXCEPT ![r] = head[r]]
  BY <1>1 DEF Inv, Fits, ToldFits, At, TypeOK
<1>3. ASSUME NEW d \in {"Settled", "AwaitingRetrieval"},
             Return(r, d), UNCHANGED ledger, row[r] \in LeavesIn[d]
      PROVE  Kept(r)
  <2>1. TypeOK'
    <3>1. d \in Disposition
      BY DEF Disposition
    <3>2. QED
      BY <1>1, <1>3, <3>1, EndedOK DEF Return, Inv, TypeOK, worker, ledger, Swept
  <2>2. Others(r) /\ Moves(r)
    BY <1>1, <1>3 DEF Return, ledger, Others, Moves, Inv, TypeOK
  <2>3. row'[r] = row[r] /\ prov'[r] = prov[r] /\ head'[r] = head[r]
        /\ task'[r] = Ended /\ disp'[r] = d
    BY <1>1, <1>3 DEF Return, ledger, Inv, TypeOK
  <2>4. RowFits(r)' /\ ProvFits(r)'
    BY <1>2, <2>3, EndedOK DEF Inv, Fits, RowFits, ProvFits, At
  <2>5. ToldFits(r)'
    BY <1>2, <1>3, <2>3, EndedOK DEF ToldFits, At
  <2>6. QED
    BY <2>1, <2>2, <2>4, <2>5 DEF Kept, Fits
<1>4. CASE Return(r, "Settled") /\ UNCHANGED ledger /\ task[r].settled
  <2>1. row[r] \in LeavesIn["Settled"]
    BY <1>4 DEF Inv, Fits, RowFits, LeavesIn
  <2>2. QED
    BY <1>3, <1>4, <2>1
<1>5. CASE Return(r, "AwaitingRetrieval") /\ UNCHANGED ledger /\ task[r].id
  <2>1. row[r] \in LeavesIn["AwaitingRetrieval"]
    BY <1>1, <1>5 DEF Inv, Fits, RowFits, LeavesIn, At
  <2>2. QED
    BY <1>3, <1>5, <2>1
<1>6. CASE Finally(r, "Unrecoverable", "WrittenOff")
  <2>1. /\ "Unrecoverable" \in DOMAIN AllowedFrom
        /\ "WrittenOff" \in DOMAIN LeavesIn
        /\ Target["Unrecoverable"] \subseteq LeavesIn["WrittenOff"]
    BY DEF AllowedFrom, Target, LeavesIn
  <2>2. QED
    BY <1>1, <1>2, <1>6, <2>1, FinallyKept
<1>7. CASE Finally(r, "MarkIdUnknown", "HeldAsUnknown")
  <2>1. /\ "MarkIdUnknown" \in DOMAIN AllowedFrom
        /\ "HeldAsUnknown" \in DOMAIN LeavesIn
        /\ Target["MarkIdUnknown"] \subseteq LeavesIn["HeldAsUnknown"]
    BY DEF AllowedFrom, Target, LeavesIn
  <2>2. QED
    BY <1>1, <1>2, <1>7, <2>1, FinallyKept
<1>8. QED
  BY <1>1, <1>4, <1>5, <1>6, <1>7

\* A supervisor that returns because its ledger operation failed.
LEMMA FailedKept ==
  ASSUME Inv, NEW r \in Request, NEW t \in DOMAIN AllowedFrom,
         Errs(r, t), Return(r, "LedgerFailed"), ~At(r, "none"),
         UNCHANGED <<age, head, worker, prov, restarts>>
  PROVE  Kept(r)
<1>1. row' = row /\ failures' \in 0..MaxFailures
  BY ErrsKeeps DEF Inv
<1>2. TypeOK'
  <2>1. "LedgerFailed" \in Disposition
    BY DEF Disposition
  <2>2. QED
    BY <1>1, <2>1, EndedOK DEF Return, Inv, TypeOK, worker, Swept
<1>3. Others(r) /\ Moves(r)
  BY <1>1 DEF Return, Others, Moves, Inv, TypeOK
<1>4. task'[r] = Ended /\ disp'[r] = "LedgerFailed"
  BY DEF Return, Inv, TypeOK
<1>5. RowFits(r)' /\ ProvFits(r)'
  BY <1>1, <1>4, EndedOK DEF Inv, Fits, RowFits, ProvFits, At
<1>6. ToldFits(r)'
  BY <1>4, EndedOK DEF Inv, Fits, ToldFits, At, LeavesIn
<1>7. QED
  BY <1>2, <1>3, <1>5, <1>6 DEF Kept, Fits

LEMMA ReadIdKept ==
  ASSUME Inv, NEW r \in Request, ReadId(r)
  PROVE  Kept(r)
<1>1. /\ At(r, "relay") /\ task[r].id = FALSE /\ prov[r] \in {"running", "ended"}
      /\ UNCHANGED <<age, head, worker, prov, restarts>>
  BY DEF ReadId, Selects, Inv, TypeOK, Task
<1>2. "AttachResponseId" \in DOMAIN AllowedFrom
      /\ Target["AttachResponseId"] = {"DISPATCHED_WITH_ID"}
  BY DEF AllowedFrom, Target
<1>3. CASE Errs(r, "AttachResponseId") /\ Return(r, "LedgerFailed")
  BY <1>1, <1>2, <1>3, FailedKept DEF At
<1>4. ASSUME Applies(r, "AttachResponseId"), disp' = disp,
             NEW pc \in {"relay", "chunk"}, NEW b \in BOOLEAN,
             task' = [task EXCEPT ![r] = [@ EXCEPT !.id = TRUE, !.pc = pc, !.down = b]]
      PROVE  Kept(r)
  <2>1. /\ row' \in [Request -> {Absent} \cup Active \cup Terminal]
        /\ failures' = failures
        /\ \A q \in Request \ {r} : row'[q] = row[q]
        /\ row[r] \in AllowedFrom["AttachResponseId"]
        /\ row'[r] = "DISPATCHED_WITH_ID"
    BY <1>2, <1>4, AppliesMoves DEF Inv
  <2>2. [task[r] EXCEPT !.id = TRUE, !.pc = pc, !.down = b] \in Task
    BY TaskEdits DEF Inv, TypeOK
  <2>3. TypeOK'
    BY <1>1, <1>4, <2>1, <2>2 DEF Inv, TypeOK, worker, Swept
  <2>4. Others(r) /\ Moves(r)
    BY <1>1, <1>2, <1>4, <2>1 DEF Others, Moves, Inv, TypeOK
  <2>5. task'[r].pc = pc /\ task'[r].id = TRUE /\ task'[r].settled = task[r].settled
    BY <1>4 DEF Inv, TypeOK, Task
  <2>6. task[r].settled = FALSE
    BY <1>1 DEF Inv, Fits, RowFits, TypeOK, Task
  <2>7. RowFits(r)' /\ ProvFits(r)'
    BY <1>1, <2>1, <2>5, <2>6 DEF RowFits, ProvFits, At, Absent
  <2>8. ToldFits(r)'
    BY <1>1, <1>4, <2>5 DEF Inv, Fits, ToldFits, At, LeavesIn
  <2>9. QED
    BY <2>3, <2>4, <2>7, <2>8 DEF Kept, Fits
<1>5. CASE /\ Applies(r, "AttachResponseId") /\ UNCHANGED disp
           /\ \E pc \in {"relay"} \cup (IF prov[r] = "ended" THEN {"chunk"} ELSE {}) :
                task' = [task EXCEPT ![r] = [@ EXCEPT !.id = TRUE, !.pc = pc,
                                              !.down = @ /\ (pc = "chunk" \/ task[r].conn)]]
  <2>1. PICK pc \in {"relay", "chunk"} :
          task' = [task EXCEPT ![r] = [@ EXCEPT !.id = TRUE, !.pc = pc,
                                        !.down = @ /\ (pc = "chunk" \/ task[r].conn)]]
    BY <1>5, Zenon
  <2>2. (task[r].down /\ (pc = "chunk" \/ task[r].conn)) \in BOOLEAN
    OBVIOUS
  <2>3. QED
    BY <1>4, <1>5, <2>1, <2>2
<1>6. QED
  BY <1>3, <1>5 DEF ReadId

LEMMA ReadTerminalKept ==
  ASSUME Inv, NEW r \in Request, ReadTerminal(r)
  PROVE  Kept(r)
<1>1. /\ task[r].pc \in {"relay", "chunk"} /\ task[r].id /\ prov[r] = "ended"
      /\ UNCHANGED <<age, head, worker, prov, restarts>>
  BY DEF ReadTerminal, Selects, At
<1>2. "Settle" \in DOMAIN AllowedFrom
      /\ Target["Settle"] = {"SETTLED", "CONSUMED_UNRECOVERABLE"}
  BY DEF AllowedFrom, Target
<1>3. CASE Errs(r, "Settle") /\ Return(r, "LedgerFailed")
  BY <1>1, <1>2, <1>3, FailedKept DEF At
<1>4. ASSUME Applies(r, "Settle"), disp' = disp, NEW b \in BOOLEAN,
             task' = [task EXCEPT ![r] = [@ EXCEPT !.pc = "relay", !.settled = TRUE, !.down = b]]
      PROVE  Kept(r)
  <2>1. /\ row' \in [Request -> {Absent} \cup Active \cup Terminal]
        /\ failures' = failures
        /\ \A q \in Request \ {r} : row'[q] = row[q]
        /\ row[r] \in AllowedFrom["Settle"]
        /\ row'[r] \in {"SETTLED", "CONSUMED_UNRECOVERABLE"}
    BY <1>2, <1>4, AppliesMoves DEF Inv
  <2>2. [task[r] EXCEPT !.pc = "relay", !.settled = TRUE, !.down = b] \in Task
    BY TaskEdits DEF Inv, TypeOK
  <2>3. TypeOK'
    BY <1>1, <1>4, <2>1, <2>2 DEF Inv, TypeOK, worker, Swept
  <2>4. Others(r) /\ Moves(r)
    BY <1>1, <1>2, <1>4, <2>1 DEF Others, Moves, Inv, TypeOK
  <2>5. task'[r].pc = "relay" /\ task'[r].id = task[r].id
    BY <1>4 DEF Inv, TypeOK, Task
  <2>6. RowFits(r)' /\ ProvFits(r)'
    BY <1>1, <2>1, <2>5 DEF RowFits, ProvFits, At, Absent
  <2>7. ToldFits(r)'
    BY <1>1, <1>4, <2>5 DEF Inv, Fits, ToldFits, At, LeavesIn
  <2>8. QED
    BY <2>3, <2>4, <2>6, <2>7 DEF Kept, Fits
<1>5. CASE Applies(r, "Settle") /\ UNCHANGED disp
           /\ task' = [task EXCEPT ![r] = [@ EXCEPT !.pc = "relay", !.settled = TRUE,
                                            !.down = @ /\ task[r].conn]]
  <2>1. (task[r].down /\ task[r].conn) \in BOOLEAN
    OBVIOUS
  <2>2. QED
    BY <1>4, <1>5, <2>1
<1>6. QED
  BY <1>3, <1>5 DEF ReadTerminal

LEMMA NoticeDisconnectKept ==
  ASSUME Inv, NEW r \in Request, NoticeDisconnect(r) \/ Deadline(r)
  PROVE  Kept(r)
<1>1. PICK n \in Task : /\ task' = [task EXCEPT ![r] = n]
                        /\ n.pc = task[r].pc /\ n.id = task[r].id
                        /\ n.settled = task[r].settled
  <2>1. [task[r] EXCEPT !.down = FALSE] \in Task /\ [task[r] EXCEPT !.late = TRUE] \in Task
    BY TaskEdits DEF Inv, TypeOK
  <2>2. \/ task' = [task EXCEPT ![r] = [task[r] EXCEPT !.down = FALSE]]
        \/ task' = [task EXCEPT ![r] = [task[r] EXCEPT !.late = TRUE]]
    BY DEF NoticeDisconnect, Deadline
  <2>3. task[r] \in Task
    BY DEF Inv, TypeOK
  <2>4. QED
    BY <2>1, <2>2, <2>3 DEF Task
<1>2. UNCHANGED <<ledger, age, head, disp, worker, prov, restarts>>
  BY DEF NoticeDisconnect, Deadline
<1>3. TypeOK'
  BY <1>1, <1>2 DEF Inv, TypeOK, worker, ledger, Swept
<1>4. Others(r) /\ Moves(r)
  BY <1>1, <1>2 DEF ledger, Others, Moves, Inv, TypeOK
<1>5. Fits(r)'
  BY <1>1, <1>2 DEF ledger, Inv, TypeOK, Fits, RowFits, ProvFits, ToldFits, At
<1>6. QED
  BY <1>3, <1>4, <1>5 DEF Kept

-----------------------------------------------------------------------------
(* Time and the provider                                                   *)

LEMMA GrowOldKept ==
  ASSUME Inv, NEW r \in Request, GrowOld(r)
  PROVE  Kept(r)
<1>1. TypeOK'
  BY DEF GrowOld, Inv, TypeOK, worker, ledger, supervisors, Swept
<1>2. Others(r) /\ Moves(r) /\ Fits(r)'
  BY DEF GrowOld, ledger, supervisors, Others, Moves, Inv, Fits, RowFits, ProvFits, ToldFits, At
<1>3. QED
  BY <1>1, <1>2 DEF Kept

LEMMA ProviderKept ==
  ASSUME Inv, NEW r \in Request,
         ProviderAccepts(r) \/ ProviderRefuses(r) \/ ProviderEnds(r)
  PROVE  Kept(r)
<1>1. PICK from \in {"flying", "running"}, to \in {"running", "refused", "ended"} :
        /\ ProviderTurns(r, from, to)
        /\ from = "running" => to = "ended"
        /\ from = "flying" => to # "ended"
  BY DEF ProviderAccepts, ProviderRefuses, ProviderEnds
<1>2. TypeOK'
  BY <1>1 DEF ProviderTurns, Inv, TypeOK, worker, ledger, supervisors, Swept
<1>3. Others(r) /\ Moves(r)
  BY <1>1 DEF ProviderTurns, ledger, supervisors, Others, Moves, Inv, TypeOK
<1>4. prov[r] = from /\ prov'[r] = to
  BY <1>1 DEF ProviderTurns, Inv, TypeOK
<1>5. Fits(r)'
  BY <1>1, <1>4 DEF ProviderTurns, ledger, supervisors, Inv, Fits, RowFits, ProvFits, ToldFits, At
<1>6. QED
  BY <1>2, <1>3, <1>5 DEF Kept

-----------------------------------------------------------------------------
(* The worker's steps                                                      *)

\* A pass loses its first dispatch, or is given up.
LEMMA SweepShrinks ==
  ASSUME TypeOK, NEW S \in SUBSET Swept, sweep' = [r \in S |-> sweep[r]]
  PROVE  /\ Swept' = S
         /\ Swept' \subseteq Request
         /\ sweep' \in [Swept' -> [state: {"DISPATCHED_WITH_ID", "DISPATCHED_ID_UNKNOWN"}, age: 0..2]]
         /\ \A r \in S : sweep'[r] = sweep[r]
BY DEF TypeOK, Swept

LEMMA NothingLeftShrinks ==
  ASSUME sweep' = NothingLeft
  PROVE  sweep' = [r \in {} |-> sweep[r]]
<1>1. [r \in {} |-> Absent] = [r \in {} |-> sweep[r]]
  OBVIOUS
<1>2. QED
  BY <1>1 DEF NothingLeft

\* The worker moves only a row it has read as open, as a supervisor could.
LEMMA ByWorkerKeeps ==
  ASSUME Inv, Swept # {}, NEW t \in {"Settle", "Unrecoverable"}, ByWorker(t),
         \/ t = "Settle" /\ prov[First] = "ended"
            /\ sweep[First].state = "DISPATCHED_WITH_ID"
         \/ t = "Unrecoverable"
  PROVE  Inv'
<1> SUFFICES ASSUME NEW f \in Swept, f = First, f \in Request
             PROVE  Inv'
  BY FirstSwept DEF Inv
<1>1. f \in Swept /\ f \in Request /\ f = First
  OBVIOUS
<1>2. /\ t \in DOMAIN AllowedFrom
      /\ Target[t] \subseteq {"SETTLED", "CONSUMED_UNRECOVERABLE"}
      /\ t = "Unrecoverable" => Target[t] = {"CONSUMED_UNRECOVERABLE"}
  BY DEF AllowedFrom, Target
<1>3. UNCHANGED <<age, task, head, disp, prov, restarts>> /\ asking' = FALSE
  BY DEF ByWorker, Advance, supervisors
<1>4. PICK S \in SUBSET Swept : sweep' = [r \in S |-> sweep[r]]
  <2>1. CASE sweep' = [r \in Swept \ {f} |-> sweep[r]]
    BY <2>1
  <2>2. CASE sweep' = NothingLeft
    <3>1. {} \in SUBSET Swept
      OBVIOUS
    <3>2. QED
      BY <2>2, <3>1, NothingLeftShrinks, Zenon
  <2>3. QED
    BY <1>1, <2>1, <2>2 DEF ByWorker, Advance
<1>5. /\ Swept' = S
      /\ Swept' \subseteq Request
      /\ sweep' \in [Swept' -> [state: {"DISPATCHED_WITH_ID", "DISPATCHED_ID_UNKNOWN"}, age: 0..2]]
      /\ \A r \in S : sweep'[r] = sweep[r]
  BY <1>4, SweepShrinks DEF Inv
<1>6. /\ row' \in [Request -> {Absent} \cup Active \cup Terminal]
      /\ failures' \in 0..MaxFailures
      /\ \A q \in Request \ {f} : row'[q] = row[q]
      /\ \/ row'[f] = row[f]
         \/ row[f] \in AllowedFrom[t] /\ row'[f] \in Target[t]
  <2>1. CASE Applies(f, t)
    <3>1. failures' \in 0..MaxFailures
      BY <2>1 DEF Applies, Inv, TypeOK
    <3>2. QED
      BY <1>1, <1>2, <2>1, <3>1, AppliesMoves DEF Inv
  <2>2. CASE Errs(f, t)
    BY <1>1, <1>2, <2>2, ErrsKeeps DEF Inv, TypeOK
  <2>3. QED
    BY <1>1, <2>1, <2>2 DEF ByWorker
<1>7. TypeOK'
  BY <1>3, <1>5, <1>6 DEF Inv, TypeOK
<1>8. row[f] \in {"DISPATCHED_WITH_ID", "DISPATCHED_ID_UNKNOWN", "SETTLED",
                  "CONSUMED_UNRECOVERABLE"}
  BY <1>1 DEF Inv, WorkerFits, SweepFits, TypeOK
<1>9. Fits(f)'
  <2>1. CASE row'[f] = row[f]
    BY <1>1, <1>3, <2>1 DEF Inv, Fits, RowFits, ProvFits, ToldFits, At
  <2>2. CASE row[f] \in AllowedFrom[t] /\ row'[f] \in Target[t]
    <3>1. row'[f] = "SETTLED" => prov[f] = "ended" /\ row[f] = "DISPATCHED_WITH_ID"
      <4>1. CASE t = "Unrecoverable"
        BY <1>2, <2>2, <4>1
      <4>2. CASE t = "Settle"
        BY <1>1, <1>8, <2>2, <4>2 DEF AllowedFrom, Inv, WorkerFits, SweepFits
      <4>3. QED
        BY <4>1, <4>2
    <3>2. row'[f] \in {"SETTLED", "CONSUMED_UNRECOVERABLE"} /\ row[f] \in PossiblySent
      BY <1>2, <2>2 DEF AllowedFrom, PossiblySent
    <3>3. RowFits(f)' /\ ProvFits(f)'
      BY <1>1, <1>3, <1>8, <3>1, <3>2 DEF Inv, Fits, RowFits, ProvFits, At, PossiblySent, Absent
    <3>4. ToldFits(f)'
      BY <1>1, <1>3, <1>8, <3>1, <3>2 DEF Inv, Fits, ToldFits, At, PossiblySent, LeavesIn
    <3>5. QED
      BY <3>3, <3>4 DEF Fits
  <2>3. QED
    BY <1>6, <2>1, <2>2
<1>10. \A q \in Request \ {f} : Fits(q)'
  BY <1>3, <1>6 DEF Inv, Fits, RowFits, ProvFits, ToldFits, At
<1>11. ASSUME NEW q \in S PROVE SweepFits(q)'
  <2>1. SweepFits(q) /\ q \in Request
    BY DEF Inv, WorkerFits, TypeOK
  <2>2. CASE q # f
    BY <1>5, <1>6, <2>1, <2>2 DEF SweepFits
  <2>3. CASE q = f
    BY <1>2, <1>5, <1>6, <2>1, <2>3 DEF SweepFits, AllowedFrom, PossiblySent
  <2>4. QED
    BY <2>2, <2>3
<1>12. QED
  BY <1>1, <1>3, <1>5, <1>7, <1>9, <1>10, <1>11 DEF Inv, WorkerFits

LEMMA WorkerKeeps ==
  ASSUME Inv, Worker
  PROVE  Inv'
<1>1. ASSUME UNCHANGED <<ledger, supervisors, prov>>
      PROVE  \A r \in Request : Fits(r)'
  BY <1>1 DEF ledger, supervisors, Inv, Fits, RowFits, ProvFits, ToldFits, At
<1>2. CASE StartSweep
  <2>1. /\ UNCHANGED <<ledger, age, supervisors, asking, prov, restarts>>
        /\ asking = FALSE
    BY <1>2 DEF StartSweep, Inv, TypeOK
  <2>2. /\ Swept' = OpenDispatches /\ OpenDispatches \subseteq Request
        /\ \A r \in OpenDispatches : sweep'[r] = [state |-> row[r], age |-> age[r]]
        /\ sweep' \in [Swept' -> [state: {"DISPATCHED_WITH_ID", "DISPATCHED_ID_UNKNOWN"}, age: 0..2]]
    BY <1>2 DEF StartSweep, OpenDispatches, Swept, Inv, TypeOK
  <2>3. TypeOK'
    BY <2>1, <2>2 DEF Inv, TypeOK, ledger, supervisors
  <2>4. \A r \in Swept' : SweepFits(r)'
    BY <2>1, <2>2 DEF SweepFits, ledger
  <2>5. QED
    BY <1>1, <2>1, <2>3, <2>4 DEF Inv, WorkerFits
<1>3. ASSUME Advance, UNCHANGED <<ledger, age, supervisors, prov, restarts>>
      PROVE  Inv'
  <2>1. PICK S \in SUBSET Swept : sweep' = [r \in S |-> sweep[r]]
    BY <1>3 DEF Advance
  <2>2. /\ Swept' = S
        /\ Swept' \subseteq Request
        /\ sweep' \in [Swept' -> [state: {"DISPATCHED_WITH_ID", "DISPATCHED_ID_UNKNOWN"}, age: 0..2]]
        /\ \A r \in S : sweep'[r] = sweep[r]
    BY <2>1, SweepShrinks DEF Inv
  <2>3. asking' = FALSE
    BY <1>3 DEF Advance
  <2>4. TypeOK'
    BY <1>3, <2>2, <2>3 DEF Inv, TypeOK, ledger, supervisors
  <2>5. \A r \in Swept' : SweepFits(r)'
    BY <1>3, <2>2 DEF SweepFits, ledger, Inv, WorkerFits
  <2>6. QED
    BY <1>1, <1>3, <2>3, <2>4, <2>5 DEF Inv, WorkerFits
<1>4. CASE WriteOffUnknown
  BY <1>4, ByWorkerKeeps DEF WriteOffUnknown
<1>5. ASSUME NEW r \in Request, Retrieve(r)
      PROVE  Inv'
  <2>1. TypeOK'
    BY <1>5 DEF Retrieve, Inv, TypeOK, ledger, supervisors, Swept
  <2>2. Swept' = Swept /\ First' = First /\ sweep[First].state = "DISPATCHED_WITH_ID"
    BY <1>5 DEF Retrieve, Swept, First
  <2>3. WorkerFits'
    BY <1>5, <2>2 DEF Retrieve, Inv, WorkerFits, SweepFits, ledger
  <2>4. QED
    BY <1>1, <1>5, <2>1, <2>3 DEF Retrieve, Inv
<1>6. ASSUME NEW r \in Request, Retrieved(r)
      PROVE  Inv'
  <2>1. Swept # {} /\ sweep[First].state = "DISPATCHED_WITH_ID" /\ prov[First] = "ended"
    BY <1>6 DEF Retrieved, Inv, TypeOK, WorkerFits
  <2>2. QED
    BY <1>6, <2>1, ByWorkerKeeps DEF Retrieved
<1>7. CASE NotFound
  BY <1>7, ByWorkerKeeps DEF NotFound, Inv, TypeOK
<1>8. CASE Waiting \/ RetryLater
  BY <1>3, <1>8 DEF Waiting, RetryLater
<1>9. QED
  BY <1>2, <1>4, <1>5, <1>6, <1>7, <1>8 DEF Worker

LEMMA RestartKeeps ==
  ASSUME Inv, Restart
  PROVE  Inv'
<1>1. Swept' = {} /\ asking' = FALSE
  BY DEF Restart, NothingLeft, Swept
<1>2. TypeOK'
  <2>1. restarts' \in 0..MaxRestarts
    BY DispatcherAssumption DEF Restart, Inv, TypeOK
  <2>2. task' \in [Request -> Task]
    <3>1. NotArrived \in Task
      BY DEF NotArrived, Task
    <3>2. QED
      BY <3>1, EndedOK DEF Restart
  <2>3. sweep' \in [Swept' -> [state: {"DISPATCHED_WITH_ID", "DISPATCHED_ID_UNKNOWN"}, age: 0..2]]
    BY <1>1 DEF Restart, NothingLeft
  <2>4. QED
    BY <1>1, <2>1, <2>2, <2>3 DEF Restart, Inv, TypeOK
<1>3. ASSUME NEW r \in Request PROVE Fits(r)'
  <2>1. task'[r] = IF At(r, "none") THEN NotArrived ELSE Ended
    BY DEF Restart
  <2>2. /\ NotArrived.pc = "none" /\ NotArrived.id = FALSE /\ NotArrived.settled = FALSE
    BY DEF NotArrived
  <2>3. row'[r] \in AfterRestart(row[r])
    BY DEF Restart
  <2>4. /\ row[r] = "RESERVED" => row'[r] \in {"RELEASED_UNSENT", "DISPATCHED_ID_UNKNOWN"}
        /\ row[r] = "DISPATCHING" => row'[r] = "DISPATCHED_ID_UNKNOWN"
        /\ row[r] \notin {"RESERVED", "DISPATCHING"} => row'[r] = row[r]
    BY <2>3, Zenon DEF AfterRestart
  <2>5. head' = head /\ disp' = disp /\ prov' = prov
    BY DEF Restart
  <2>6. RowFits(r) /\ ProvFits(r) /\ ToldFits(r)
    BY DEF Inv, Fits
  <2>7. RowFits(r)'
    BY <2>1, <2>2, <2>4, <2>6, EndedOK DEF RowFits, At, Absent
  <2>8. ProvFits(r)'
    BY <2>1, <2>2, <2>4, <2>5, <2>6, EndedOK DEF RowFits, ProvFits, At, Absent
  <2>9. ToldFits(r)'
    BY <2>1, <2>2, <2>4, <2>5, <2>6, EndedOK DEF ToldFits, At, LeavesIn
  <2>10. QED
    BY <2>7, <2>8, <2>9 DEF Fits
<1>4. QED
  BY <1>1, <1>2, <1>3 DEF Inv, WorkerFits

-----------------------------------------------------------------------------
(* The theorems                                                            *)

LEMMA SuperviseKept ==
  ASSUME Inv, NEW r \in Request, Supervise(r)
  PROVE  Kept(r) /\ UNCHANGED worker
<1>1. Kept(r)
  BY SpawnKept, HoldBackKept, BeginKept, PostKept, TransportErrorKept, AnsweredKept,
     GiveUpKept, ReadIdKept, ReadTerminalKept, NoticeDisconnectKept DEF Supervise
<1>2. UNCHANGED worker
  BY DEF Supervise, Spawn, HoldBack, Begin, AbortDispatch, Post, TransportError, Answered,
         GiveUp, ReadId, ReadTerminal, NoticeDisconnect, Deadline, StreamEnds, worker
<1>3. QED
  BY <1>1, <1>2

LEMMA WorldKept ==
  ASSUME Inv, NEW r \in Request,
         Admit(r) \/ Disconnect(r) \/ GrowOld(r) \/ ProviderAccepts(r) \/ ProviderRefuses(r)
           \/ ProviderEnds(r)
  PROVE  Kept(r) /\ UNCHANGED worker
<1>1. Kept(r)
  BY AdmitKept, DisconnectKept, GrowOldKept, ProviderKept
<1>2. UNCHANGED worker
  BY DEF Admit, Disconnect, GrowOld, ProviderAccepts, ProviderRefuses, ProviderEnds,
         ProviderTurns, worker
<1>3. QED
  BY <1>1, <1>2

LEMMA InitInv == Init => Inv
<1> SUFFICES ASSUME Init PROVE Inv
  OBVIOUS
<1>1. Swept = {}
  BY DEF Init, NothingLeft, Swept
<1>2. TypeOK
  <2>1. NotArrived \in Task
    BY DEF NotArrived, Task
  <2>2. sweep \in [Swept -> [state: {"DISPATCHED_WITH_ID", "DISPATCHED_ID_UNKNOWN"}, age: 0..2]]
    BY <1>1 DEF Init, NothingLeft
  <2>3. failures \in 0..MaxFailures /\ restarts \in 0..MaxRestarts
    BY DispatcherAssumption DEF Init
  <2>4. task \in [Request -> Task] /\ row \in [Request -> {Absent} \cup Active \cup Terminal]
    BY <2>1 DEF Init
  <2>5. /\ age \in [Request -> 0..2]
        /\ head \in [Request -> {"None", "NotSent", "OutcomeUnknown", "Refused", "Stream"}]
        /\ disp \in [Request -> Disposition]
        /\ prov \in [Request -> {"none", "flying", "running", "ended", "refused"}]
        /\ asking = FALSE
    BY DEF Init, Disposition
  <2>6. QED
    BY <1>1, <2>2, <2>3, <2>4, <2>5 DEF TypeOK
<1>3. ASSUME NEW r \in Request PROVE Fits(r)
  <2>1. /\ row[r] = Absent /\ task[r].pc = "none" /\ task[r].id = FALSE
        /\ task[r].settled = FALSE /\ prov[r] = "none" /\ head[r] = "None" /\ disp[r] = "None"
    BY DEF Init, NotArrived
  <2>2. QED
    BY <2>1 DEF Fits, RowFits, ProvFits, ToldFits, At, Absent, LeavesIn
<1>4. WorkerFits
  BY <1>1 DEF Init, WorkerFits
<1>5. QED
  BY <1>2, <1>3, <1>4 DEF Inv

LEMMA NextInv == Inv /\ [Next]_vars => Inv'
<1> SUFFICES ASSUME Inv, [Next]_vars PROVE Inv'
  OBVIOUS
<1>1. ASSUME NEW r \in Request, Supervise(r) PROVE Inv'
  BY <1>1, SuperviseKept, KeptIsEnough
<1>2. CASE Worker
  BY <1>2, WorkerKeeps
<1>3. CASE World
  <2>1. CASE Restart
    BY <2>1, RestartKeeps
  <2>2. ASSUME NEW r \in Request,
               Admit(r) \/ Disconnect(r) \/ GrowOld(r) \/ ProviderAccepts(r)
                 \/ ProviderRefuses(r) \/ ProviderEnds(r)
        PROVE  Inv'
    BY <2>2, WorldKept, KeptIsEnough
  <2>3. QED
    BY <1>3, <2>1, <2>2 DEF World
<1>4. CASE UNCHANGED vars
  BY <1>4 DEF vars, ledger, supervisors, worker, Inv, TypeOK, Fits, RowFits, ProvFits, ToldFits,
              At, WorkerFits, SweepFits, Swept, First
<1>5. QED
  BY <1>1, <1>2, <1>3, <1>4 DEF Next

\* Every reachable state has the types, for any number of requests, failures
\* and restarts.
THEOREM TypesHold == Spec => []TypeOK
<1>1. Inv => TypeOK
  BY DEF Inv
<1>2. QED
  BY <1>1, InitInv, NextInv, PTL DEF Spec

\* A client told that nothing was sent is told the truth.
THEOREM NotSentHolds == Spec => []NotSentIsTrue
<1>1. Inv => NotSentIsTrue
  BY DEF Inv, Fits, ToldFits, NotSentIsTrue
<1>2. QED
  BY <1>1, InitInv, NextInv, PTL DEF Spec

\* A supervisor that has ended left the reservation where it says.
THEOREM HandedOver == Spec => []HandoverHolds
<1>1. Inv => HandoverHolds
  BY DEF Inv, Fits, ToldFits, HandoverHolds
<1>2. QED
  BY <1>1, InitInv, NextInv, PTL DEF Spec

-----------------------------------------------------------------------------
(* The dispatcher implements the promise                                   *)

accounts == [r \in Request |-> AccountOf(row[r])]
works == [r \in Request |-> WorkOf(prov[r])]

LEMMA AccountOfState ==
  /\ AccountOf(Absent) = "absent"
  /\ \A s \in Active : AccountOf(s) = "held"
  /\ AccountOf("SETTLED") = "settled"
  /\ AccountOf("CONSUMED_UNRECOVERABLE") = "written off"
  /\ AccountOf("RELEASED_UNSENT") = "freed"
  /\ AccountOf("REJECTED_BEFORE_PROCESSING") = "freed"
<1>1. AccountOf(Absent) = "absent"
  BY DEF AccountOf, Absent, Active, PossiblySent
<1>2. ASSUME NEW s \in Active PROVE AccountOf(s) = "held"
  <2>1. s # Absent /\ s # "SETTLED" /\ s # "CONSUMED_UNRECOVERABLE"
    BY DEF Active, PossiblySent, Absent
  <2>2. QED
    BY <2>1 DEF AccountOf
<1>3. AccountOf("SETTLED") = "settled"
  BY DEF AccountOf, Absent, Active, PossiblySent
<1>4. AccountOf("CONSUMED_UNRECOVERABLE") = "written off"
  BY DEF AccountOf, Absent, Active, PossiblySent
<1>5. AccountOf("RELEASED_UNSENT") = "freed"
  BY DEF AccountOf, Absent, Active, PossiblySent
<1>6. AccountOf("REJECTED_BEFORE_PROCESSING") = "freed"
  BY DEF AccountOf, Absent, Active, PossiblySent
<1>7. QED
  BY <1>1, <1>2, <1>3, <1>4, <1>5, <1>6

\* A reservation, a ledger operation on it, or neither, is a step or a
\* stutter of the promise while the provider does nothing.
LEMMA MoveKeepsPromise ==
  ASSUME Inv, Inv', NEW r \in Request, prov' = prov,
         \A q \in Request \ {r} : row'[q] = row[q], Moves(r),
         row[r] = Absent => row'[r] \in {Absent, "RESERVED"}
  PROVE  Abstract!Next \/ UNCHANGED <<accounts, works>>
<1> DEFINE a == AccountOf(row[r])
           b == AccountOf(row'[r])
<1>1. works' = works
  BY DEF works
<1>2. accounts' = [accounts EXCEPT ![r] = b] /\ accounts[r] = a /\ works[r] = WorkOf(prov[r])
  BY DEF accounts, works
<1>3. \/ a = b
      \/ a = "absent" /\ b = "held"
      \/ a = "held" /\ b = "settled" /\ WorkOf(prov[r]) = "ended"
      \/ a = "held" /\ b = "written off"
      \/ a = "held" /\ b = "freed" /\ WorkOf(prov[r]) = "none"
  <2>1. ProvFits(r)'
    BY DEF Inv, Fits
  <2>2. CASE row[r] = Absent
    BY <2>2, AccountOfState DEF Active
  <2>3. CASE row'[r] = row[r]
    BY <2>3
  <2>4. ASSUME NEW t \in DOMAIN AllowedFrom, row[r] \in AllowedFrom[t], row'[r] \in Target[t]
        PROVE  /\ row[r] \in Active
               /\ \/ row'[r] \in Active
                  \/ row'[r] = "SETTLED" /\ prov[r] = "ended"
                  \/ row'[r] = "CONSUMED_UNRECOVERABLE"
                  \/ row'[r] = "RELEASED_UNSENT" /\ prov[r] = "none"
                  \/ row'[r] = "REJECTED_BEFORE_PROCESSING" /\ prov[r] = "refused"
    BY <2>1, <2>4 DEF AllowedFrom, Target, Active, PossiblySent, ProvFits
  <2>5. QED
    BY <2>2, <2>3, <2>4, AccountOfState DEF Moves, WorkOf
<1>4. ASSUME NEW from, NEW to, a = from, b = to
      PROVE  Abstract!Move(r, from, to)
  BY <1>1, <1>2, <1>4 DEF Abstract!Move, accounts, works
<1>5. CASE a = b
  BY <1>1, <1>2, <1>5 DEF accounts
<1>6. CASE a = "absent" /\ b = "held"
  BY <1>4, <1>6 DEF Abstract!Next, Abstract!Hold
<1>7. CASE a = "held" /\ b = "settled" /\ WorkOf(prov[r]) = "ended"
  BY <1>4, <1>7 DEF Abstract!Next, Abstract!Settle
<1>8. CASE a = "held" /\ b = "written off"
  BY <1>4, <1>8 DEF Abstract!Next, Abstract!WriteOff
<1>9. CASE a = "held" /\ b = "freed" /\ WorkOf(prov[r]) = "none"
  <2>1. Abstract!Free({r})
    BY <1>1, <1>2, <1>9 DEF Abstract!Free, accounts, works
  <2>2. QED
    BY <2>1 DEF Abstract!Next
<1>10. QED
  BY <1>3, <1>5, <1>6, <1>7, <1>8, <1>9

\* What the provider does is allowed by the promise, in every state of the
\* reservation it can find.
LEMMA ProviderKeepsPromise ==
  ASSUME Inv, Inv', NEW r \in Request, row' = row,
         NEW p, prov' = [prov EXCEPT ![r] = p],
         \/ WorkOf(prov[r]) = WorkOf(p)
         \/ WorkOf(prov[r]) = "none" /\ p = "running"
         \/ prov[r] = "running" /\ p = "ended"
  PROVE  Abstract!Next \/ UNCHANGED <<accounts, works>>
<1>1. accounts' = accounts
  BY DEF accounts
<1>2. /\ works' = [works EXCEPT ![r] = WorkOf(p)]
      /\ works[r] = WorkOf(prov[r]) /\ accounts[r] = AccountOf(row[r])
  BY DEF works, accounts, Inv, TypeOK
<1>3. CASE WorkOf(prov[r]) = WorkOf(p)
  BY <1>1, <1>2, <1>3 DEF works
<1>4. CASE WorkOf(prov[r]) = "none" /\ p = "running"
  <2>1. ProvFits(r)' /\ prov'[r] = "running" /\ row[r] \in {Absent} \cup Active \cup Terminal
    BY <1>4 DEF Inv, Fits, TypeOK
  <2>2. row[r] \in Active \/ row[r] = "CONSUMED_UNRECOVERABLE"
    BY <2>1 DEF ProvFits, Terminal, Absent
  <2>3. accounts[r] \in {"held", "written off"}
    BY <1>2, <2>2, AccountOfState
  <2>4. Abstract!Begin(r)
    BY <1>1, <1>2, <1>4, <2>3 DEF Abstract!Begin, accounts, works, WorkOf
  <2>5. QED
    BY <2>4 DEF Abstract!Next
<1>5. CASE prov[r] = "running" /\ p = "ended"
  <2>1. Abstract!End(r)
    BY <1>1, <1>2, <1>5 DEF Abstract!End, accounts, works, WorkOf
  <2>2. QED
    BY <2>1 DEF Abstract!Next
<1>6. QED
  BY <1>3, <1>4, <1>5

LEMMA SuperviseKeepsPromise ==
  ASSUME Inv, Inv', NEW r \in Request, Supervise(r)
  PROVE  Abstract!Next \/ UNCHANGED <<accounts, works>>
<1>1. CASE Post(r)
  <2>1. row' = row /\ prov' = [prov EXCEPT ![r] = "flying"] /\ prov[r] = "none"
    BY <1>1 DEF Post, ledger, Inv, Fits, ProvFits
  <2>2. WorkOf(prov[r]) = WorkOf("flying")
    BY <2>1 DEF WorkOf
  <2>3. QED
    BY <2>1, <2>2, ProviderKeepsPromise
<1>2. CASE ~Post(r)
  <2>1. prov' = prov /\ ~At(r, "none")
    BY <1>2 DEF Supervise, Spawn, HoldBack, Begin, AbortDispatch, TransportError, Answered,
                GiveUp, GivesUp, ReadId, ReadTerminal, NoticeDisconnect, Deadline, StreamEnds,
                Selects, At
  <2>2. row[r] # Absent
    BY <2>1 DEF Inv, Fits, RowFits
  <2>3. Kept(r)
    BY SuperviseKept
  <2>4. QED
    BY <2>1, <2>2, <2>3, MoveKeepsPromise DEF Kept, Others
<1>3. QED
  BY <1>1, <1>2

LEMMA WorkerKeepsPromise ==
  ASSUME Inv, Inv', Worker
  PROVE  Abstract!Next \/ UNCHANGED <<accounts, works>>
<1>1. CASE UNCHANGED <<ledger, prov>>
  BY <1>1 DEF ledger, accounts, works
<1>2. ASSUME Swept # {}, NEW t \in {"Settle", "Unrecoverable"}, ByWorker(t)
      PROVE  Abstract!Next \/ UNCHANGED <<accounts, works>>
  <2>1. PICK r \in Request : r = First
    BY <1>2, FirstSwept DEF Inv
  <2>2. prov' = prov
    BY <1>2 DEF ByWorker
  <2>3. t \in DOMAIN AllowedFrom /\ Absent \notin AllowedFrom[t]
    BY <1>2 DEF AllowedFrom, PossiblySent, Absent
  <2>4. CASE Applies(r, t)
    <3>1. /\ \A q \in Request \ {r} : row'[q] = row[q]
          /\ row[r] \in AllowedFrom[t] /\ row'[r] \in Target[t]
      BY <2>3, <2>4, AppliesMoves DEF Inv
    <3>2. Moves(r) /\ row[r] # Absent
      BY <2>3, <3>1 DEF Moves
    <3>3. QED
      BY <2>2, <3>1, <3>2, MoveKeepsPromise
  <2>5. CASE Errs(r, t)
    <3>1. row' = row
      BY <2>3, <2>5, ErrsKeeps DEF Inv
    <3>2. QED
      BY <2>2, <3>1 DEF accounts, works
  <2>6. QED
    BY <1>2, <2>1, <2>4, <2>5 DEF ByWorker
<1>3. CASE WriteOffUnknown
  BY <1>2, <1>3 DEF WriteOffUnknown
<1>4. ASSUME NEW r \in Request, Retrieved(r)
      PROVE  Abstract!Next \/ UNCHANGED <<accounts, works>>
  BY <1>2, <1>4 DEF Retrieved, Inv, TypeOK
<1>5. CASE NotFound
  BY <1>2, <1>5 DEF NotFound, Inv, TypeOK
<1>6. QED
  BY <1>1, <1>3, <1>4, <1>5 DEF Worker, StartSweep, Retrieve, Waiting, RetryLater

\* A restart frees, at once, the reservations it finds never dispatched.
LEMMA RestartKeepsPromise ==
  ASSUME Inv, Inv', Restart
  PROVE  Abstract!Next \/ UNCHANGED <<accounts, works>>
<1> DEFINE S == {r \in Request : row[r] = "RESERVED" /\ row'[r] = "RELEASED_UNSENT"}
<1>1. works' = works
  BY DEF Restart, works
<1>2. ASSUME NEW r \in Request
      PROVE  /\ r \in S => AccountOf(row[r]) = "held" /\ AccountOf(row'[r]) = "freed"
                           /\ WorkOf(prov[r]) = "none"
             /\ r \notin S => AccountOf(row'[r]) = AccountOf(row[r])
  <2>1. row'[r] \in AfterRestart(row[r])
    BY DEF Restart
  <2>2. /\ row[r] = "RESERVED" => row'[r] \in {"RELEASED_UNSENT", "DISPATCHED_ID_UNKNOWN"}
        /\ row[r] = "DISPATCHING" => row'[r] = "DISPATCHED_ID_UNKNOWN"
        /\ row[r] \notin {"RESERVED", "DISPATCHING"} => row'[r] = row[r]
    BY <2>1, Zenon DEF AfterRestart
  <2>3. /\ AccountOf("RESERVED") = "held" /\ AccountOf("DISPATCHING") = "held"
        /\ AccountOf("DISPATCHED_ID_UNKNOWN") = "held" /\ AccountOf("RELEASED_UNSENT") = "freed"
    BY AccountOfState DEF Active, PossiblySent
  <2>4. row[r] = "RESERVED" => prov[r] = "none"
    BY DEF Inv, Fits, ProvFits
  <2>5. QED
    BY <2>2, <2>3, <2>4 DEF WorkOf
<1>3. accounts' = [r \in Request |-> IF r \in S THEN "freed" ELSE accounts[r]]
  BY <1>2 DEF accounts
<1>4. \A r \in S : accounts[r] = "held" /\ works[r] = "none"
  BY <1>2 DEF accounts, works
<1>5. S \in SUBSET Request
  OBVIOUS
<1>6. Abstract!Free(S)
  BY <1>1, <1>3, <1>4 DEF Abstract!Free, accounts, works
<1>7. QED
  BY <1>5, <1>6 DEF Abstract!Next

\* Every behaviour of the dispatcher, the worker and the restarts is one the
\* promise about free quota allows.
THEOREM PromiseKept == Spec => KeepsPromise
<1>1. Init => Abstract!Init
  <2>1. AccountOf(Absent) = "absent" /\ WorkOf("none") = "none"
    BY AccountOfState DEF WorkOf
  <2>2. QED
    BY <2>1 DEF Init, Abstract!Init
<1>2. Inv /\ Inv' /\ [Next]_vars => [Abstract!Next]_<<accounts, works>>
  <2> SUFFICES ASSUME Inv, Inv', [Next]_vars
               PROVE  Abstract!Next \/ UNCHANGED <<accounts, works>>
    OBVIOUS
  <2>1. ASSUME NEW r \in Request, Supervise(r)
        PROVE  Abstract!Next \/ UNCHANGED <<accounts, works>>
    BY <2>1, SuperviseKeepsPromise
  <2>2. CASE Worker
    BY <2>2, WorkerKeepsPromise
  <2>3. CASE Restart
    BY <2>3, RestartKeepsPromise
  <2>4. ASSUME NEW r \in Request, Admit(r)
        PROVE  Abstract!Next \/ UNCHANGED <<accounts, works>>
    <3>1. row[r] = Absent /\ row'[r] = "RESERVED" /\ prov' = prov
          /\ \A q \in Request \ {r} : row'[q] = row[q]
      BY <2>4 DEF Admit, Inv, TypeOK
    <3>2. QED
      BY <3>1, MoveKeepsPromise DEF Moves
  <2>5. ASSUME NEW r \in Request,
               ProviderAccepts(r) \/ ProviderRefuses(r) \/ ProviderEnds(r)
        PROVE  Abstract!Next \/ UNCHANGED <<accounts, works>>
    <3>1. row' = row
      BY <2>5 DEF ProviderAccepts, ProviderRefuses, ProviderEnds, ProviderTurns, ledger
    <3>2. PICK p \in {"running", "refused", "ended"} :
            /\ prov' = [prov EXCEPT ![r] = p]
            /\ \/ p = "running" /\ prov[r] = "flying"
               \/ p = "refused" /\ prov[r] = "flying"
               \/ p = "ended" /\ prov[r] = "running"
      BY <2>5 DEF ProviderAccepts, ProviderRefuses, ProviderEnds, ProviderTurns
    <3>3. WorkOf("flying") = "none" /\ WorkOf("refused") = "none"
      BY DEF WorkOf
    <3>4. QED
      BY <3>1, <3>2, <3>3, ProviderKeepsPromise
  <2>6. CASE UNCHANGED <<row, prov>>
    BY <2>6 DEF accounts, works
  <2>7. QED
    BY <2>1, <2>2, <2>3, <2>4, <2>5, <2>6
    DEF Next, World, Disconnect, GrowOld, vars, ledger
<1>3. QED
  BY <1>1, <1>2, InitInv, NextInv, PTL
  DEF Spec, KeepsPromise, Abstract!Spec, accounts, works
=============================================================================
