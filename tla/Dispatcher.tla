----------------------------- MODULE Dispatcher -----------------------------
(***************************************************************************)
(* From an admitted reservation to its last state: the request handler     *)
(* that holds the permit, the supervisor spawned for it (dispatch.rs), the *)
(* retrieval worker that sweeps the open dispatches (retrieval.rs), the    *)
(* client, the provider and restarts of the process. They share the        *)
(* reservation states in the ledger, one operation at a time, and nothing  *)
(* else: whatever an actor read before an await may be stale after it.     *)
(* Counters and the external record are module Ledger's; here a ledger     *)
(* operation moves one reservation, is refused, or fails.                  *)
(***************************************************************************)
EXTENDS Integers

CONSTANTS
  MaxRequest,   \* bound: requests
  MaxFailures,  \* bound: ledger operations that fail (I/O), the reservation unchanged
  MaxRestarts   \* bound: crashes and restarts

ASSUME DispatcherAssumption ==
  MaxRequest \in Nat /\ MaxFailures \in Nat /\ MaxRestarts \in Nat

VARIABLES
  row,       \* the ledger: the state of each reservation, Absent before admission
  age,       \* its age: 1 past trust_not_found_after, 2 past write_off_unknown_after
  task,      \* the handler, then the supervisor: where it is, its locals, its client
  head,      \* what the handler was given
  disp,      \* the Disposition the supervisor returned
  sweep,     \* open dispatches left to this pass of the worker, as it read them
  asking,    \* the worker awaits the response it retrieves for the first of them
  prov,      \* what the provider does for each request
  failures,  \* ledger operations that failed
  restarts   \* restarts so far

ledger == <<row, failures>>
supervisors == <<task, head, disp>>
worker == <<sweep, asking>>
vars == <<ledger, age, supervisors, worker, prov, restarts>>

Request == 1..MaxRequest  \* root ids, in the order of admission

-----------------------------------------------------------------------------
(* Reservation states and the transitions allowed between them             *)

Absent == "ABSENT"
PossiblySent == {"DISPATCHING", "DISPATCHED_WITH_ID", "DISPATCHED_ID_UNKNOWN"}
Active == {"RESERVED"} \cup PossiblySent
Terminal == {"SETTLED", "CONSUMED_UNRECOVERABLE", "RELEASED_UNSENT",
             "REJECTED_BEFORE_PROCESSING"}

AllowedFrom ==
  [BeginDispatch          |-> {"RESERVED"},
   AttachResponseId       |-> {"DISPATCHING"},
   MarkIdUnknown          |-> {"DISPATCHING"},
   Settle                 |-> {"DISPATCHING", "DISPATCHED_WITH_ID"},
   Unrecoverable          |-> PossiblySent,
   ReleaseUnsent          |-> {"RESERVED"},
   RejectBeforeProcessing |-> {"DISPATCHING"}]

\* Usage that does not pass validation is written off instead of settled.
Target ==
  [BeginDispatch          |-> {"DISPATCHING"},
   AttachResponseId       |-> {"DISPATCHED_WITH_ID"},
   MarkIdUnknown          |-> {"DISPATCHED_ID_UNKNOWN"},
   Settle                 |-> {"SETTLED", "CONSUMED_UNRECOVERABLE"},
   Unrecoverable          |-> {"CONSUMED_UNRECOVERABLE"},
   ReleaseUnsent          |-> {"RELEASED_UNSENT"},
   RejectBeforeProcessing |-> {"REJECTED_BEFORE_PROCESSING"}]

Applies(r, t) ==
  /\ row[r] \in AllowedFrom[t]
  /\ \E s \in Target[t] : row' = [row EXCEPT ![r] = s]
  /\ UNCHANGED failures

\* IllegalTransition, or a storage error.
Errs(r, t) ==
  /\ \/ row[r] \notin AllowedFrom[t] /\ UNCHANGED failures
     \/ /\ row[r] \in AllowedFrom[t]
        /\ failures < MaxFailures
        /\ failures' = failures + 1
  /\ UNCHANGED row

-----------------------------------------------------------------------------
(* Upstream statuses                                                       *)

\* One status of each kind status_policy.rs decides.
Status == {200, 302, 400, 401, 402, 403, 404, 422, 429, 500}
Refusals == {400, 401, 402, 403, 404, 422, 429}

DecideAnyErrorRejects(status) == IF status = 200 THEN "Settle" ELSE "ReleaseRejected"

Decide(status) ==
  CASE status = 200 -> "Settle"
    [] status \in Refusals -> "ReleaseRejected"
    [] OTHER -> "HoldAsUnknown"

\* What a status says of the provider (ADR-0006): success means that a
\* response is under way, a refusal that processing never started; the rest
\* may come from a proxy or a gateway and says nothing.
Answers(r, status) ==
  CASE status = 200 -> prov[r] \in {"running", "ended"}
    [] status \in Refusals -> prov[r] = "refused"
    [] OTHER -> prov[r] # "none"

-----------------------------------------------------------------------------
(* The handler and the supervisor                                          *)

\* conn: the client is there; bg: background; down: the client's end of the
\* channel; id: the response id is attached; late: the wait for it is over.
NotArrived ==
  [pc |-> "none", conn |-> FALSE, bg |-> FALSE, down |-> FALSE, id |-> FALSE,
   late |-> FALSE, settled |-> FALSE]
Ended == [NotArrived EXCEPT !.pc = "ended"]

At(r, pc) == task[r].pc = pc
GoTo(r, pc) == task' = [task EXCEPT ![r].pc = pc]
Tell(r, h) == head' = [head EXCEPT ![r] = h]

Return(r, d) ==
  /\ task' = [task EXCEPT ![r] = Ended]
  /\ disp' = [disp EXCEPT ![r] = d]

\* The last ledger operation of a supervisor decides what it returns.
Finally(r, t, d) ==
  \/ Applies(r, t) /\ Return(r, d)
  \/ Errs(r, t) /\ Return(r, "LedgerFailed")

\* reserve commits; the handler has yet to see it.
Admit(r) ==
  /\ row[r] = Absent
  /\ \A q \in 1..(r - 1) : row[q] # Absent
  /\ row' = [row EXCEPT ![r] = "RESERVED"]
  /\ \E bg \in BOOLEAN : task' = [task EXCEPT ![r] = [@ EXCEPT !.pc = "admitted", !.conn = TRUE,
                                                             !.bg = bg]]
  /\ UNCHANGED <<failures, age, head, disp, worker, prov, restarts>>

\* create_response goes on to dispatch, which spawns the supervisor.
Spawn(r) ==
  /\ At(r, "admitted")
  /\ GoTo(r, "start")
  /\ UNCHANGED <<ledger, age, head, disp, worker, prov, restarts>>

\* axum drops the handler when its client goes; the supervisor, if there is
\* one, carries on.
Disconnect(r) ==
  /\ task[r].conn
  /\ task' = [task EXCEPT ![r] = IF At(r, "admitted") THEN Ended ELSE [@ EXCEPT !.conn = FALSE]]
  /\ UNCHANGED <<ledger, age, head, disp, worker, prov, restarts>>

\* The rate limit gate is closed or the breaker open.
HoldBack(r) ==
  /\ At(r, "start")
  /\ Finally(r, "ReleaseUnsent", "ReleasedUnsent")
  /\ Tell(r, "NotSent")
  /\ UNCHANGED <<age, worker, prov, restarts>>

Begin(r) ==
  /\ At(r, "start")
  /\ \/ Applies(r, "BeginDispatch") /\ GoTo(r, "post")
     \/ Errs(r, "BeginDispatch") /\ GoTo(r, "abort")
  /\ UNCHANGED <<age, head, disp, worker, prov, restarts>>

AbortDispatch(r) ==
  /\ At(r, "abort")
  /\ Finally(r, "ReleaseUnsent", "ReleasedUnsent")
  /\ Tell(r, "NotSent")
  /\ UNCHANGED <<age, worker, prov, restarts>>

\* The first poll of the upstream request: from here its bytes may leave.
Post(r) ==
  /\ At(r, "post")
  /\ GoTo(r, "wait")
  /\ prov' = [prov EXCEPT ![r] = "flying"]
  /\ UNCHANGED <<ledger, age, head, disp, worker, restarts>>

TransportErrorAsNotSent(r) ==
  /\ At(r, "wait")
  /\ Finally(r, "MarkIdUnknown", "HeldAsUnknown")
  /\ Tell(r, "NotSent")
  /\ UNCHANGED <<age, worker, prov, restarts>>

TransportError(r) ==
  /\ At(r, "wait")
  /\ Finally(r, "MarkIdUnknown", "HeldAsUnknown")
  /\ Tell(r, "OutcomeUnknown")
  /\ UNCHANGED <<age, worker, prov, restarts>>

Answered(r, status) ==
  /\ At(r, "wait")
  /\ Answers(r, status)
  /\ CASE Decide(status) = "Settle" ->
            /\ task' = [task EXCEPT ![r] = [@ EXCEPT !.pc = "relay", !.down = task[r].conn]]
            /\ Tell(r, "Stream")
            /\ UNCHANGED <<ledger, disp>>
       [] Decide(status) = "ReleaseRejected" ->
            /\ Finally(r, "RejectBeforeProcessing", "ReleasedRejected")
            /\ Tell(r, "Refused")
       [] OTHER ->
            /\ Finally(r, "MarkIdUnknown", "HeldAsUnknown")
            /\ Tell(r, "Refused")
  /\ UNCHANGED <<age, worker, prov, restarts>>

-----------------------------------------------------------------------------
(* relay: the supervisor's loop over the upstream stream                   *)

\* With nobody to relay to and nothing settled, the top of the loop returns.
GivesUp(r) ==
  /\ At(r, "relay")
  /\ ~task[r].down /\ ~task[r].settled
  /\ ~task[r].bg \/ task[r].id \/ task[r].late

Selects(r) == At(r, "relay") /\ ~GivesUp(r)

\* A bounded synchronous response is written off; a background one is
\* cancelled and left to retrieval, or held when its id never came.
GiveUp(r) ==
  /\ GivesUp(r)
  /\ IF ~task[r].bg THEN Finally(r, "Unrecoverable", "WrittenOff")
     ELSE IF task[r].id THEN Return(r, "AwaitingRetrieval") /\ UNCHANGED ledger
     ELSE Finally(r, "MarkIdUnknown", "HeldAsUnknown")
  /\ UNCHANGED <<age, head, worker, prov, restarts>>

\* The first lifecycle event. The same chunk may hold the terminal event too.
ReadId(r) ==
  /\ Selects(r) /\ ~task[r].id
  /\ prov[r] \in {"running", "ended"}
  /\ \/ /\ Applies(r, "AttachResponseId")
        /\ \E pc \in {"relay"} \cup (IF prov[r] = "ended" THEN {"chunk"} ELSE {}) :
             task' = [task EXCEPT ![r] = [@ EXCEPT !.id = TRUE, !.pc = pc,
                                                   !.down = @ /\ (pc = "chunk" \/ task[r].conn)]]
        /\ UNCHANGED disp
     \/ Errs(r, "AttachResponseId") /\ Return(r, "LedgerFailed")
  /\ UNCHANGED <<age, head, worker, prov, restarts>>

\* The terminal event carries the usage: settled before it is relayed.
ReadTerminal(r) ==
  /\ Selects(r) \/ At(r, "chunk")
  /\ task[r].id /\ ~task[r].settled
  /\ prov[r] = "ended"
  /\ \/ /\ Applies(r, "Settle")
        /\ task' = [task EXCEPT ![r] = [@ EXCEPT !.pc = "relay", !.settled = TRUE,
                                              !.down = @ /\ task[r].conn]]
        /\ UNCHANGED disp
     \/ Errs(r, "Settle") /\ Return(r, "LedgerFailed")
  /\ UNCHANGED <<age, head, worker, prov, restarts>>

\* The channel to the client closes, or a chunk cannot be delivered.
NoticeDisconnect(r) ==
  /\ Selects(r) /\ task[r].down /\ ~task[r].conn
  /\ task' = [task EXCEPT ![r].down = FALSE]
  /\ UNCHANGED <<ledger, age, head, disp, worker, prov, restarts>>

\* id_wait_after_disconnect runs out.
Deadline(r) ==
  /\ Selects(r) /\ ~task[r].down /\ ~task[r].settled
  /\ task' = [task EXCEPT ![r].late = TRUE]
  /\ UNCHANGED <<ledger, age, head, disp, worker, prov, restarts>>

StreamEndsForgettingTheId(r) ==
  /\ Selects(r)
  /\ IF task[r].settled THEN Return(r, "Settled") /\ UNCHANGED ledger
     ELSE IF ~task[r].bg THEN Finally(r, "Unrecoverable", "WrittenOff")
     ELSE Return(r, "AwaitingRetrieval") /\ UNCHANGED ledger
  /\ UNCHANGED <<age, head, worker, prov, restarts>>

\* Upstream ends the stream, cleanly or not, or its read times out.
StreamEnds(r) ==
  /\ Selects(r)
  /\ IF task[r].settled THEN Return(r, "Settled") /\ UNCHANGED ledger
     ELSE IF ~task[r].bg THEN Finally(r, "Unrecoverable", "WrittenOff")
     ELSE IF task[r].id THEN Return(r, "AwaitingRetrieval") /\ UNCHANGED ledger
     ELSE Finally(r, "MarkIdUnknown", "HeldAsUnknown")
  /\ UNCHANGED <<age, head, worker, prov, restarts>>

-----------------------------------------------------------------------------
(* The retrieval worker                                                    *)

NothingLeft == [r \in {} |-> Absent]
Swept == DOMAIN sweep
First == CHOOSE r \in Swept : \A q \in Swept : r <= q

OpenWithIdOnly == {r \in Request : row[r] = "DISPATCHED_WITH_ID"}

\* open_dispatches
OpenDispatches == {r \in Request : row[r] \in {"DISPATCHED_WITH_ID", "DISPATCHED_ID_UNKNOWN"}}

\* A pass reads states and ages once, before it awaits anything.
StartSweep ==
  /\ Swept = {} /\ OpenDispatches # {}
  /\ sweep' = [r \in OpenDispatches |-> [state |-> row[r], age |-> age[r]]]
  /\ UNCHANGED <<ledger, age, supervisors, asking, prov, restarts>>

AdvanceStillAsking ==
  /\ sweep' = [r \in Swept \ {First} |-> sweep[r]]
  /\ UNCHANGED asking

Advance ==
  /\ sweep' = [r \in Swept \ {First} |-> sweep[r]]
  /\ asking' = FALSE

\* A ledger error ends the pass.
ByWorker(t) ==
  /\ \/ Applies(First, t) /\ Advance
     \/ Errs(First, t) /\ sweep' = NothingLeft /\ asking' = FALSE
  /\ UNCHANGED <<age, supervisors, prov, restarts>>

WriteOffUnknown ==
  /\ Swept # {} /\ ~asking
  /\ sweep[First].state = "DISPATCHED_ID_UNKNOWN" /\ sweep[First].age = 2
  /\ ByWorker("Unrecoverable")

Retrieve(r) ==
  /\ Swept # {} /\ ~asking /\ r = First
  /\ sweep[r].state = "DISPATCHED_WITH_ID"
  /\ asking' = TRUE
  /\ UNCHANGED <<ledger, age, supervisors, sweep, prov, restarts>>

\* Too young to act on, or backing off.
Waiting ==
  /\ Swept # {} /\ ~asking
  /\ sweep[First].state = "DISPATCHED_WITH_ID" \/ sweep[First].age < 2
  /\ Advance
  /\ UNCHANGED <<ledger, age, supervisors, prov, restarts>>

\* 200, and the response is terminal.
Retrieved(r) ==
  /\ asking /\ r = First
  /\ prov[r] = "ended"
  /\ ByWorker("Settle")

\* 404, believed once the dispatch is old enough.
NotFound ==
  /\ asking
  /\ sweep[First].age >= 1
  /\ ByWorker("Unrecoverable")

\* Still running, a transport error, an unreadable body, another status.
RetryLater ==
  /\ asking
  /\ Advance
  /\ UNCHANGED <<ledger, age, supervisors, prov, restarts>>

-----------------------------------------------------------------------------
(* Time, the provider, and restarts                                        *)

\* Only a sweep reads the age, of open dispatches: one that opens late catches
\* up before it.
GrowOld(r) ==
  /\ r \in OpenDispatches /\ age[r] < 2
  /\ age' = [age EXCEPT ![r] = @ + 1]
  /\ UNCHANGED <<ledger, supervisors, worker, prov, restarts>>

\* Bytes in flight may arrive long after the supervisor stopped waiting.
ProviderTurns(r, from, to) ==
  /\ prov[r] = from
  /\ prov' = [prov EXCEPT ![r] = to]
  /\ UNCHANGED <<ledger, age, supervisors, worker, restarts>>

ProviderAccepts(r) == ProviderTurns(r, "flying", "running")
ProviderRefuses(r) == ProviderTurns(r, "flying", "refused")
ProviderEnds(r) == ProviderTurns(r, "running", "ended")

AfterRestartUnsent(s) ==
  CASE s \in {"RESERVED", "DISPATCHING"} -> {"RELEASED_UNSENT"}
    [] OTHER -> {s}

\* The process dies and normalize_after_restart runs. Whether a RESERVED row
\* is released depends on the external record (module Ledger).
AfterRestart(s) ==
  CASE s = "RESERVED" -> {"RELEASED_UNSENT", "DISPATCHED_ID_UNKNOWN"}
    [] s = "DISPATCHING" -> {"DISPATCHED_ID_UNKNOWN"}
    [] OTHER -> {s}

Restart ==
  /\ restarts < MaxRestarts
  /\ restarts' = restarts + 1
  /\ row' \in [Request -> {Absent} \cup Active \cup Terminal]
  /\ \A r \in Request : row'[r] \in AfterRestart(row[r])
  /\ task' = [r \in Request |-> IF At(r, "none") THEN NotArrived ELSE Ended]
  /\ sweep' = NothingLeft
  /\ asking' = FALSE
  /\ UNCHANGED <<failures, age, head, disp, prov>>

-----------------------------------------------------------------------------
(* The specification                                                       *)

Init ==
  /\ row = [r \in Request |-> Absent]
  /\ age = [r \in Request |-> 0]
  /\ task = [r \in Request |-> NotArrived]
  /\ head = [r \in Request |-> "None"]
  /\ disp = [r \in Request |-> "None"]
  /\ sweep = NothingLeft
  /\ asking = FALSE
  /\ prov = [r \in Request |-> "none"]
  /\ failures = 0
  /\ restarts = 0

Supervise(r) ==
  \/ Spawn(r)
  \/ HoldBack(r)
  \/ Begin(r)
  \/ AbortDispatch(r)
  \/ Post(r)
  \/ TransportError(r)
  \/ \E status \in Status : Answered(r, status)
  \/ GiveUp(r)
  \/ ReadId(r)
  \/ ReadTerminal(r)
  \/ NoticeDisconnect(r)
  \/ Deadline(r)
  \/ StreamEnds(r)

Worker ==
  \/ StartSweep
  \/ WriteOffUnknown
  \/ \E r \in Request : Retrieve(r) \/ Retrieved(r)
  \/ Waiting
  \/ NotFound
  \/ RetryLater

World ==
  \/ \E r \in Request :
       \/ Admit(r)
       \/ Disconnect(r)
       \/ GrowOld(r)
       \/ ProviderAccepts(r)
       \/ ProviderRefuses(r)
       \/ ProviderEnds(r)
  \/ Restart

Next == (\E r \in Request : Supervise(r)) \/ Worker \/ World

Spec == Init /\ [][Next]_vars

\* Every await of a supervisor ends: the HTTP client has connect and read
\* timeouts, the wait for an id a deadline, and spawned tasks are scheduled.
\* The worker loops for ever and its backoff is at most 60 s, so it retrieves
\* an open dispatch again and again, and a finished response is served in the
\* end. Time passes, and the provider finishes what it started.
Fairness ==
  /\ WF_vars(Worker)
  /\ \A r \in Request :
       /\ WF_vars(Supervise(r))
       /\ SF_vars(Retrieve(r))
       /\ SF_vars(Retrieved(r))
       /\ WF_vars(GrowOld(r))
       /\ WF_vars(ProviderEnds(r))

FairSpec == Spec /\ Fairness

-----------------------------------------------------------------------------
(* Properties                                                              *)

Disposition == {"None", "Settled", "AwaitingRetrieval", "HeldAsUnknown", "WrittenOff",
                "ReleasedUnsent", "ReleasedRejected", "LedgerFailed"}

Task ==
  [pc: {"none", "admitted", "start", "abort", "post", "wait", "relay", "chunk", "ended"},
   conn: BOOLEAN, bg: BOOLEAN, down: BOOLEAN, id: BOOLEAN, late: BOOLEAN, settled: BOOLEAN]

TypeOK ==
  /\ row \in [Request -> {Absent} \cup Active \cup Terminal]
  /\ age \in [Request -> 0..2]
  /\ task \in [Request -> Task]
  /\ head \in [Request -> {"None", "NotSent", "OutcomeUnknown", "Refused", "Stream"}]
  /\ disp \in [Request -> Disposition]
  /\ Swept \subseteq Request
  /\ sweep \in [Swept -> [state: {"DISPATCHED_WITH_ID", "DISPATCHED_ID_UNKNOWN"}, age: 0..2]]
  /\ asking \in BOOLEAN
  /\ asking => Swept # {}
  /\ prov \in [Request -> {"none", "flying", "running", "ended", "refused"}]
  /\ failures \in 0..MaxFailures
  /\ restarts \in 0..MaxRestarts

AccountOf(s) ==
  CASE s = Absent -> "absent"
    [] s \in Active -> "held"
    [] s = "SETTLED" -> "settled"
    [] s = "CONSUMED_UNRECOVERABLE" -> "written off"
    [] OTHER -> "freed"

WorkOf(p) == IF p \in {"running", "ended"} THEN p ELSE "none"

Abstract == INSTANCE Promise WITH
  account <- [r \in Request |-> AccountOf(row[r])],
  work <- [r \in Request |-> WorkOf(prov[r])]

\* The dispatcher, the worker and restarts together keep the promise of
\* module Promise: whatever interleaving of stream, retrieval, disconnect,
\* late arrival and crash, the liability of a request the provider may work
\* on is never freed, and it is charged once.
KeepsPromise == Abstract!Spec

\* What a client is told was not sent never reaches the provider: "Nothing
\* was sent, and no quota was spent" (server.rs), also after a restart.
NotSentIsTrue ==
  \A r \in Request : head[r] = "NotSent" => prov[r] = "none"

LeavesIn ==
  [Settled           |-> {"SETTLED", "CONSUMED_UNRECOVERABLE"},
   AwaitingRetrieval |-> {"DISPATCHED_WITH_ID", "SETTLED", "CONSUMED_UNRECOVERABLE"},
   HeldAsUnknown     |-> {"DISPATCHED_ID_UNKNOWN", "CONSUMED_UNRECOVERABLE"},
   WrittenOff        |-> {"CONSUMED_UNRECOVERABLE"},
   ReleasedUnsent    |-> {"RELEASED_UNSENT"},
   ReleasedRejected  |-> {"REJECTED_BEFORE_PROCESSING"}]

\* A supervisor that ends hands over what it says: a row left for retrieval
\* is one the worker sweeps, and stays so until the worker ends it, through
\* restarts and races with a pass under way.
HandoverHolds ==
  \A r \in Request : disp[r] \in DOMAIN LeavesIn => row[r] \in LeavesIn[disp[r]]

\* An open dispatch is settled or written off in the end, even when a pass
\* races the supervisor, fails half-way or is cut by a restart.
OpenIsResolved ==
  \A r \in Request :
    row[r] \in {"DISPATCHED_WITH_ID", "DISPATCHED_ID_UNKNOWN"} ~> row[r] \in Terminal

\* dispatch.rs: the handler is dropped when its client goes, "and the
\* reservation's transitions must still complete".
ReservationsComplete ==
  \A r \in Request : row[r] = "RESERVED" ~> row[r] # "RESERVED"

=============================================================================
