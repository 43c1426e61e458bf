---------------------------- MODULE EpochWindow ----------------------------
(***************************************************************************)
(* The day boundary. The provider resets the grant at the end of each of   *)
(* its days; the proxy follows with readings of the provider's clock       *)
(* (clock.rs) advanced by a monotonic one, a window that closes around the *)
(* boundary (epoch.rs) and a rollover once it has passed (runtime.rs).     *)
(* Handlers decide from the window and reserve later (server.rs,           *)
(* admission.rs). Quota is module Ledger's; here a reservation is the set  *)
(* of epochs whose pool it weighs on.                                      *)
(***************************************************************************)
EXTENDS Integers, FiniteSets

CONSTANTS
  Request,        \* requests
  DaySeconds,     \* SECONDS_PER_DAY
  Uncertainty,    \* reading_uncertainty
  OpenDelay,      \* open_delay
  MaxReadingAge,  \* max_reading_age
  MaxLag,         \* how old a Date header is when it is read: resolution, round trip
  DriftPeriod,    \* the monotonic clock drifts by at most a second in this many
  StartTime,      \* the time the model starts at, in day 0
  MaxTime,        \* bound: seconds modelled
  MaxRestarts     \* bound: restarts of the process

None == [upstream |-> 0, local |-> 0, drift |-> 2]  \* no reading

\* Whole periods, the last one begun included.
Periods(elapsed) == (elapsed + DriftPeriod - 1) \div DriftPeriod

\* ClockPolicy: "reading_uncertainty covers the source's one-second
\* resolution, the round trip, and local clock drift over max_reading_age".
ASSUME WindowAssumption ==
  /\ DaySeconds \in Nat \ {0} /\ DriftPeriod \in Nat \ {0}
  /\ Uncertainty \in Nat \ {0} /\ OpenDelay \in Nat /\ MaxReadingAge \in Nat \ {0}
  /\ MaxLag \in Nat
  /\ MaxLag + Periods(MaxReadingAge) <= Uncertainty
  /\ StartTime \in MaxLag..(DaySeconds - 1) /\ MaxRestarts \in Nat
  /\ MaxTime \in Nat /\ StartTime <= MaxTime

VARIABLES
  time,      \* the provider's clock
  process,   \* down, starting with a reading or up
  reading,   \* the last TrustedReading, with the drift of the clock since
  epoch,     \* ledger_meta.current_epoch
  loop,      \* the clock loop: asleep, or what it has read so far
  handler,   \* each request's handler: where it is, and what it has read
  rows,      \* the epochs each reservation weighs on
  restarts   \* restarts so far

vars == <<time, process, reading, epoch, loop, handler, rows, restarts>>

DayOf(t) == t \div DaySeconds
EndOf(e) == (e + 1) * DaySeconds

-----------------------------------------------------------------------------
(* window                                                                  *)

Elapsed == time - reading.local
Estimate == reading.upstream + Elapsed + reading.drift * Periods(Elapsed)

Readable == reading # None /\ Elapsed <= MaxReadingAge

WindowOpenOnEstimate(current) == Readable /\ Estimate < EndOf(current)

\* Window::Open
WindowOpen(current) == Readable /\ Estimate + Uncertainty < EndOf(current)

\* The epoch Window::RolloverDue names, if it is later than the current one.
DueWithoutDelay == DayOf(Estimate - Uncertainty)

DueAtLatest == DayOf(Estimate + Uncertainty - OpenDelay)

DueTheDayAfter == DayOf(Estimate - Uncertainty - OpenDelay) + 1

Due == DayOf(Estimate - Uncertainty - OpenDelay)

RolloverDue(current) == Readable /\ ~WindowOpen(current) /\ Due > current

-----------------------------------------------------------------------------
(* Actions                                                                 *)

In(pc) == {r \in Request : handler[r].pc = pc}
At(pc, e, opened) == [pc |-> pc, current |-> e, opened |-> opened]
Goes(r, pc, e) == handler' = [handler EXCEPT ![r] = At(pc, e, @.opened)]
Arrived == At("arrived", 0, FALSE)
Asleep == [pc |-> "asleep", current |-> 0]

\* What a day's carry forgets if it looks at the rows of sent requests only.
RollOverSentOnly(e) ==
  /\ epoch' = IF e > epoch THEN e ELSE epoch
  /\ rows' = [r \in Request |->
                IF e > epoch /\ handler[r].pc = "sent" THEN rows[r] \cup {e} ELSE rows[r]]

\* A response read now: its Date header is up to MaxLag old.
Reads ==
  \E lag \in 0..MaxLag, drift \in -1..1 :
    reading' = [upstream |-> time - lag, local |-> time, drift |-> drift]

\* Active reservations are carried into the epoch opened, and none is
\* opened again.
RollOver(e) ==
  /\ epoch' = IF e > epoch THEN e ELSE epoch
  /\ rows' = [r \in Request |->
                IF e > epoch /\ handler[r].pc \in {"reserved", "sent"}
                THEN rows[r] \cup {e} ELSE rows[r]]

\* Runtime::start reads the clock and rolls over to the reading's epoch.
ReadAtStart ==
  /\ process = "down"
  /\ process' = "starting"
  /\ Reads
  /\ UNCHANGED <<time, epoch, loop, handler, rows, restarts>>

RollOverAtStart ==
  /\ process = "starting"
  /\ process' = "up"
  /\ RollOver(DayOf(reading.upstream))
  /\ UNCHANGED <<time, reading, loop, handler, restarts>>

\* The clock loop wakes; a refresh that fails is tried again at its next turn.
Refresh ==
  /\ process = "up" /\ loop = Asleep
  /\ Reads
  /\ loop' = [loop EXCEPT !.pc = "refreshed"]
  /\ UNCHANGED <<time, process, epoch, handler, rows, restarts>>

LoopReadsEpoch ==
  /\ process = "up" /\ loop.pc = "refreshed"
  /\ loop' = [pc |-> "read", current |-> epoch]
  /\ UNCHANGED <<time, process, reading, epoch, handler, rows, restarts>>

LoopDecides ==
  /\ process = "up" /\ loop.pc = "read"
  /\ loop' = IF RolloverDue(loop.current) THEN [pc |-> "opening", current |-> Due] ELSE Asleep
  /\ UNCHANGED <<time, process, reading, epoch, handler, rows, restarts>>

LoopRollsOver ==
  /\ process = "up" /\ loop.pc = "opening"
  /\ RollOver(loop.current)
  /\ loop' = Asleep
  /\ UNCHANGED <<time, process, reading, handler, restarts>>

\* current_window: the ledger's epoch first, the clock when it has answered.
ReadEpoch(r) ==
  /\ process = "up" /\ r \in In("arrived")
  /\ Goes(r, "read", epoch)
  /\ UNCHANGED <<time, process, reading, epoch, loop, rows, restarts>>

Admitted(r) ==
  /\ process = "up" /\ r \in In("read")
  /\ WindowOpen(handler[r].current)
  /\ Goes(r, "admitted", handler[r].current)
  /\ UNCHANGED <<time, process, reading, epoch, loop, rows, restarts>>

\* create_response makes a rollover that is due on the spot, once.
FindsDue(r) ==
  /\ process = "up" /\ r \in In("read")
  /\ RolloverDue(handler[r].current) /\ ~handler[r].opened
  /\ Goes(r, "opening", Due)
  /\ UNCHANGED <<time, process, reading, epoch, loop, rows, restarts>>

\* ensure_epoch, after which the window is asked for again.
RollsOver(r) ==
  /\ process = "up" /\ r \in In("opening")
  /\ RollOver(handler[r].current)
  /\ handler' = [handler EXCEPT ![r] = At("arrived", 0, TRUE)]
  /\ UNCHANGED <<time, process, reading, loop, restarts>>

Refused(r) ==
  /\ process = "up" /\ r \in In("read")
  /\ ~WindowOpen(handler[r].current)
  /\ RolloverDue(handler[r].current) => handler[r].opened
  /\ Goes(r, "refused", 0)
  /\ UNCHANGED <<time, process, reading, epoch, loop, rows, restarts>>

\* The input has been counted and the reservation is made, in the epoch
\* that is current by now.
Reserve(r) ==
  /\ process = "up" /\ r \in In("admitted")
  /\ Goes(r, "reserved", 0)
  /\ rows' = [rows EXCEPT ![r] = {epoch}]
  /\ UNCHANGED <<time, process, reading, epoch, loop, restarts>>

Send(r) ==
  /\ process = "up" /\ r \in In("reserved")
  /\ Goes(r, "sent", 0)
  /\ UNCHANGED <<time, process, reading, epoch, loop, rows, restarts>>

\* The response ends and is settled, by a supervisor or by retrieval.
Settle(r) ==
  /\ process = "up" /\ r \in In("sent")
  /\ Goes(r, "settled", 0)
  /\ UNCHANGED <<time, process, reading, epoch, loop, rows, restarts>>

Tick ==
  /\ time < MaxTime
  /\ time' = time + 1
  /\ UNCHANGED <<process, reading, epoch, loop, handler, rows, restarts>>

\* Readings and handlers are lost; what was sent stays reserved.
Crash ==
  /\ process # "down" /\ restarts < MaxRestarts
  /\ process' = "down"
  /\ restarts' = restarts + 1
  /\ reading' = None
  /\ loop' = Asleep
  /\ handler' = [r \in Request |->
                   IF handler[r].pc \in {"sent", "settled", "refused"} THEN handler[r]
                   ELSE At("refused", 0, FALSE)]
  /\ rows' = [r \in Request |-> IF r \in In("reserved") THEN {} ELSE rows[r]]
  /\ UNCHANGED <<time, epoch>>

Init ==
  /\ time = StartTime
  /\ process = "down"
  /\ reading = None
  /\ epoch = 0
  /\ loop = Asleep
  /\ handler = [r \in Request |-> Arrived]
  /\ rows = [r \in Request |-> {}]
  /\ restarts = 0

Next ==
  \/ ReadAtStart
  \/ RollOverAtStart
  \/ Refresh
  \/ LoopReadsEpoch
  \/ LoopDecides
  \/ LoopRollsOver
  \/ \E r \in Request :
       \/ ReadEpoch(r)
       \/ Admitted(r)
       \/ FindsDue(r)
       \/ RollsOver(r)
       \/ Refused(r)
       \/ Reserve(r)
       \/ Send(r)
       \/ Settle(r)
  \/ Tick
  \/ Crash

Spec == Init /\ [][Next]_vars

-----------------------------------------------------------------------------
(* Properties                                                              *)

Time == 0..MaxTime
Epoch == 0..DayOf(MaxTime)

TypeOK ==
  /\ time \in Time
  /\ process \in {"down", "starting", "up"}
  /\ reading = None \/ reading \in [upstream: Time, local: Time, drift: -1..1]
  /\ process # "down" => reading # None
  /\ epoch \in Epoch
  /\ loop \in [pc: {"asleep", "refreshed", "read", "opening"}, current: Epoch]
  /\ handler \in [Request -> [pc: {"arrived", "read", "opening", "admitted", "reserved", "sent",
                                   "settled", "refused"},
                              current: Epoch, opened: BOOLEAN]]
  /\ rows \in [Request -> SUBSET Epoch]
  /\ restarts \in 0..MaxRestarts

\* epoch.rs: "Opening the next day's pool before upstream has reset" never
\* happens, whether the loop, a handler or a start opens it, with any reading
\* the policy's uncertainty allows for.
NeverOpenedEarly == epoch <= DayOf(time)

\* "The next day's pool is never opened sooner than this after the upstream
\* reset": while the process runs. A start opens it at once.
OpenedAfterDelay ==
  [][process = "up" /\ epoch' # epoch => time >= epoch' * DaySeconds + OpenDelay]_vars

\* A request is let in only while the provider is certainly still in the day
\* the ledger gives out from, also when the reading has aged and another task
\* rolls over between the two reads of current_window.
AdmittedOnItsDay ==
  [][\A r \in Request : r \in In("read") /\ handler'[r].pc = "admitted"
       => handler'[r].current = DayOf(time) /\ epoch = DayOf(time)]_vars

\* Whatever opens an epoch, and whenever a request was let in, the pool given
\* out from counts every request the provider is working on.
InFlightCounted == \A r \in In("sent") : epoch \in rows[r]

=============================================================================
