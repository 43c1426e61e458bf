---------------------------- MODULE RequestSlots ----------------------------
(***************************************************************************)
(* The route counted in requests: a handler that turns to it (server.rs)   *)
(* took its reading of trusted time when it started, maybe long ago, and   *)
(* passes the rate-limit gate; a slot is taken in the ledger with that     *)
(* reading (requests.rs), and the request is sent (openrouter_dispatch.rs).*)
(* Slots and their times are durable, the gate lives in memory.            *)
(*                                                                         *)
(* A handler awaits between any two of these, and is dropped there when    *)
(* its client goes. Where a request's handler is:                          *)
(*   new        not come yet                                               *)
(*   admitting  has read the clock, and is busy with the first route       *)
(*   taking     awaits the slot's transaction, on the blocking pool        *)
(*   orphaned   dropped there: the transaction runs all the same           *)
(*   granted    has the slot, nothing has left                             *)
(*   sent       the request has left, its answer is awaited                *)
(*   answered, refused                                                     *)
(*   lost       dropped, or gone with the process                          *)
(***************************************************************************)
EXTENDS Integers, FiniteSets

CONSTANTS
  Request,        \* requests the route is tried for
  DaySeconds,     \* length of an epoch
  DailyLimit,     \* daily_request_limit
  MaxInWindow,    \* window.max_in_window
  WindowSeconds,  \* window.window_seconds
  Backoffs,       \* how long a 429 may close the gate
  MaxTime         \* bound: seconds modelled

ASSUME SlotsAssumption ==
  /\ DaySeconds \in Nat \ {0}
  /\ DailyLimit \in Nat
  /\ MaxInWindow \in Nat \ {0}
  /\ WindowSeconds \in Nat \ {0}
  /\ Backoffs \subseteq Nat
  /\ MaxTime \in Nat

VARIABLES
  clock,     \* trusted time
  handler,   \* where each request's handler is
  now,       \* its reading of the clock
  used,      \* request_counter.used by epoch
  dispatch,  \* request_dispatch: time recorded for the slot of a request
  gate,      \* closed_until, 0 when open
  left       \* history: when each request that was sent left

vars == <<clock, handler, now, used, dispatch, gate, left>>

Time == 0..MaxTime
EpochOf(t) == t \div DaySeconds
Epoch == {EpochOf(t) : t \in Time}

In(state) == {r \in Request : handler[r] = state}
Goes(r, state) == handler' = [handler EXCEPT ![r] = state]
NoneYet == [r \in {} |-> 0]

-----------------------------------------------------------------------------
(* take_request_slot: one transaction, that ends as one of the actions     *)
(* below whether or not its handler still waits for it.                    *)

Underway(r) == handler[r] \in {"taking", "orphaned"}
Learns(r, state) == Goes(r, IF handler[r] = "taking" THEN state ELSE "lost")

WindowStart(r) == now[r] - WindowSeconds

\* DELETE ... WHERE at < window_start
Kept(r) == {q \in DOMAIN dispatch : dispatch[q] >= WindowStart(r)}

RecentStrictly(r) == {q \in DOMAIN dispatch : dispatch[q] > WindowStart(r)}

\* SELECT COUNT(*) ... WHERE at >= window_start
Recent(r) == {q \in DOMAIN dispatch : dispatch[q] >= WindowStart(r)}

Spent(e) == used[e] >= DailyLimit

Exhausted(r) ==
  /\ Underway(r)
  /\ Spent(EpochOf(now[r]))
  /\ Learns(r, "refused")
  /\ UNCHANGED <<clock, now, used, dispatch, gate, left>>

WindowFullRecorded(r) ==
  /\ Underway(r)
  /\ ~Spent(EpochOf(now[r]))
  /\ Cardinality(Recent(r)) >= MaxInWindow
  /\ dispatch' = [q \in Kept(r) \cup {r} |-> IF q = r THEN now[r] ELSE dispatch[q]]
  /\ Learns(r, "refused")
  /\ UNCHANGED <<clock, now, used, gate, left>>

\* Entries that fell out of the window are deleted either way.
WindowFull(r) ==
  /\ Underway(r)
  /\ ~Spent(EpochOf(now[r]))
  /\ Cardinality(Recent(r)) >= MaxInWindow
  /\ dispatch' = [q \in Kept(r) |-> dispatch[q]]
  /\ Learns(r, "refused")
  /\ UNCHANGED <<clock, now, used, gate, left>>

TakeWithoutCounting(r) ==
  /\ Underway(r)
  /\ ~Spent(EpochOf(now[r]))
  /\ Cardinality(Recent(r)) < MaxInWindow
  /\ dispatch' = [q \in Kept(r) \cup {r} |-> IF q = r THEN now[r] ELSE dispatch[q]]
  /\ Learns(r, "granted")
  /\ UNCHANGED <<clock, now, used, gate, left>>

\* The slot is spent when this commits, and never given back.
Take(r) ==
  /\ Underway(r)
  /\ ~Spent(EpochOf(now[r]))
  /\ Cardinality(Recent(r)) < MaxInWindow
  /\ used' = [used EXCEPT ![EpochOf(now[r])] = @ + 1]
  /\ dispatch' = [q \in Kept(r) \cup {r} |-> IF q = r THEN now[r] ELSE dispatch[q]]
  /\ Learns(r, "granted")
  /\ UNCHANGED <<clock, now, gate, left>>

\* An error rolls the transaction back.
TakeFails(r) ==
  /\ Underway(r)
  /\ Learns(r, "refused")
  /\ UNCHANGED <<clock, now, used, dispatch, gate, left>>

-----------------------------------------------------------------------------
(* The handler                                                             *)

\* create_response reads the clock, then admits and may dispatch.
Arrive(r) ==
  /\ r \in In("new")
  /\ Goes(r, "admitting")
  /\ now' = [now EXCEPT ![r] = clock]
  /\ UNCHANGED <<clock, used, dispatch, gate, left>>

GateClosed(r) ==
  /\ r \in In("admitting")
  /\ clock < gate
  /\ Goes(r, "refused")
  /\ UNCHANGED <<clock, now, used, dispatch, gate, left>>

\* The gate is open: the transaction is handed to the blocking pool.
PassGate(r) ==
  /\ r \in In("admitting")
  /\ clock >= gate
  /\ Goes(r, "taking")
  /\ UNCHANGED <<clock, now, used, dispatch, gate, left>>

\* The handler hears of its slot, and the request goes out.
Send(r) ==
  /\ r \in In("granted")
  /\ Goes(r, "sent")
  /\ left' = [q \in DOMAIN left \cup {r} |-> IF q = r THEN clock ELSE left[q]]
  /\ UNCHANGED <<clock, now, used, dispatch, gate>>

\* A 429 only ever extends the closed period.
RateLimited(r) ==
  /\ r \in In("sent")
  /\ \E wait \in Backoffs :
       gate' = IF clock + wait > gate THEN clock + wait ELSE gate
  /\ Goes(r, "answered")
  /\ UNCHANGED <<clock, now, used, dispatch, left>>

\* Any other answer, or a transport error, before or after the request left:
\* the slot stays spent.
Answered(r) ==
  /\ r \in In("granted") \cup In("sent")
  /\ Goes(r, "answered")
  /\ UNCHANGED <<clock, now, used, dispatch, gate, left>>

\* The client goes, and the handler is dropped at its await; what it handed to
\* the blocking pool is not.
Drop(r) ==
  /\ handler[r] \in {"admitting", "taking", "granted", "sent"}
  /\ Goes(r, IF handler[r] = "taking" THEN "orphaned" ELSE "lost")
  /\ UNCHANGED <<clock, now, used, dispatch, gate, left>>

Tick ==
  /\ clock < MaxTime
  /\ clock' = clock + 1
  /\ UNCHANGED <<handler, now, used, dispatch, gate, left>>

\* Handlers and transactions are lost wherever they are, and so is the gate;
\* the tables survive.
Restart ==
  /\ In("new") # Request
  /\ handler' = [r \in Request |->
                   IF handler[r] \in {"admitting", "taking", "orphaned", "granted", "sent"}
                   THEN "lost" ELSE handler[r]]
  /\ gate' = 0
  /\ UNCHANGED <<clock, now, used, dispatch, left>>

Init ==
  /\ clock = 0
  /\ handler = [r \in Request |-> "new"]
  /\ now = [r \in Request |-> 0]
  /\ used = [e \in Epoch |-> 0]
  /\ dispatch = NoneYet
  /\ gate = 0
  /\ left = NoneYet

Transaction(r) == Exhausted(r) \/ WindowFull(r) \/ Take(r) \/ TakeFails(r)

Next ==
  \/ \E r \in Request :
       \/ Transaction(r)
       \/ Arrive(r)
       \/ GateClosed(r)
       \/ PassGate(r)
       \/ Send(r)
       \/ RateLimited(r)
       \/ Answered(r)
       \/ Drop(r)
  \/ Tick
  \/ Restart

Spec == Init /\ [][Next]_vars

-----------------------------------------------------------------------------
(* Properties                                                              *)

\* Types; and an entry of the window is only ever made for a request that got
\* its slot, not for one still waiting or refused, of which "nothing was
\* spent" (requests.rs:33-35).
TypeOK ==
  /\ clock \in Time
  /\ handler \in [Request -> {"new", "admitting", "taking", "orphaned", "granted",
                              "sent", "answered", "refused", "lost"}]
  /\ now \in [Request -> Time]
  /\ used \in [Epoch -> Nat]
  /\ DOMAIN dispatch \subseteq Request
  /\ dispatch \in [DOMAIN dispatch -> Time]
  /\ \A r \in DOMAIN dispatch : handler[r] \in {"granted", "sent", "answered", "lost"}
  /\ gate \in Nat
  /\ DOMAIN left \subseteq Request
  /\ left \in [DOMAIN left -> Time]

\* Requests that read the clock and left within the window that ends at t.
ReadAndLeft(t) == {r \in DOMAIN left : now[r] >= t - WindowSeconds /\ left[r] <= t}

\* Requests whose reading and departure fall into one window never exceed the
\* provider's short limit, whatever the others do: however old the readings
\* are that prune the table (requests.rs:76-88), in whatever order slots are
\* taken, through restarts and slots spent for nothing.
WindowHeld == \A t \in Time : Cardinality(ReadAndLeft(t)) <= MaxInWindow

\* Requests that left, or may still leave, with a reading of day e.
Spending(e) ==
  {r \in DOMAIN left \cup In("granted") : EpochOf(now[r]) = e}

\* The count of a day never runs under (requests.rs:4-10): everything that left
\* or is about to leave on a reading of that day is on it already, whoever was
\* dropped, failed or died with the process; and it is within the day's limit.
DayHeld ==
  \A e \in Epoch : Cardinality(Spending(e)) <= used[e] /\ used[e] <= DailyLimit

=============================================================================
