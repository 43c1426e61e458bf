------------------------------ MODULE Holdback ------------------------------
(***************************************************************************)
(* Staying away from a provider: the rate-limit gate (rate_limit.rs) and   *)
(* the failure breaker (failure_breaker.rs) as the supervisors of          *)
(* dispatch.rs use them.                                                   *)
(*                                                                         *)
(* A deadline is the time left until it, and 0 once it has passed.  Each   *)
(* task sends one request after another: it reads the gate, then the       *)
(* breaker, makes its dispatch durable, posts, and may be answered long    *)
(* after either has closed.                                                *)
(***************************************************************************)
EXTENDS Integers

CONSTANTS
  Task,              \* requests that may be under way at the same time
  Waits,             \* seconds the provider's headers may ask for
  MIN_BACKOFF, MAX_BACKOFF,
  Threshold, InitialCooldown, MaxCooldown     \* BreakerPolicy

ASSUME HoldbackAssumption ==
  /\ Waits \subseteq Nat
  /\ MIN_BACKOFF \in Nat /\ MAX_BACKOFF \in Nat /\ MIN_BACKOFF =< MAX_BACKOFF
  /\ Threshold \in Nat
  /\ InitialCooldown \in Nat \ {0} /\ MaxCooldown \in Nat
  /\ InitialCooldown =< MaxCooldown

VARIABLES
  closed_for,                                     \* RateLimitGate
  open_for, consecutive_failures, next_cooldown,  \* FailureBreaker
  pc,                \* where each task is
  asked,             \* history: what is left of the wait each task was told
  last_hold,         \* history: the last hold since a completion, or 0
  doubts             \* history: reservations each left in doubt since it began

gate == closed_for
breaker == <<open_for, consecutive_failures, next_cooldown>>
history == <<asked, last_hold, doubts>>
vars == <<gate, breaker, pc, history>>

Place == {"idle", "gate_open", "breaker_closed", "posted", "relaying"}

Larger(a, b) == IF a >= b THEN a ELSE b
Smaller(a, b) == IF a =< b THEN a ELSE b
Clamp(wait) == Larger(MIN_BACKOFF, Smaller(wait, MAX_BACKOFF))

-----------------------------------------------------------------------------
(* The gate. *)

\* The bug of letting the last signal win.
CloseUntilSaid(t, wait) ==
  /\ closed_for' = wait
  /\ asked' = [asked EXCEPT ![t] = wait]

\* close_until only ever extends.
CloseUntil(t, wait) ==
  /\ closed_for' = Larger(closed_for, wait)
  /\ asked' = [asked EXCEPT ![t] = wait]

-----------------------------------------------------------------------------
(* The breaker. *)

\* The bug of opening at the threshold only, and never again.
OpensOnce(failures) == open_for = 0 /\ failures = Threshold

Opens(failures) == open_for = 0 /\ failures >= Threshold

\* record_ambiguous_failure.  The count is only ever compared with the
\* threshold: one more than that stands for all larger numbers.
RecordAmbiguousFailure(t) ==
  LET failures == Smaller(consecutive_failures + 1, Threshold + 1)
  IN  /\ consecutive_failures' = failures
      /\ IF Opens(failures)
         THEN /\ open_for' = next_cooldown
              /\ next_cooldown' = Smaller(2 * next_cooldown, MaxCooldown)
              /\ last_hold' = next_cooldown
              /\ doubts' = [u \in Task |-> IF u = t THEN 1 ELSE 0]
         ELSE /\ doubts' = IF last_hold = 0 THEN doubts
                           ELSE [doubts EXCEPT ![t] = @ + 1]
              /\ UNCHANGED <<open_for, next_cooldown, last_hold>>

\* The bug of a completion that leaves the cooldown as long as it was.
RecordCompletionOfCount ==
  /\ consecutive_failures' = 0
  /\ last_hold' = 0
  /\ doubts' = [t \in Task |-> 0]
  /\ UNCHANGED <<open_for, next_cooldown>>

RecordCompletion ==
  /\ consecutive_failures' = 0
  /\ next_cooldown' = InitialCooldown
  /\ last_hold' = 0
  /\ doubts' = [t \in Task |-> 0]
  /\ UNCHANGED open_for

-----------------------------------------------------------------------------
(* The supervisor of a request, dispatch.rs:207-300 and relay. *)

At(t, place) == pc[t] = place
GoTo(t, place) == pc' = [pc EXCEPT ![t] = place]

FindsGateOpen(t) ==
  /\ At(t, "idle") /\ closed_for = 0
  /\ GoTo(t, "gate_open")
  /\ UNCHANGED <<gate, breaker, history>>

\* The bug of taking one's own refusal for one of the provider's.
HoldBackAndExtend(t) ==
  /\ \/ At(t, "idle") /\ closed_for > 0
     \/ At(t, "gate_open") /\ open_for > 0
  /\ GoTo(t, "idle")
  /\ CloseUntil(t, MIN_BACKOFF)
  /\ UNCHANGED <<breaker, last_hold, doubts>>

\* Refused here, released unsent; the client may ask again.
HoldBack(t) ==
  /\ \/ At(t, "idle") /\ closed_for > 0
     \/ At(t, "gate_open") /\ open_for > 0
  /\ GoTo(t, "idle")
  /\ UNCHANGED <<gate, breaker, history>>

FindsBreakerClosed(t) ==
  /\ At(t, "gate_open") /\ open_for = 0
  /\ GoTo(t, "breaker_closed")
  /\ UNCHANGED <<gate, breaker, history>>

\* begin_dispatch is durable and the request leaves, or it fails and it is
\* released; neither the gate nor the breaker is read again.
Post(t) ==
  /\ At(t, "breaker_closed")
  /\ GoTo(t, "posted") \/ GoTo(t, "idle")
  /\ UNCHANGED <<gate, breaker, history>>

\* A transport error, or a status that does not say what happened.
Ambiguous(t) ==
  /\ At(t, "posted")
  /\ GoTo(t, "idle")
  /\ RecordAmbiguousFailure(t)
  /\ UNCHANGED <<gate, asked>>

\* A 429 with any of its headers, or none that can be used.
RateLimited(t) ==
  /\ At(t, "posted")
  /\ GoTo(t, "idle")
  /\ \E wait \in Waits \cup {MIN_BACKOFF} : CloseUntil(t, Clamp(wait))
  /\ UNCHANGED <<breaker, last_hold, doubts>>

\* Refused before processing started: says nothing of the provider's health.
Rejected(t) ==
  /\ At(t, "posted")
  /\ GoTo(t, "idle")
  /\ UNCHANGED <<gate, breaker, history>>

\* A success; its headers may say that nothing is left in this window.
Accepted(t) ==
  /\ At(t, "posted")
  /\ GoTo(t, "relaying")
  /\ \/ \E wait \in Waits : CloseUntil(t, Smaller(wait, MAX_BACKOFF))
     \/ UNCHANGED <<gate, asked>>
  /\ UNCHANGED <<breaker, last_hold, doubts>>

\* The terminal event.
Completes(t) ==
  /\ At(t, "relaying")
  /\ GoTo(t, "idle")
  /\ RecordCompletion
  /\ UNCHANGED <<gate, asked>>

\* The stream ends without one.
Breaks(t) ==
  /\ At(t, "relaying")
  /\ GoTo(t, "idle")
  /\ RecordAmbiguousFailure(t)
  /\ UNCHANGED <<gate, asked>>

\* The client went and the wait for an id ended, or the observer gave up.
GivesUp(t) ==
  /\ At(t, "relaying")
  /\ GoTo(t, "idle")
  /\ UNCHANGED <<gate, breaker, history>>

Less(n) == Larger(n - 1, 0)
Tick ==
  /\ closed_for' = Less(closed_for)
  /\ open_for' = Less(open_for)
  /\ asked' = [t \in Task |-> Less(asked[t])]
  /\ UNCHANGED <<consecutive_failures, next_cooldown, pc, last_hold, doubts>>

Init ==
  /\ closed_for = 0
  /\ open_for = 0
  /\ consecutive_failures = 0
  /\ next_cooldown = InitialCooldown
  /\ pc = [t \in Task |-> "idle"]
  /\ asked = [t \in Task |-> 0]
  /\ last_hold = 0
  /\ doubts = [t \in Task |-> 0]

Asks(t) == FindsGateOpen(t) \/ FindsBreakerClosed(t) \/ HoldBack(t)
Answered(t) == Ambiguous(t) \/ RateLimited(t) \/ Rejected(t) \/ Accepted(t)
Relayed(t) == Completes(t) \/ Breaks(t) \/ GivesUp(t)

Next == Tick \/ \E t \in Task : Asks(t) \/ Post(t) \/ Answered(t) \/ Relayed(t)

Spec == Init /\ [][Next]_vars

\* Time passes. No request has to be sent, answered or asked for.
FairSpec == Spec /\ WF_vars(Tick)

-----------------------------------------------------------------------------
(* Properties. *)

TypeOK ==
  /\ closed_for \in Nat
  /\ open_for \in Nat
  /\ consecutive_failures \in Nat
  /\ next_cooldown \in Nat \ {0}
  /\ pc \in [Task -> Place]
  /\ asked \in [Task -> Nat]
  /\ last_hold \in Nat
  /\ doubts \in [Task -> Nat]

\* The gate is closed for as long as any answer asked for, whatever answers
\* came after it, and no longer than the longest (rate_limit.rs:71-77).
GateHonoured ==
  /\ \A t \in Task : asked[t] =< closed_for
  /\ closed_for =< MAX_BACKOFF

\* Holds grow: without a completion in between, the breaker opens only when
\* the last hold is over, and holds for twice as long, up to the cap; after a
\* completion it takes the threshold again and starts short
\* (failure_breaker.rs:12-17).
HoldsGrow ==
  [][open_for' > open_for =>
       /\ open_for = 0
       /\ open_for' = IF last_hold = 0 THEN InitialCooldown
                      ELSE Smaller(2 * last_hold, MaxCooldown)]_vars

\* What the breaker is for: once it has opened, and until a response
\* completes, nobody leaves a second reservation in doubt before it opens
\* again, however late the first ones fail and whenever the checks were made
\* (failure_breaker.rs:3-17, dispatch.rs:209-215).
OncePerHold == \A t \in Task : doubts[t] =< 1

\* Waiting helps: when nothing is sent any more, both are open in the end,
\* however often clients ask meanwhile (dispatch.rs:207-224).
Quiet == \A t \in Task : pc[t] \in {"idle", "gate_open"}
NotHeldForever == <>[]Quiet => []<>(closed_for = 0 /\ open_for = 0)

=============================================================================
