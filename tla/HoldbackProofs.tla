--------------------------- MODULE HoldbackProofs ---------------------------
(***************************************************************************)
(* The gate and the breaker for any number of requests under way, any      *)
(* policy and whatever the provider's headers say.                         *)
(***************************************************************************)
EXTENDS Holdback, TLAPS

\* Past the breaker's check.
Cleared(t) == pc[t] \in {"breaker_closed", "posted", "relaying"}

\* The cooldown to come is the one after the last hold; a breaker that has
\* opened stays at its threshold; and who has left a request in doubt in this
\* hold is past the checks again only once the hold is over.
BreakerInv ==
  /\ next_cooldown = IF last_hold = 0 THEN InitialCooldown
                     ELSE Smaller(2 * last_hold, MaxCooldown)
  /\ last_hold > 0 => consecutive_failures >= Threshold
  /\ \A t \in Task : doubts[t] > 0 => last_hold > 0
  /\ \A t \in Task : doubts[t] > 0 /\ Cleared(t) => open_for = 0

IInv == TypeOK /\ GateHonoured /\ BreakerInv /\ OncePerHold

-----------------------------------------------------------------------------
(* The two records a result is written to. *)

\* close_until honours the new wait and every earlier one.
LEMMA CloseUntilHonours ==
  ASSUME TypeOK, GateHonoured,
         NEW t \in Task, NEW wait \in Nat, wait =< MAX_BACKOFF,
         CloseUntil(t, wait)
  PROVE  /\ closed_for' \in Nat
         /\ asked' \in [Task -> Nat]
         /\ GateHonoured'
  BY HoldbackAssumption DEF CloseUntil, Larger, TypeOK, GateHonoured

\* The waits the gate is closed for are within its bounds.
LEMMA ClampBounded ==
  ASSUME NEW wait \in Waits \cup {MIN_BACKOFF}
  PROVE  /\ Clamp(wait) \in Nat
         /\ Clamp(wait) =< MAX_BACKOFF
         /\ Smaller(wait, MAX_BACKOFF) \in Nat
         /\ Smaller(wait, MAX_BACKOFF) =< MAX_BACKOFF
  BY HoldbackAssumption DEF Clamp, Larger, Smaller

\* An ambiguous failure of a request that was sent: it opens the breaker, or
\* it is the first its task has in this hold.
LEMMA FailureKeeps ==
  ASSUME IInv, NEW t \in Task, Cleared(t),
         pc' = [pc EXCEPT ![t] = "idle"], RecordAmbiguousFailure(t),
         UNCHANGED <<closed_for, asked>>
  PROVE  IInv'
  <1> DEFINE failures == Smaller(consecutive_failures + 1, Threshold + 1)
  <1> USE HoldbackAssumption
  <1>1. failures \in Nat /\ consecutive_failures' = failures
    BY DEF IInv, TypeOK, RecordAmbiguousFailure, Smaller
  <1>2. last_hold > 0 => failures >= Threshold
    BY DEF IInv, TypeOK, BreakerInv, Smaller
  <1>3. pc' \in [Task -> Place] /\ ~Cleared(t)'
    BY DEF IInv, TypeOK, Place, Cleared
  <1>4. \A u \in Task \ {t} : Cleared(u)' = Cleared(u)
    BY DEF IInv, TypeOK, Cleared
  <1>5. GateHonoured'
    BY DEF IInv, GateHonoured
  <1>6. CASE Opens(failures)
    <2>1. /\ open_for' = next_cooldown
          /\ next_cooldown' = Smaller(2 * next_cooldown, MaxCooldown)
          /\ last_hold' = next_cooldown
          /\ doubts' = [u \in Task |-> IF u = t THEN 1 ELSE 0]
      BY <1>6 DEF RecordAmbiguousFailure
    <2>2. next_cooldown \in Nat \ {0} /\ next_cooldown' \in Nat \ {0}
      BY <2>1 DEF IInv, TypeOK, Smaller
    <2>3. TypeOK'
      BY <1>1, <1>3, <2>1, <2>2 DEF IInv, TypeOK
    <2>4. failures >= Threshold
      BY <1>6 DEF Opens
    <2>5. BreakerInv'
      BY <1>1, <1>3, <2>1, <2>2, <2>4 DEF BreakerInv
    <2>6. OncePerHold'
      BY <2>1 DEF OncePerHold
    <2> QED BY <1>5, <2>3, <2>5, <2>6 DEF IInv
  <1>7. CASE ~Opens(failures)
    <2>1. /\ doubts' = IF last_hold = 0 THEN doubts
                       ELSE [doubts EXCEPT ![t] = @ + 1]
          /\ UNCHANGED <<open_for, next_cooldown, last_hold>>
      BY <1>7 DEF RecordAmbiguousFailure
    <2>2. last_hold > 0 => open_for # 0
      BY <1>2, <1>7 DEF Opens
    <2>3. last_hold > 0 => doubts[t] = 0
      BY <2>2 DEF IInv, TypeOK, BreakerInv
    <2>4. TypeOK'
      BY <1>1, <1>3, <2>1 DEF IInv, TypeOK
    <2>5. OncePerHold'
      BY <2>1, <2>3 DEF IInv, TypeOK, OncePerHold
    <2>6. \A u \in Task : doubts'[u] > 0 => last_hold' > 0
      BY <2>1, <2>3 DEF IInv, TypeOK, BreakerInv
    <2>7. \A u \in Task : doubts'[u] > 0 /\ Cleared(u)' => open_for' = 0
      BY <1>3, <1>4, <2>1, <2>3 DEF IInv, TypeOK, BreakerInv
    <2>8. last_hold' > 0 => consecutive_failures' >= Threshold
      BY <1>1, <1>2, <2>1
    <2>9. BreakerInv'
      BY <2>1, <2>6, <2>7, <2>8 DEF IInv, BreakerInv
    <2> QED BY <1>5, <2>4, <2>5, <2>9 DEF IInv
  <1> QED BY <1>6, <1>7

-----------------------------------------------------------------------------
LEMMA InitHolds == Init => IInv
  BY HoldbackAssumption
     DEF Init, IInv, TypeOK, GateHonoured, BreakerInv, OncePerHold, Cleared, Place

\* A step that moves one task, short of clearing it, and no record.
LEMMA MoveKeeps ==
  ASSUME IInv, NEW t \in Task, NEW place \in Place,
         pc' = [pc EXCEPT ![t] = place],
         place \in {"idle", "gate_open"} \/ open_for = 0 \/ Cleared(t),
         UNCHANGED <<breaker, last_hold, doubts>>,
         closed_for' \in Nat, asked' \in [Task -> Nat], GateHonoured'
  PROVE  IInv'
  <1>1. TypeOK'
    BY DEF IInv, TypeOK, breaker
  <1>2. \A u \in Task : Cleared(u)' => Cleared(u) \/ open_for = 0
    BY DEF IInv, TypeOK, Cleared
  <1>3. BreakerInv'
    BY <1>2 DEF IInv, BreakerInv, breaker
  <1> QED BY <1>1, <1>3 DEF IInv, OncePerHold, breaker

LEMMA NextKeeps == IInv /\ [Next]_vars => IInv'
  <1> SUFFICES ASSUME IInv, [Next]_vars PROVE IInv'
    OBVIOUS
  <1> USE DEF gate, history
  <1>0. closed_for \in Nat /\ asked \in [Task -> Nat]
    BY DEF IInv, TypeOK
  <1>1. ASSUME Tick PROVE IInv'
    <2> USE HoldbackAssumption
    <2>1. TypeOK' BY <1>1 DEF IInv, TypeOK, Tick, Less, Larger
    <2>2. GateHonoured'
      BY <1>1 DEF IInv, TypeOK, GateHonoured, Tick, Less, Larger
    <2>3. open_for = 0 => open_for' = 0
      BY <1>1 DEF Tick, Less, Larger
    <2>4. BreakerInv' BY <1>1, <2>3 DEF IInv, BreakerInv, Tick, Cleared
    <2>5. OncePerHold' BY <1>1 DEF IInv, OncePerHold, Tick
    <2> QED BY <2>1, <2>2, <2>4, <2>5 DEF IInv
  <1>2. ASSUME NEW t \in Task, Asks(t) PROVE IInv'
    <2>1. /\ \/ pc' = [pc EXCEPT ![t] = "gate_open"]
             \/ pc' = [pc EXCEPT ![t] = "idle"]
             \/ pc' = [pc EXCEPT ![t] = "breaker_closed"] /\ open_for = 0
          /\ UNCHANGED <<gate, breaker, history>>
      BY <1>2 DEF Asks, FindsGateOpen, FindsBreakerClosed, HoldBack, GoTo
    <2>2. GateHonoured' BY <2>1 DEF IInv, GateHonoured
    <2> QED BY <1>0, <2>1, <2>2, MoveKeeps DEF Place
  <1>3. ASSUME NEW t \in Task, Post(t) PROVE IInv'
    <2>1. /\ \/ pc' = [pc EXCEPT ![t] = "posted"]
             \/ pc' = [pc EXCEPT ![t] = "idle"]
          /\ Cleared(t)
          /\ UNCHANGED <<gate, breaker, history>>
      BY <1>3 DEF Post, GoTo, At, Cleared
    <2>2. GateHonoured' BY <2>1 DEF IInv, GateHonoured
    <2> QED BY <1>0, <2>1, <2>2, MoveKeeps DEF Place
  <1>4. ASSUME NEW t \in Task, Ambiguous(t) \/ Breaks(t) PROVE IInv'
    <2>1. /\ Cleared(t)
          /\ pc' = [pc EXCEPT ![t] = "idle"]
          /\ RecordAmbiguousFailure(t)
          /\ UNCHANGED <<closed_for, asked>>
      BY <1>4 DEF Ambiguous, Breaks, GoTo, At, Cleared
    <2> QED BY <2>1, FailureKeeps
  <1>5. ASSUME NEW t \in Task, RateLimited(t) PROVE IInv'
    <2>1. PICK wait \in Waits \cup {MIN_BACKOFF} : CloseUntil(t, Clamp(wait))
      BY <1>5 DEF RateLimited
    <2>2. closed_for' \in Nat /\ asked' \in [Task -> Nat] /\ GateHonoured'
      BY <2>1, ClampBounded, CloseUntilHonours DEF IInv
    <2>3. pc' = [pc EXCEPT ![t] = "idle"]
          /\ UNCHANGED <<breaker, last_hold, doubts>>
      BY <1>5 DEF RateLimited, GoTo
    <2> QED BY <2>2, <2>3, MoveKeeps DEF Place
  <1>6. ASSUME NEW t \in Task, Accepted(t) PROVE IInv'
    <2>1. Cleared(t) /\ pc' = [pc EXCEPT ![t] = "relaying"]
          /\ UNCHANGED <<breaker, last_hold, doubts>>
      BY <1>6 DEF Accepted, GoTo, At, Cleared
    <2>2. CASE UNCHANGED <<closed_for, asked>>
      <3>1. GateHonoured' BY <2>2 DEF IInv, GateHonoured
      <3> QED BY <1>0, <2>1, <2>2, <3>1, MoveKeeps DEF Place
    <2>3. CASE \E wait \in Waits : CloseUntil(t, Smaller(wait, MAX_BACKOFF))
      <3>1. closed_for' \in Nat /\ asked' \in [Task -> Nat] /\ GateHonoured'
        BY <2>3, ClampBounded, CloseUntilHonours DEF IInv
      <3> QED BY <2>1, <3>1, MoveKeeps DEF Place
    <2> QED BY <1>6, <2>2, <2>3 DEF Accepted
  <1>7. ASSUME NEW t \in Task, Rejected(t) \/ GivesUp(t) PROVE IInv'
    <2>1. /\ pc' = [pc EXCEPT ![t] = "idle"]
          /\ UNCHANGED <<gate, breaker, history>>
      BY <1>7 DEF Rejected, GivesUp, GoTo
    <2>2. GateHonoured' BY <2>1 DEF IInv, GateHonoured
    <2> QED BY <1>0, <2>1, <2>2, MoveKeeps DEF Place
  <1>8. ASSUME NEW t \in Task, Completes(t) PROVE IInv'
    <2> USE HoldbackAssumption
    <2>1. pc' \in [Task -> Place]
      BY <1>8 DEF IInv, TypeOK, Completes, GoTo, Place
    <2>2. TypeOK'
      BY <1>8, <2>1 DEF IInv, TypeOK, Completes, RecordCompletion
    <2>3. GateHonoured' BY <1>8 DEF IInv, GateHonoured, Completes
    <2>4. BreakerInv' /\ OncePerHold'
      BY <1>8 DEF BreakerInv, OncePerHold, Completes, RecordCompletion
    <2> QED BY <2>2, <2>3, <2>4 DEF IInv
  <1>9. ASSUME UNCHANGED vars PROVE IInv'
    BY <1>9 DEF vars, breaker, IInv, TypeOK, GateHonoured, BreakerInv,
                OncePerHold, Cleared
  <1> QED
    BY <1>1, <1>2, <1>3, <1>4, <1>5, <1>6, <1>7, <1>8, <1>9
       DEF Next, Answered, Relayed

LEMMA Invariance == Spec => []IInv
  BY InitHolds, NextKeeps, PTL DEF Spec

-----------------------------------------------------------------------------
\* No deadline is ever negative and no cooldown zero.
THEOREM TypesCorrect == Spec => []TypeOK
  <1>1. IInv => TypeOK BY DEF IInv
  <1> QED BY <1>1, Invariance, PTL

\* The gate stays closed as long as any answer asked for (GateHonoured).
THEOREM EveryWaitHonoured == Spec => []GateHonoured
  <1>1. IInv => GateHonoured BY DEF IInv
  <1> QED BY <1>1, Invariance, PTL

\* A provider that fails holds at most one reservation per request under way
\* in doubt for each opening of the breaker (OncePerHold).
THEOREM OneDoubtPerHold == Spec => []OncePerHold
  <1>1. IInv => OncePerHold BY DEF IInv
  <1> QED BY <1>1, Invariance, PTL

\* Holds double until a response completes (HoldsGrow).
THEOREM HoldsDouble == Spec => HoldsGrow
  <1> DEFINE Grows ==
        open_for' > open_for =>
          /\ open_for = 0
          /\ open_for' = IF last_hold = 0 THEN InitialCooldown
                         ELSE Smaller(2 * last_hold, MaxCooldown)
  <1>1. IInv /\ [Next]_vars => [Grows]_vars
    <2> SUFFICES ASSUME IInv, [Next]_vars PROVE Grows
      OBVIOUS
    <2>1. open_for \in Nat /\ ~(open_for > open_for)
      BY DEF IInv, TypeOK
    <2>2. ASSUME NEW t \in Task, RecordAmbiguousFailure(t) PROVE Grows
      BY <2>1, <2>2 DEF RecordAmbiguousFailure, Opens, IInv, BreakerInv
    <2>3. CASE Tick
      BY <2>1, <2>3 DEF Tick, Less, Larger
    <2>4. CASE UNCHANGED open_for
      BY <2>1, <2>4
    <2>5. ASSUME NEW t \in Task, Answered(t) \/ Relayed(t) \/ Asks(t) \/ Post(t)
          PROVE  UNCHANGED open_for \/ RecordAmbiguousFailure(t)
      BY <2>5 DEF Answered, Relayed, Asks, Post, Ambiguous, RateLimited, Rejected,
                  Accepted, Completes, Breaks, GivesUp, FindsGateOpen,
                  FindsBreakerClosed, HoldBack, RecordCompletion, breaker
    <2> QED BY <2>2, <2>3, <2>4, <2>5 DEF Next, vars, breaker
  <1> QED BY <1>1, Invariance, PTL DEF Spec, HoldsGrow

=============================================================================
