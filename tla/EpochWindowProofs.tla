------------------------- MODULE EpochWindowProofs -------------------------
(***************************************************************************)
(* Proofs about the day boundary, for any length of a day, any number of   *)
(* requests and any clock policy that keeps WindowAssumption.              *)
(***************************************************************************)
EXTENDS EpochWindow, TLAPS

-----------------------------------------------------------------------------
(* Days and periods.                                                       *)

\* Division leaves a remainder smaller than the divisor.
LEMMA Division ==
  ASSUME NEW t \in Int, NEW n \in Nat \ {0}
  PROVE  /\ t \div n \in Int
         /\ (t \div n) * n \in Int
         /\ (t \div n) * n <= t
         /\ t < (t \div n) * n + n
  BY SMT

\* Different multiples are at least the number apart.
LEMMA Multiples ==
  ASSUME NEW a \in Int, NEW b \in Int, NEW n \in Nat \ {0}, a < b
  PROVE  a * n + n <= b * n
  BY SMT

\* Division keeps the order.
LEMMA DivisionMonotone ==
  ASSUME NEW s \in Int, NEW t \in Int, NEW n \in Nat \ {0}, s <= t
  PROVE  s \div n <= t \div n
<1>1. /\ s \div n \in Int /\ (s \div n) * n \in Int /\ (s \div n) * n <= s
      /\ t \div n \in Int /\ (t \div n) * n \in Int /\ t < (t \div n) * n + n
  BY Division
<1>2. CASE t \div n < s \div n
  <2>1. (t \div n) * n + n <= (s \div n) * n
    BY <1>1, <1>2, Multiples
  <2> QED BY <2>1, <1>1, SMT
<1> QED BY <1>1, <1>2, SMT

\* What is not negative stays so.
LEMMA DivisionNat ==
  ASSUME NEW t \in Nat, NEW n \in Nat \ {0}
  PROVE  t \div n \in Nat
<1>1. /\ t \div n \in Int /\ (t \div n) * n \in Int /\ t < (t \div n) * n + n
  BY Division
<1>2. CASE t \div n < 0
  <2>1. (t \div n) * n + n <= 0 * n
    BY <1>1, <1>2, Multiples
  <2> QED BY <2>1, <1>1, SMT
<1> QED BY <1>1, <1>2, SMT

LEMMA DayIsInt ==
  ASSUME NEW t \in Int
  PROVE  DayOf(t) \in Int
  BY Division, WindowAssumption DEF DayOf

LEMMA DayIsNat ==
  ASSUME NEW t \in Nat
  PROVE  DayOf(t) \in Nat
  BY DivisionNat, WindowAssumption DEF DayOf

LEMMA DayMonotone ==
  ASSUME NEW s \in Int, NEW t \in Int, s <= t
  PROVE  DayOf(s) <= DayOf(t)
  BY DivisionMonotone, WindowAssumption DEF DayOf

\* A day that has come began before now.
LEMMA DayBegan ==
  ASSUME NEW t \in Int, NEW e \in Int, e <= DayOf(t)
  PROVE  e * DaySeconds <= t
<1>1. DaySeconds \in Nat \ {0}
  BY WindowAssumption
<1>2. /\ DayOf(t) \in Int /\ DayOf(t) * DaySeconds \in Int
      /\ DayOf(t) * DaySeconds <= t
  BY <1>1, Division DEF DayOf
<1>3. CASE e = DayOf(t)
  BY <1>2, <1>3
<1>4. CASE e < DayOf(t)
  <2>1. e * DaySeconds + DaySeconds <= DayOf(t) * DaySeconds
    BY <1>1, <1>2, <1>4, Multiples
  <2>2. e * DaySeconds \in Int
    BY <1>1
  <2> QED BY <2>1, <2>2, <1>1, <1>2, SMT
<1> QED BY <1>2, <1>3, <1>4, SMT

\* Before the end of a day no later one has come.
LEMMA DayNotOver ==
  ASSUME NEW t \in Int, NEW e \in Int, t < EndOf(e)
  PROVE  DayOf(t) <= e
<1>1. DaySeconds \in Nat \ {0}
  BY WindowAssumption
<1>2. DayOf(t) \in Int
  BY DayIsInt
<1>3. CASE e < DayOf(t)
  <2>1. e + 1 \in Int /\ e + 1 <= DayOf(t)
    BY <1>2, <1>3
  <2>2. (e + 1) * DaySeconds <= t
    BY <2>1, DayBegan
  <2>3. (e + 1) * DaySeconds \in Int
    BY <2>1, <1>1
  <2> QED BY <2>2, <2>3 DEF EndOf
<1> QED BY <1>2, <1>3, SMT

\* The drift of a reading is bounded by the periods it has aged.
LEMMA DriftBounded ==
  ASSUME NEW p \in Nat, NEW drift \in -1 .. 1
  PROVE  /\ drift * p \in Int
         /\ -p <= drift * p
         /\ drift * p <= p
<1>1. CASE drift = -1  BY <1>1, SMT
<1>2. CASE drift = 0   BY <1>2, SMT
<1>3. CASE drift = 1   BY <1>3, SMT
<1> QED BY <1>1, <1>2, <1>3, SMT

-----------------------------------------------------------------------------
(* The inductive invariant.                                                *)

\* A reading is of now or earlier, and late by no more than MaxLag.
ReadingTrue ==
  reading # None =>
    /\ reading.upstream <= reading.local
    /\ reading.local - MaxLag <= reading.upstream
    /\ reading.local <= time

\* Whoever is about to open an epoch found that its day had begun long enough
\* ago, and a window asked for is never of an epoch still to be opened.
Begun ==
  /\ epoch <= DayOf(time)
  /\ loop.pc = "opening" => loop.current <= DayOf(time - OpenDelay)
  /\ \A r \in Request :
       /\ handler[r].pc = "opening" => handler[r].current <= DayOf(time - OpenDelay)
       /\ handler[r].pc = "read" => handler[r].current <= epoch

\* What is reserved weighs on the current epoch.
Weighs ==
  \A r \in Request : handler[r].pc \in {"reserved", "sent"} => epoch \in rows[r]

IInv ==
  /\ TypeOK
  /\ StartTime <= time
  /\ ReadingTrue
  /\ Begun
  /\ Weighs

\* Constants and times are integers.
LEMMA Numbers ==
  ASSUME TypeOK
  PROVE  /\ time \in Nat /\ epoch \in Nat /\ time <= MaxTime
         /\ DaySeconds \in Nat \ {0} /\ Uncertainty \in Nat /\ OpenDelay \in Nat
         /\ MaxReadingAge \in Nat /\ MaxLag \in Nat /\ DriftPeriod \in Nat \ {0}
         /\ MaxTime \in Nat /\ MaxRestarts \in Nat
         /\ StartTime \in Nat /\ MaxLag <= StartTime
         /\ DayOf(MaxTime) \in Nat
<1>1. MaxTime \in Nat
  BY WindowAssumption
<1>2. DayOf(MaxTime) \in Nat
  BY <1>1, DayIsNat
<1> QED BY <1>2, WindowAssumption DEF TypeOK, Time, Epoch

\* The day of a moment up to now is an epoch, and no later than today.
LEMMA PastDay ==
  ASSUME TypeOK, NEW t \in Int, t <= time
  PROVE  /\ DayOf(t) \in Int
         /\ DayOf(t) <= DayOf(time)
         /\ 0 <= DayOf(t) => DayOf(t) \in Epoch
<1>1. /\ DayOf(t) \in Int /\ DayOf(t) <= DayOf(time)
      /\ DayOf(time) <= DayOf(MaxTime) /\ DayOf(time) \in Int
      /\ DayOf(MaxTime) \in Nat
  BY Numbers, DayIsInt, DayMonotone
<1> QED BY <1>1, SMT DEF Epoch

\* What a reading that is not too old says of now is off by less than the
\* uncertainty, either way.
LEMMA EstimateWithin ==
  ASSUME TypeOK, ReadingTrue, Readable
  PROVE  /\ Estimate \in Int
         /\ Estimate <= time + Uncertainty
         /\ time - Uncertainty <= Estimate
<1>1. /\ reading.upstream \in Nat /\ reading.local \in Nat
      /\ reading.drift \in -1 .. 1
      /\ reading.upstream <= reading.local
      /\ reading.local - MaxLag <= reading.upstream
      /\ reading.local <= time
  BY Numbers DEF TypeOK, ReadingTrue, Readable, Time
<1>2. Elapsed \in Nat /\ Elapsed <= MaxReadingAge
  BY <1>1, Numbers DEF Elapsed, Readable
<1>3. /\ Elapsed + DriftPeriod - 1 \in Nat
      /\ MaxReadingAge + DriftPeriod - 1 \in Nat
      /\ Elapsed + DriftPeriod - 1 <= MaxReadingAge + DriftPeriod - 1
  BY <1>2, Numbers
<1>4. /\ Periods(Elapsed) \in Nat /\ Periods(MaxReadingAge) \in Nat
      /\ Periods(Elapsed) <= Periods(MaxReadingAge)
  BY <1>3, Numbers, DivisionNat, DivisionMonotone DEF Periods
<1>5. MaxLag + Periods(MaxReadingAge) <= Uncertainty
  BY WindowAssumption
<1>6. /\ reading.drift * Periods(Elapsed) \in Int
      /\ -Periods(Elapsed) <= reading.drift * Periods(Elapsed)
      /\ reading.drift * Periods(Elapsed) <= Periods(Elapsed)
  BY <1>1, <1>4, DriftBounded
<1>7. Estimate = reading.upstream + (time - reading.local)
                   + reading.drift * Periods(Elapsed)
  BY DEF Estimate, Elapsed
<1> QED BY <1>1, <1>4, <1>5, <1>6, <1>7, Numbers

\* A rollover that is due is to a day that began, as the provider counts,
\* at least the opening delay ago.
LEMMA DueBegun ==
  ASSUME TypeOK, ReadingTrue, NEW current \in Epoch, RolloverDue(current)
  PROVE  Due \in Epoch /\ Due <= DayOf(time - OpenDelay)
<1>1. /\ Estimate \in Int /\ Estimate <= time + Uncertainty
  BY EstimateWithin DEF RolloverDue
<1>2. /\ Estimate - Uncertainty - OpenDelay \in Int
      /\ time - OpenDelay \in Int
      /\ Estimate - Uncertainty - OpenDelay <= time - OpenDelay
      /\ Estimate - Uncertainty - OpenDelay <= time
  BY <1>1, Numbers
<1>3. Due <= DayOf(time - OpenDelay)
  BY <1>2, DayMonotone DEF Due
<1>4. Due > current /\ current \in Nat /\ Due \in Int
  BY <1>2, DayIsInt, Numbers DEF RolloverDue, Due, Epoch
<1>5. 0 <= Due
  BY <1>4, SMT
<1>6. Due \in Epoch
  BY <1>2, <1>5, PastDay DEF Due
<1> QED BY <1>3, <1>6

\* While the window is open the provider is still in that day.
LEMMA OpenInTime ==
  ASSUME TypeOK, ReadingTrue, NEW current \in Epoch, WindowOpen(current)
  PROVE  DayOf(time) <= current
<1>1. /\ Estimate \in Int /\ time - Uncertainty <= Estimate
      /\ Estimate + Uncertainty < EndOf(current)
  BY EstimateWithin DEF WindowOpen
<1>2. current \in Int /\ EndOf(current) \in Int
  BY Numbers DEF EndOf, Epoch
<1>3. time < EndOf(current)
  BY <1>1, <1>2, Numbers, SMT
<1> QED BY <1>2, <1>3, DayNotOver, Numbers

\* Opening an epoch whose day has come.
LEMMA Opened ==
  ASSUME TypeOK, Begun, Weighs, NEW e \in Epoch, e <= DayOf(time), RollOver(e)
  PROVE  /\ epoch' \in Epoch /\ epoch <= epoch' /\ epoch' <= DayOf(time)
         /\ rows' \in [Request -> SUBSET Epoch]
         /\ \A r \in Request :
              handler[r].pc \in {"reserved", "sent"} => epoch' \in rows'[r]
         /\ epoch' # epoch => epoch' = e
<1>1. /\ epoch \in Epoch /\ epoch \in Nat /\ e \in Nat
      /\ DayOf(time) \in Int /\ rows \in [Request -> SUBSET Epoch]
  BY Numbers, DayIsInt DEF TypeOK, Epoch
<1>2. epoch' = IF e > epoch THEN e ELSE epoch
  BY DEF RollOver
<1>3. /\ epoch' \in Epoch /\ epoch <= epoch' /\ epoch' <= DayOf(time)
      /\ epoch' # epoch => epoch' = e
  BY <1>1, <1>2 DEF Begun
<1>4. rows' \in [Request -> SUBSET Epoch]
  BY <1>1 DEF RollOver
<1>5. ASSUME NEW r \in Request, handler[r].pc \in {"reserved", "sent"}
      PROVE  epoch' \in rows'[r]
  BY <1>1, <1>2, <1>5 DEF RollOver, Weighs
<1> QED BY <1>3, <1>4, <1>5

LEMMA InvInit == Init => IInv
<1> SUFFICES ASSUME Init PROVE IInv
  OBVIOUS
<1>1. /\ StartTime \in Nat /\ MaxTime \in Nat /\ MaxRestarts \in Nat
      /\ StartTime <= MaxTime
      /\ DayOf(MaxTime) \in Nat /\ DayOf(StartTime) \in Nat
  BY WindowAssumption, DayIsNat
<1>2. TypeOK
  BY <1>1 DEF Init, TypeOK, Time, Epoch, Asleep, Arrived, At
<1>3. ReadingTrue
  BY DEF Init, ReadingTrue
<1>4. Begun
  BY <1>1 DEF Init, Begun, Asleep, Arrived, At
<1>5. Weighs
  BY DEF Init, Weighs, Arrived, At
<1>6. StartTime <= time
  BY <1>1 DEF Init
<1> QED BY <1>2, <1>3, <1>4, <1>5, <1>6 DEF IInv

-----------------------------------------------------------------------------
(* Every step keeps it.                                                    *)

\* Where a handler can be, and what it keeps.
HandlerType ==
  [pc: {"arrived", "read", "opening", "admitted", "reserved", "sent", "settled", "refused"},
   current: Epoch, opened: BOOLEAN]

\* A handler that moves on leaves the others where they are.
LEMMA Moved ==
  ASSUME TypeOK, NEW r \in Request, NEW e \in Epoch,
         NEW pc \in {"arrived", "read", "opening", "admitted", "reserved", "sent", "settled",
                     "refused"},
         Goes(r, pc, e)
  PROVE  /\ handler' \in [Request -> HandlerType]
         /\ handler'[r].pc = pc /\ handler'[r].current = e
         /\ \A q \in Request : q # r => handler'[q] = handler[q]
<1>1. handler \in [Request -> HandlerType]
  BY DEF TypeOK, HandlerType
<1>2. handler[r] \in HandlerType
  BY <1>1
<1>3. handler' = [handler EXCEPT ![r] = [pc |-> pc, current |-> e, opened |-> handler[r].opened]]
  BY DEF Goes, At
<1>4. [pc |-> pc, current |-> e, opened |-> handler[r].opened] \in HandlerType
  BY <1>2 DEF HandlerType
<1>5. handler' \in [Request -> HandlerType]
  BY <1>1, <1>3, <1>4
<1>6. /\ handler'[r] = [pc |-> pc, current |-> e, opened |-> handler[r].opened]
      /\ \A q \in Request : q # r => handler'[q] = handler[q]
  BY <1>1, <1>3
<1> QED BY <1>5, <1>6

\* A new reading is true.
LEMMA Read ==
  ASSUME TypeOK, StartTime <= time, Reads
  PROVE  /\ reading' \in [upstream: Time, local: Time, drift: -1..1]
         /\ reading'.upstream <= reading'.local
         /\ reading'.local - MaxLag <= reading'.upstream
         /\ reading'.local <= time
         /\ reading' # None
<1>1. PICK lag \in 0..MaxLag, drift \in -1..1 :
        reading' = [upstream |-> time - lag, local |-> time, drift |-> drift]
  BY DEF Reads
<1>2. time - lag \in Time /\ time \in Time
  BY Numbers DEF Time
<1>3. /\ reading'.upstream = time - lag /\ reading'.local = time
      /\ reading'.drift = drift
  BY <1>1
<1>4. reading' \in [upstream: Time, local: Time, drift: -1..1]
  BY <1>1, <1>2
<1>5. reading' # None
  BY <1>3 DEF None
<1> QED BY <1>2, <1>3, <1>4, <1>5, Numbers

\* What a handler has read stays an epoch that is open.
LEMMA StillBegun ==
  ASSUME TypeOK, Begun, NEW e \in Epoch, epoch <= e, NEW r \in Request,
         handler[r].pc = "read"
  PROVE  handler[r].current <= e
<1>1. Epoch \subseteq Nat
  BY Numbers DEF Epoch
<1>2. handler[r].current \in Nat /\ epoch \in Nat /\ e \in Nat
  BY <1>1 DEF TypeOK
<1>3. handler[r].current <= epoch
  BY DEF Begun
<1> QED BY <1>2, <1>3

\* The invariant is inductive.
LEMMA InvNext == IInv /\ [Next]_vars => IInv'
<1> SUFFICES ASSUME IInv, [Next]_vars
             PROVE  IInv'
  OBVIOUS
<1> USE DEF IInv
<1>0. /\ epoch \in Epoch /\ 0 \in Epoch
      /\ handler \in [Request -> HandlerType]
      /\ DayOf(time) \in Int /\ DayOf(time - OpenDelay) \in Int
      /\ DayOf(time - OpenDelay) <= DayOf(time)
      /\ Epoch \subseteq Nat
  <2>1. time - OpenDelay \in Int /\ time - OpenDelay <= time /\ time \in Int
    BY Numbers
  <2>2. DayOf(MaxTime) \in Nat
    BY Numbers
  <2> QED BY <2>1, <2>2, PastDay, DayIsInt DEF TypeOK, HandlerType, Epoch
<1>1. CASE ReadAtStart
  <2>1. /\ reading' \in [upstream: Time, local: Time, drift: -1..1]
        /\ ReadingTrue' /\ reading' # None
    BY <1>1, Read DEF ReadAtStart, ReadingTrue
  <2>2. TypeOK'
    BY <1>1, <2>1 DEF ReadAtStart, TypeOK
  <2>3. Begun' /\ Weighs' /\ (StartTime <= time)'
    BY <1>1 DEF ReadAtStart, Begun, Weighs
  <2> QED BY <2>1, <2>2, <2>3
<1>2. CASE RollOverAtStart
  <2>1. reading.upstream \in Nat /\ reading.upstream <= time
    BY <1>2, Numbers DEF RollOverAtStart, TypeOK, ReadingTrue, Time
  <2>2. DayOf(reading.upstream) \in Epoch /\ DayOf(reading.upstream) <= DayOf(time)
    BY <2>1, PastDay, DayIsNat
  <2>3. /\ epoch' \in Epoch /\ epoch <= epoch' /\ epoch' <= DayOf(time)
        /\ rows' \in [Request -> SUBSET Epoch]
        /\ \A r \in Request :
             handler[r].pc \in {"reserved", "sent"} => epoch' \in rows'[r]
    BY <1>2, <2>2, Opened DEF RollOverAtStart
  <2>4. TypeOK' /\ ReadingTrue' /\ (StartTime <= time)'
    BY <1>2, <2>3 DEF RollOverAtStart, TypeOK, ReadingTrue
  <2>5. Begun'
    BY <1>0, <1>2, <2>3, StillBegun DEF RollOverAtStart, Begun
  <2>6. Weighs'
    BY <1>2, <2>3 DEF RollOverAtStart, Weighs
  <2> QED BY <2>4, <2>5, <2>6
<1>3. CASE Refresh
  <2>1. /\ reading' \in [upstream: Time, local: Time, drift: -1..1]
        /\ ReadingTrue' /\ reading' # None
    BY <1>3, Read DEF Refresh, ReadingTrue
  <2>2. loop' = [pc |-> "refreshed", current |-> 0]
    BY <1>3 DEF Refresh, Asleep
  <2>3. TypeOK'
    BY <1>0, <1>3, <2>1, <2>2 DEF Refresh, TypeOK
  <2>4. Begun' /\ Weighs' /\ (StartTime <= time)'
    BY <1>3, <2>2 DEF Refresh, Begun, Weighs
  <2> QED BY <2>1, <2>3, <2>4
<1>4. CASE LoopReadsEpoch
  <2>1. TypeOK' /\ ReadingTrue' /\ (StartTime <= time)'
    BY <1>0, <1>4 DEF LoopReadsEpoch, TypeOK, ReadingTrue
  <2>2. Begun' /\ Weighs'
    BY <1>4 DEF LoopReadsEpoch, Begun, Weighs
  <2> QED BY <2>1, <2>2
<1>5. CASE LoopDecides
  <2>0. loop.current \in Epoch
    BY DEF TypeOK
  <2>1. CASE RolloverDue(loop.current)
    <3>1. Due \in Epoch /\ Due <= DayOf(time - OpenDelay)
      BY <2>0, <2>1, DueBegun
    <3>2. loop' = [pc |-> "opening", current |-> Due]
      BY <1>5, <2>1 DEF LoopDecides
    <3>3. TypeOK' /\ ReadingTrue' /\ (StartTime <= time)'
      BY <1>5, <3>1, <3>2 DEF LoopDecides, TypeOK, ReadingTrue
    <3>4. Begun' /\ Weighs'
      BY <1>5, <3>1, <3>2 DEF LoopDecides, Begun, Weighs
    <3> QED BY <3>3, <3>4
  <2>2. CASE ~RolloverDue(loop.current)
    <3>1. loop' = [pc |-> "asleep", current |-> 0]
      BY <1>5, <2>2 DEF LoopDecides, Asleep
    <3>2. TypeOK' /\ ReadingTrue' /\ (StartTime <= time)'
      BY <1>0, <1>5, <3>1 DEF LoopDecides, TypeOK, ReadingTrue
    <3>3. Begun' /\ Weighs'
      BY <1>5, <3>1 DEF LoopDecides, Begun, Weighs
    <3> QED BY <3>2, <3>3
  <2> QED BY <2>1, <2>2
<1>6. CASE LoopRollsOver
  <2>0. loop.current \in Epoch /\ loop.current \in Nat
    <3>1. loop.current \in Epoch
      BY DEF TypeOK
    <3> QED BY <1>0, <3>1
  <2>1. loop.current \in Epoch /\ loop.current <= DayOf(time)
    BY <1>0, <1>6, <2>0 DEF LoopRollsOver, Begun
  <2>2. /\ epoch' \in Epoch /\ epoch <= epoch' /\ epoch' <= DayOf(time)
        /\ rows' \in [Request -> SUBSET Epoch]
        /\ \A r \in Request :
             handler[r].pc \in {"reserved", "sent"} => epoch' \in rows'[r]
    BY <1>6, <2>1, Opened DEF LoopRollsOver
  <2>3. loop' = [pc |-> "asleep", current |-> 0]
    BY <1>6 DEF LoopRollsOver, Asleep
  <2>4. TypeOK' /\ ReadingTrue' /\ (StartTime <= time)'
    BY <1>0, <1>6, <2>2, <2>3 DEF LoopRollsOver, TypeOK, ReadingTrue
  <2>5. Begun'
    BY <1>0, <1>6, <2>2, <2>3, StillBegun DEF LoopRollsOver, Begun
  <2>6. Weighs'
    BY <1>6, <2>2 DEF LoopRollsOver, Weighs
  <2> QED BY <2>4, <2>5, <2>6
<1>7. ASSUME NEW r \in Request, ReadEpoch(r)
      PROVE  IInv'
  <2>1. /\ handler' \in [Request -> HandlerType]
        /\ handler'[r].pc = "read" /\ handler'[r].current = epoch
        /\ \A q \in Request : q # r => handler'[q] = handler[q]
    BY <1>0, <1>7, Moved DEF ReadEpoch
  <2>2. TypeOK' /\ ReadingTrue' /\ (StartTime <= time)'
    BY <1>7, <2>1 DEF ReadEpoch, TypeOK, ReadingTrue, HandlerType
  <2>3. Begun'
    BY <1>0, <1>7, <2>1 DEF ReadEpoch, Begun
  <2>4. Weighs'
    BY <1>7, <2>1 DEF ReadEpoch, Weighs
  <2> QED BY <2>2, <2>3, <2>4
<1>8. ASSUME NEW r \in Request, Admitted(r)
      PROVE  IInv'
  <2>1. /\ handler' \in [Request -> HandlerType] /\ handler'[r].pc = "admitted"
        /\ \A q \in Request : q # r => handler'[q] = handler[q]
    BY <1>0, <1>8, Moved DEF Admitted, HandlerType
  <2>2. TypeOK' /\ ReadingTrue' /\ (StartTime <= time)'
    BY <1>8, <2>1 DEF Admitted, TypeOK, ReadingTrue, HandlerType
  <2>3. Begun'
    BY <1>8, <2>1 DEF Admitted, Begun
  <2>4. Weighs'
    BY <1>8, <2>1 DEF Admitted, Weighs
  <2> QED BY <2>2, <2>3, <2>4
<1>9. ASSUME NEW r \in Request, FindsDue(r)
      PROVE  IInv'
  <2>1. handler[r].current \in Epoch
    BY <1>0 DEF HandlerType
  <2>2. Due \in Epoch /\ Due <= DayOf(time - OpenDelay)
    BY <1>9, <2>1, DueBegun DEF FindsDue
  <2>3. /\ handler' \in [Request -> HandlerType]
        /\ handler'[r].pc = "opening" /\ handler'[r].current = Due
        /\ \A q \in Request : q # r => handler'[q] = handler[q]
    BY <1>9, <2>2, Moved DEF FindsDue
  <2>4. TypeOK' /\ ReadingTrue' /\ (StartTime <= time)'
    BY <1>9, <2>3 DEF FindsDue, TypeOK, ReadingTrue, HandlerType
  <2>5. Begun'
    BY <1>9, <2>2, <2>3 DEF FindsDue, Begun
  <2>6. Weighs'
    BY <1>9, <2>3 DEF FindsDue, Weighs
  <2> QED BY <2>4, <2>5, <2>6
<1>10. ASSUME NEW r \in Request, RollsOver(r)
       PROVE  IInv'
  <2>0. handler[r].current \in Epoch /\ handler[r].current \in Nat
    <3>1. handler[r].current \in Epoch
      BY <1>0 DEF HandlerType
    <3> QED BY <1>0, <3>1
  <2>1. handler[r].current \in Epoch /\ handler[r].current <= DayOf(time)
    BY <1>0, <1>10, <2>0 DEF RollsOver, In, Begun
  <2>2. /\ epoch' \in Epoch /\ epoch <= epoch' /\ epoch' <= DayOf(time)
        /\ rows' \in [Request -> SUBSET Epoch]
        /\ \A q \in Request :
             handler[q].pc \in {"reserved", "sent"} => epoch' \in rows'[q]
    BY <1>10, <2>1, Opened DEF RollsOver
  <2>4. /\ handler' \in [Request -> HandlerType] /\ handler'[r].pc = "arrived"
        /\ \A q \in Request : q # r => handler'[q] = handler[q]
    BY <1>0, <1>10 DEF RollsOver, HandlerType, At
  <2>5. TypeOK' /\ ReadingTrue' /\ (StartTime <= time)'
    BY <1>10, <2>2, <2>4 DEF RollsOver, TypeOK, ReadingTrue, HandlerType
  <2>6. Begun'
    BY <1>0, <1>10, <2>2, <2>4, StillBegun DEF RollsOver, Begun
  <2>7. Weighs'
    BY <1>10, <2>2, <2>4 DEF RollsOver, Weighs
  <2> QED BY <2>5, <2>6, <2>7
<1>11. ASSUME NEW r \in Request, Refused(r)
       PROVE  IInv'
  <2>1. /\ handler' \in [Request -> HandlerType] /\ handler'[r].pc = "refused"
        /\ \A q \in Request : q # r => handler'[q] = handler[q]
    BY <1>0, <1>11, Moved DEF Refused
  <2>2. TypeOK' /\ ReadingTrue' /\ (StartTime <= time)'
    BY <1>11, <2>1 DEF Refused, TypeOK, ReadingTrue, HandlerType
  <2>3. Begun'
    BY <1>11, <2>1 DEF Refused, Begun
  <2>4. Weighs'
    BY <1>11, <2>1 DEF Refused, Weighs
  <2> QED BY <2>2, <2>3, <2>4
<1>12. ASSUME NEW r \in Request, Reserve(r)
       PROVE  IInv'
  <2>1. /\ handler' \in [Request -> HandlerType] /\ handler'[r].pc = "reserved"
        /\ \A q \in Request : q # r => handler'[q] = handler[q]
    BY <1>0, <1>12, Moved DEF Reserve
  <2>2. /\ rows' \in [Request -> SUBSET Epoch] /\ rows'[r] = {epoch}
        /\ \A q \in Request : q # r => rows'[q] = rows[q]
    BY <1>0, <1>12 DEF Reserve, TypeOK
  <2>3. TypeOK' /\ ReadingTrue' /\ (StartTime <= time)'
    BY <1>12, <2>1, <2>2 DEF Reserve, TypeOK, ReadingTrue, HandlerType
  <2>4. Begun'
    BY <1>12, <2>1 DEF Reserve, Begun
  <2>5. Weighs'
    BY <1>12, <2>1, <2>2 DEF Reserve, Weighs
  <2> QED BY <2>3, <2>4, <2>5
<1>13. ASSUME NEW r \in Request, Send(r)
       PROVE  IInv'
  <2>1. /\ handler' \in [Request -> HandlerType] /\ handler'[r].pc = "sent"
        /\ \A q \in Request : q # r => handler'[q] = handler[q]
    BY <1>0, <1>13, Moved DEF Send
  <2>2. TypeOK' /\ ReadingTrue' /\ (StartTime <= time)'
    BY <1>13, <2>1 DEF Send, TypeOK, ReadingTrue, HandlerType
  <2>3. Begun'
    BY <1>13, <2>1 DEF Send, Begun
  <2>4. Weighs'
    BY <1>13, <2>1 DEF Send, Weighs, In
  <2> QED BY <2>2, <2>3, <2>4
<1>14. ASSUME NEW r \in Request, Settle(r)
       PROVE  IInv'
  <2>1. /\ handler' \in [Request -> HandlerType] /\ handler'[r].pc = "settled"
        /\ \A q \in Request : q # r => handler'[q] = handler[q]
    BY <1>0, <1>14, Moved DEF Settle
  <2>2. TypeOK' /\ ReadingTrue' /\ (StartTime <= time)'
    BY <1>14, <2>1 DEF Settle, TypeOK, ReadingTrue, HandlerType
  <2>3. Begun'
    BY <1>14, <2>1 DEF Settle, Begun
  <2>4. Weighs'
    BY <1>14, <2>1 DEF Settle, Weighs
  <2> QED BY <2>2, <2>3, <2>4
<1>15. CASE Tick
  <2>1. /\ time' = time + 1 /\ time' \in Time /\ StartTime <= time'
        /\ time \in Int /\ time' \in Int /\ time <= time'
        /\ time - OpenDelay \in Int /\ time' - OpenDelay \in Int
        /\ time - OpenDelay <= time' - OpenDelay
    BY <1>15, Numbers DEF Tick, Time
  <2>2. /\ DayOf(time) <= DayOf(time') /\ DayOf(time - OpenDelay) <= DayOf(time' - OpenDelay)
        /\ DayOf(time') \in Int /\ DayOf(time' - OpenDelay) \in Int
    BY <2>1, DayMonotone, DayIsInt
  <2>3. TypeOK' /\ (StartTime <= time)'
    BY <1>15, <2>1 DEF Tick, TypeOK
  <2>4. ReadingTrue'
    BY <1>15, <2>1 DEF Tick, ReadingTrue, TypeOK, Time
  <2>5. /\ epoch' <= DayOf(time')
        /\ loop'.pc = "opening" => loop'.current <= DayOf(time' - OpenDelay)
    <3>1. loop.current \in Epoch
      BY DEF TypeOK
    <3>2. loop.current \in Nat /\ epoch \in Nat
      BY <1>0, <3>1
    <3> QED BY <1>0, <1>15, <2>2, <3>2 DEF Tick, Begun
  <2>6. ASSUME NEW r \in Request
        PROVE  /\ handler'[r].pc = "opening" => handler'[r].current <= DayOf(time' - OpenDelay)
               /\ handler'[r].pc = "read" => handler'[r].current <= epoch'
    <3>1. handler[r].current \in Nat
      BY <1>0 DEF HandlerType
    <3> QED BY <1>0, <1>15, <2>2, <3>1 DEF Tick, Begun
  <2>7. Begun' /\ Weighs'
    BY <1>15, <2>5, <2>6 DEF Tick, Begun, Weighs
  <2> QED BY <2>3, <2>4, <2>7
<1>16. CASE Crash
  <2>3. ASSUME NEW r \in Request
        PROVE  /\ handler'[r] \in HandlerType
               /\ handler'[r].pc \in {"sent", "settled", "refused"}
               /\ handler'[r].pc = "sent" => handler[r].pc = "sent"
    BY <1>0, <1>16 DEF Crash, HandlerType, At
  <2>4. handler' \in [Request -> HandlerType]
    BY <1>16, <2>3 DEF Crash
  <2>5. /\ rows' \in [Request -> SUBSET Epoch]
        /\ \A r \in Request : handler[r].pc = "sent" => rows'[r] = rows[r]
    BY <1>16 DEF Crash, TypeOK, In
  <2>6. restarts' \in 0..MaxRestarts
    BY <1>16, Numbers DEF Crash, TypeOK
  <2>7. loop' = [pc |-> "asleep", current |-> 0]
    BY <1>16 DEF Crash, Asleep
  <2>8. TypeOK'
    <3>1. process' = "down" /\ reading' = None /\ time' = time /\ epoch' = epoch
      BY <1>16 DEF Crash
    <3>2. loop' \in [pc: {"asleep", "refreshed", "read", "opening"}, current: Epoch]
      BY <1>0, <2>7
    <3> QED BY <2>4, <2>5, <2>6, <3>1, <3>2 DEF TypeOK, HandlerType
  <2>9. ReadingTrue' /\ (StartTime <= time)'
    BY <1>16 DEF Crash, ReadingTrue
  <2>10. Begun'
    <3>1. time' = time /\ epoch' = epoch
      BY <1>16 DEF Crash
    <3> QED BY <2>3, <2>7, <3>1 DEF Begun
  <2>11. Weighs'
    BY <1>16, <2>3, <2>5 DEF Crash, Weighs
  <2> QED BY <2>8, <2>9, <2>10, <2>11
<1>17. CASE UNCHANGED vars
  BY <1>17 DEF vars, TypeOK, ReadingTrue, Begun, Weighs
<1> QED
  BY <1>1, <1>2, <1>3, <1>4, <1>5, <1>6, <1>7, <1>8, <1>9, <1>10, <1>11, <1>12, <1>13,
     <1>14, <1>15, <1>16, <1>17 DEF Next

-----------------------------------------------------------------------------
(* The theorems.                                                           *)

THEOREM InvHolds == Spec => []IInv
  BY InvInit, InvNext, PTL DEF Spec

\* Every variable keeps its type: in particular no epoch beyond the modelled
\* days is opened, however stale the reading.
THEOREM TypesHold == Spec => []TypeOK
<1>1. IInv => TypeOK
  BY DEF IInv
<1> QED BY <1>1, InvHolds, PTL

\* No pool is opened before the provider's day has begun, whoever opens it.
THEOREM NeverEarly == Spec => []NeverOpenedEarly
<1>1. IInv => NeverOpenedEarly
  BY DEF IInv, Begun, NeverOpenedEarly
<1> QED BY <1>1, InvHolds, PTL

\* What the provider works on weighs on the pool given out from.
THEOREM InFlightWeighs == Spec => []InFlightCounted
<1>1. IInv => InFlightCounted
  BY DEF IInv, Weighs, InFlightCounted, In
<1> QED BY <1>1, InvHolds, PTL

\* While the process runs, no pool is opened sooner than OpenDelay after the
\* provider's reset: the loop and the handlers both act on a decision that
\* was right when made and stays right, since time only passes.
THEOREM DelayKept == Spec => OpenedAfterDelay
<1> DEFINE Late == process = "up" /\ epoch' # epoch => time >= epoch' * DaySeconds + OpenDelay
<1>1. IInv /\ [Next]_vars => [Late]_vars
  <2> SUFFICES ASSUME IInv, Next, process = "up", epoch' # epoch
               PROVE  time >= epoch' * DaySeconds + OpenDelay
    BY DEF vars
  <2>0. time - OpenDelay \in Int /\ time \in Nat /\ OpenDelay \in Nat
        /\ DaySeconds \in Nat /\ DayOf(MaxTime) \in Nat
        /\ DayOf(time - OpenDelay) \in Int /\ DayOf(time) \in Int
        /\ DayOf(time - OpenDelay) <= DayOf(time)
    <3>1. time \in Nat /\ OpenDelay \in Nat /\ DaySeconds \in Nat /\ DayOf(MaxTime) \in Nat
      BY Numbers DEF IInv
    <3>2. time - OpenDelay \in Int /\ time \in Int /\ time - OpenDelay <= time
      BY <3>1
    <3> QED BY <3>1, <3>2, DayIsInt, DayMonotone
  <2>1. ASSUME NEW e \in Epoch, e <= DayOf(time - OpenDelay), RollOver(e)
        PROVE  time >= epoch' * DaySeconds + OpenDelay
    <3>1. e \in Int /\ e <= DayOf(time)
      BY <2>0, <2>1 DEF Epoch
    <3>2. epoch' = e
      BY <2>1, <3>1, Opened DEF IInv
    <3>3. e * DaySeconds <= time - OpenDelay
      BY <2>0, <2>1, <3>1, DayBegan
    <3>4. e * DaySeconds \in Int
      BY <2>0, <3>1
    <3> QED BY <2>0, <3>2, <3>3, <3>4
  <2>2. CASE LoopRollsOver
    BY <2>1, <2>2 DEF LoopRollsOver, IInv, Begun, TypeOK
  <2>3. ASSUME NEW r \in Request, RollsOver(r)
        PROVE  time >= epoch' * DaySeconds + OpenDelay
    BY <2>1, <2>3 DEF RollsOver, In, IInv, Begun, TypeOK
  <2>4. LoopRollsOver \/ \E r \in Request : RollsOver(r)
    BY DEF Next, ReadAtStart, RollOverAtStart, Refresh, LoopReadsEpoch, LoopDecides, ReadEpoch,
           Admitted, FindsDue, Refused, Reserve, Send, Settle, Tick, Crash
  <2> QED BY <2>2, <2>3, <2>4
<1> QED BY <1>1, InvHolds, PTL DEF Spec, OpenedAfterDelay

\* A request is let in only on the day the provider is in, which is then the
\* day the ledger gives out from: nobody can have opened the next one, since
\* its day has not begun.
THEOREM LetInInTime == Spec => AdmittedOnItsDay
<1> DEFINE OnItsDay ==
      \A r \in Request : r \in In("read") /\ handler'[r].pc = "admitted"
        => handler'[r].current = DayOf(time) /\ epoch = DayOf(time)
<1>1. IInv /\ [Next]_vars => [OnItsDay]_vars
  <2> SUFFICES ASSUME IInv, Next, NEW r \in Request,
                      handler[r].pc = "read", handler'[r].pc = "admitted"
               PROVE  handler'[r].current = DayOf(time) /\ epoch = DayOf(time)
    BY DEF In
  <2>0. /\ TypeOK /\ handler \in [Request -> HandlerType]
        /\ handler[r].current \in Epoch /\ handler[r].current \in Int
        /\ epoch \in Int /\ DayOf(time) \in Int
        /\ handler[r].current <= epoch /\ epoch <= DayOf(time)
    <3>1. time \in Int /\ epoch \in Int /\ DayOf(MaxTime) \in Nat /\ TypeOK
      BY Numbers DEF IInv
    <3>2. handler \in [Request -> HandlerType] /\ handler[r].current \in Epoch
      BY <3>1 DEF TypeOK, HandlerType
    <3> QED BY <3>1, <3>2, DayIsInt DEF IInv, Begun, Epoch
  <2>1. ASSUME NEW q \in Request, NEW e \in Epoch, NEW pc \in {"read", "opening", "refused",
                 "reserved", "sent", "settled"}, Goes(q, pc, e)
        PROVE  FALSE
    <3>1. /\ handler'[q].pc = pc
          /\ \A p \in Request : p # q => handler'[p] = handler[p]
      BY <2>0, <2>1, Moved
    <3> QED BY <3>1
  <2>2. Admitted(r)
    <3>1. ASSUME NEW q \in Request, Admitted(q)
          PROVE  q = r
      <4>1. handler[q].current \in Epoch
        BY <2>0 DEF HandlerType
      <4>2. \A p \in Request : p # q => handler'[p] = handler[p]
        BY <2>0, <3>1, <4>1, Moved DEF Admitted
      <4> QED BY <4>2
    <3>2. ~\E q \in Request : \/ ReadEpoch(q) \/ Refused(q) \/ Reserve(q) \/ Send(q) \/ Settle(q)
      <4>1. epoch \in Epoch /\ 0 \in Epoch
        BY <2>0, Numbers DEF TypeOK, Epoch
      <4> QED BY <2>1, <4>1 DEF ReadEpoch, Refused, Reserve, Send, Settle
    <3>3. ~\E q \in Request : FindsDue(q)
      <4>1. ASSUME NEW q \in Request, FindsDue(q)
            PROVE  FALSE
        <5>1. handler[q].current \in Epoch
          BY <2>0 DEF HandlerType
        <5>2. Due \in Epoch
          BY <2>0, <4>1, <5>1, DueBegun DEF FindsDue, IInv
        <5> QED BY <2>1, <4>1, <5>2 DEF FindsDue
      <4> QED BY <4>1
    <3>4. ~\E q \in Request : RollsOver(q)
      <4>1. ASSUME NEW q \in Request, RollsOver(q)
            PROVE  FALSE
        <5>1. handler'[q].pc = "arrived" /\ \A p \in Request : p # q => handler'[p] = handler[p]
          BY <2>0, <4>1 DEF RollsOver, At
        <5> QED BY <5>1
      <4> QED BY <4>1
    <3>5. ~Crash
      <4>1. Crash => handler'[r].pc # "admitted"
        BY DEF Crash, At
      <4> QED BY <4>1
    <3>6. UNCHANGED handler => FALSE
      OBVIOUS
    <3>7. ~ReadAtStart /\ ~RollOverAtStart /\ ~Refresh /\ ~LoopReadsEpoch /\ ~LoopDecides
          /\ ~LoopRollsOver /\ ~Tick
      BY <3>6 DEF ReadAtStart, RollOverAtStart, Refresh, LoopReadsEpoch, LoopDecides,
                  LoopRollsOver, Tick
    <3> QED BY <3>1, <3>2, <3>3, <3>4, <3>5, <3>7 DEF Next
  <2>3. handler'[r].current = handler[r].current
    BY <2>0, <2>2, Moved DEF Admitted
  <2>4. DayOf(time) <= handler[r].current
    BY <2>0, <2>2, OpenInTime DEF Admitted, IInv
  <2> QED BY <2>0, <2>3, <2>4
<1> QED BY <1>1, InvHolds, PTL DEF Spec, AdmittedOnItsDay

=============================================================================
