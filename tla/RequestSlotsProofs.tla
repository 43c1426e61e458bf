------------------------- MODULE RequestSlotsProofs -------------------------
(***************************************************************************)
(* The slots of the second route, for any number of requests, any limits,  *)
(* any length of the day and of the window, however long a handler takes   *)
(* between reading the clock, taking its slot and sending, and wherever it *)
(* is dropped.                                                             *)
(***************************************************************************)
EXTENDS RequestSlots, FiniteSetTheorems, TLAPS

Place == {"new", "admitting", "taking", "orphaned", "granted", "sent", "answered",
          "refused", "lost"}
HasSlot == {"granted", "sent", "answered", "lost"}
Gone == {"sent", "answered", "lost"}

\* Those that left, or may still.
Leavers == DOMAIN left \cup In("granted")

Readings == \A r \in Request : now[r] <= clock

\* Who left does not come back.
Departures == \A r \in DOMAIN left : handler[r] \in Gone

\* The table holds the readings slots were taken with, and lacks only what is
\* out of every window still to come.
Table ==
  /\ \A q \in DOMAIN dispatch : dispatch[q] = now[q]
  /\ \A q \in Leavers : q \notin DOMAIN dispatch => now[q] < clock - WindowSeconds

\* Read within the window that ends at t, and out by then, or still in time.
ReadAndMayLeave(t) ==
  {r \in Leavers : /\ now[r] >= t - WindowSeconds
                   /\ IF r \in DOMAIN left THEN left[r] <= t ELSE clock <= t}

WindowKept == \A t \in Time : Cardinality(ReadAndMayLeave(t)) <= MaxInWindow

Finite == IsFiniteSet(Leavers) /\ IsFiniteSet(DOMAIN dispatch)

IInv ==
  /\ TypeOK
  /\ Finite
  /\ Readings
  /\ Departures
  /\ Table
  /\ WindowKept
  /\ DayHeld

-----------------------------------------------------------------------------
\* Constants are numbers, and the epoch of a reading has a counter.
LEMMA Numbers ==
  ASSUME TypeOK
  PROVE  /\ clock \in Time /\ clock \in Nat /\ gate \in Nat
         /\ DailyLimit \in Nat /\ MaxInWindow \in Nat \ {0} /\ WindowSeconds \in Nat
         /\ MaxTime \in Nat /\ Backoffs \subseteq Nat
         /\ Time \subseteq Nat
         /\ \A r \in Request : /\ now[r] \in Time /\ now[r] \in Nat
                               /\ EpochOf(now[r]) \in Epoch
                               /\ handler[r] \in Place
         /\ \A q \in DOMAIN left : q \in Request /\ left[q] \in Time /\ left[q] \in Nat
         /\ \A q \in DOMAIN dispatch : /\ q \in Request
                                       /\ dispatch[q] \in Time /\ dispatch[q] \in Nat
<1>1. MaxTime \in Nat
  BY SlotsAssumption
<1>2. Time \subseteq Nat
  BY <1>1 DEF Time
<1>3. \A r \in Request : now[r] \in Time /\ handler[r] \in Place
  BY DEF TypeOK, Place
<1>4. \A r \in Request : EpochOf(now[r]) \in Epoch
  BY <1>3 DEF Epoch
<1>5. /\ \A q \in DOMAIN left : q \in Request /\ left[q] \in Time
      /\ \A q \in DOMAIN dispatch : q \in Request /\ dispatch[q] \in Time
  BY DEF TypeOK
<1>6. clock \in Time /\ gate \in Nat
  BY DEF TypeOK
<1> QED BY <1>1, <1>2, <1>3, <1>4, <1>5, <1>6, SlotsAssumption

\* A set within a finite one is no larger.
LEMMA Within ==
  ASSUME NEW T, IsFiniteSet(T), NEW S, S \subseteq T
  PROVE  /\ IsFiniteSet(S) /\ Cardinality(S) \in Nat /\ Cardinality(T) \in Nat
         /\ Cardinality(S) <= Cardinality(T)
  BY FS_Subset, FS_CardinalityType

\* A set that gains one element.
LEMMA OneMore ==
  ASSUME NEW S, IsFiniteSet(S), NEW r, r \notin S
  PROVE  /\ IsFiniteSet(S \cup {r})
         /\ Cardinality(S) \in Nat
         /\ Cardinality(S \cup {r}) = Cardinality(S) + 1
  BY FS_AddElement, FS_CardinalityType

\* A request whose handler moves on, and nobody else's.
LEMMA Moved ==
  ASSUME TypeOK, NEW r \in Request, NEW state \in Place, Goes(r, state)
  PROVE  /\ handler' \in [Request -> Place]
         /\ handler'[r] = state
         /\ \A q \in Request : q # r => handler'[q] = handler[q]
  BY DEF Goes, TypeOK, Place

LEMMA InvInit == Init => IInv
<1> SUFFICES ASSUME Init PROVE IInv
  OBVIOUS
<1>1. MaxTime \in Nat /\ DailyLimit \in Nat /\ MaxInWindow \in Nat /\ 0 \in Time
  BY SlotsAssumption DEF Time
<1>2. DOMAIN left = {} /\ DOMAIN dispatch = {}
  BY DEF Init, NoneYet
<1>3. left \in [DOMAIN left -> Time] /\ dispatch \in [DOMAIN dispatch -> Time]
  BY DEF Init, NoneYet
<1>4. TypeOK
  BY <1>1, <1>2, <1>3 DEF Init, TypeOK
<1>5. Leavers = {} /\ In("granted") = {}
  BY <1>2 DEF Init, Leavers, In
<1>6. Finite /\ Departures /\ Table
  BY <1>2, <1>5, FS_EmptySet DEF Finite, Departures, Table
<1>7. Readings
  BY <1>1 DEF Init, Readings
<1>8. WindowKept
  <2>1. \A t \in Time : ReadAndMayLeave(t) = {}
    BY <1>5 DEF ReadAndMayLeave
  <2> QED BY <1>1, <2>1, FS_EmptySet DEF WindowKept
<1>9. DayHeld
  <2>1. \A e \in Epoch : Spending(e) = {} /\ used[e] = 0
    BY <1>2, <1>5 DEF Spending, Init
  <2> QED BY <1>1, <2>1, FS_EmptySet DEF DayHeld
<1> QED BY <1>4, <1>6, <1>7, <1>8, <1>9 DEF IInv

-----------------------------------------------------------------------------
(* Steps.                                                                  *)

\* Both counts hold after a step that lets nobody new leave.
LEMMA Shrinks ==
  ASSUME IInv, UNCHANGED used, Leavers' \subseteq Leavers,
         \A e \in Epoch : Spending(e)' \subseteq Spending(e),
         \A t \in Time : ReadAndMayLeave(t)' \subseteq ReadAndMayLeave(t)
  PROVE  /\ IsFiniteSet(Leavers')
         /\ WindowKept'
         /\ DayHeld'
<1>1. IsFiniteSet(Leavers) /\ IsFiniteSet(Leavers')
  BY Within DEF IInv, Finite
<1>2. WindowKept'
  <2>1. ASSUME NEW t \in Time
        PROVE  Cardinality(ReadAndMayLeave(t)') <= MaxInWindow
    <3>1. IsFiniteSet(ReadAndMayLeave(t))
      BY <1>1, Within DEF ReadAndMayLeave
    <3>2. /\ Cardinality(ReadAndMayLeave(t)') \in Nat
          /\ Cardinality(ReadAndMayLeave(t)) \in Nat
          /\ Cardinality(ReadAndMayLeave(t)') <= Cardinality(ReadAndMayLeave(t))
      BY <3>1, Within
    <3>3. Cardinality(ReadAndMayLeave(t)) <= MaxInWindow /\ MaxInWindow \in Nat
      BY Numbers DEF IInv, WindowKept
    <3> QED BY <3>2, <3>3
  <2> QED BY <2>1 DEF WindowKept
<1>3. DayHeld'
  <2>1. ASSUME NEW e \in Epoch
        PROVE  Cardinality(Spending(e)') <= used[e] /\ used[e] <= DailyLimit
    <3>1. IsFiniteSet(Spending(e))
      BY <1>1, Within DEF Spending, Leavers
    <3>2. /\ Cardinality(Spending(e)') \in Nat
          /\ Cardinality(Spending(e)) \in Nat
          /\ Cardinality(Spending(e)') <= Cardinality(Spending(e))
      BY <3>1, Within
    <3>3. /\ Cardinality(Spending(e)) <= used[e] /\ used[e] <= DailyLimit
          /\ used[e] \in Nat
      BY DEF IInv, DayHeld, TypeOK
    <3> QED BY <3>2, <3>3
  <2> QED BY <2>1 DEF DayHeld
<1> QED BY <1>1, <1>2, <1>3

\* Those who may leave after a step in which no handler gets its slot, no
\* reading of theirs changes, and time does not go back.
LEMMA NobodyNew ==
  ASSUME IInv, UNCHANGED left, In("granted")' \subseteq In("granted"),
         \A q \in Leavers : now'[q] = now[q],
         clock' \in Nat, clock <= clock'
  PROVE  /\ Leavers' \subseteq Leavers
         /\ \A e \in Epoch : Spending(e)' \subseteq Spending(e)
         /\ \A t \in Time : ReadAndMayLeave(t)' \subseteq ReadAndMayLeave(t)
<1>1. Leavers' \subseteq Leavers
  BY DEF Leavers
<1>2. \A e \in Epoch : Spending(e)' \subseteq Spending(e)
  BY <1>1 DEF Spending, Leavers
<1>3. ASSUME NEW t \in Time, NEW q \in ReadAndMayLeave(t)'
      PROVE  q \in ReadAndMayLeave(t)
  <2>1. q \in Leavers /\ now[q] >= t - WindowSeconds
    BY <1>1, <1>3 DEF ReadAndMayLeave
  <2>2. CASE q \in DOMAIN left
    BY <1>3, <2>1, <2>2 DEF ReadAndMayLeave
  <2>3. CASE q \notin DOMAIN left
    <3>1. clock' <= t
      BY <1>3, <2>3 DEF ReadAndMayLeave
    <3>2. clock \in Nat /\ t \in Nat
      BY Numbers DEF IInv
    <3> QED BY <2>1, <2>3, <3>1, <3>2 DEF ReadAndMayLeave
  <2> QED BY <2>2, <2>3
<1> QED BY <1>1, <1>2, <1>3

\* A step that only moves handlers, gives none a slot, and leaves whoever has
\* left or has an entry where it may be.
LEMMA Quiet ==
  ASSUME IInv, UNCHANGED <<clock, now, used, dispatch, left>>,
         gate' \in Nat, handler' \in [Request -> Place],
         \A r \in Request :
           /\ handler'[r] = "granted" => handler[r] = "granted"
           /\ handler[r] \in HasSlot => handler'[r] \in HasSlot
           /\ handler[r] \in Gone => handler'[r] \in Gone
  PROVE  IInv'
<1>0. TypeOK /\ clock \in Nat
  BY Numbers DEF IInv
<1>1. TypeOK'
  BY <1>0 DEF TypeOK, Place, HasSlot
<1>2. In("granted")' \subseteq In("granted")
  BY DEF In
<1>3. /\ Leavers' \subseteq Leavers
      /\ \A e \in Epoch : Spending(e)' \subseteq Spending(e)
      /\ \A t \in Time : ReadAndMayLeave(t)' \subseteq ReadAndMayLeave(t)
  BY <1>0, <1>2, NobodyNew
<1>4. IsFiniteSet(Leavers') /\ WindowKept' /\ DayHeld'
  BY <1>3, Shrinks
<1>5. Finite' /\ Readings' /\ Departures' /\ Table'
  BY <1>0, <1>3, <1>4, Numbers DEF IInv, Finite, Readings, Departures, Table
<1> QED BY <1>1, <1>4, <1>5 DEF IInv

\* Entries that fell out of the window of one reading are out of every window
\* to come.
LEMMA Pruned ==
  ASSUME IInv, NEW r \in Request, NEW q \in Leavers, q \notin Kept(r)
  PROVE  now[q] < clock - WindowSeconds
<1>1. CASE q \notin DOMAIN dispatch
  BY <1>1 DEF IInv, Table
<1>2. CASE q \in DOMAIN dispatch
  <2>1. /\ dispatch[q] = now[q] /\ now[r] <= clock
        /\ now[q] \in Nat /\ now[r] \in Nat /\ clock \in Nat /\ WindowSeconds \in Nat
    BY <1>2, Numbers DEF IInv, Table, Readings
  <2>2. ~(dispatch[q] >= now[r] - WindowSeconds)
    BY <1>2 DEF Kept, WindowStart
  <2> QED BY <2>1, <2>2
<1> QED BY <1>1, <1>2

LEMMA ArriveKeeps ==
  ASSUME IInv, NEW r \in Request, Arrive(r)
  PROVE  IInv'
<1>0. /\ TypeOK /\ clock \in Time /\ clock \in Nat /\ r \in In("new")
      /\ UNCHANGED <<clock, used, dispatch, gate, left>>
  BY Numbers DEF IInv, Arrive
<1>1. /\ handler' \in [Request -> Place] /\ handler'[r] = "admitting"
      /\ \A q \in Request : q # r => handler'[q] = handler[q]
  BY <1>0, Moved DEF Arrive, Place
<1>2. /\ now' \in [Request -> Time] /\ now'[r] = clock
      /\ \A q \in Request : q # r => now'[q] = now[q]
  BY <1>0 DEF Arrive, TypeOK
<1>3. /\ \A q \in DOMAIN left : q \in Request /\ handler[q] \in Gone
      /\ \A q \in DOMAIN dispatch : q \in Request /\ handler[q] \in HasSlot
  BY <1>0 DEF IInv, Departures, TypeOK, HasSlot
<1>4. r \notin Leavers /\ r \notin DOMAIN dispatch
  BY <1>0, <1>3 DEF In, Leavers, Gone, HasSlot
<1>5. TypeOK'
  BY <1>0, <1>1, <1>2, <1>4 DEF TypeOK, Place
<1>6. In("granted")' \subseteq In("granted")
  BY <1>1 DEF In
<1>7. \A q \in Leavers : q \in Request /\ now'[q] = now[q]
  BY <1>2, <1>3, <1>4 DEF Leavers, In
<1>8. /\ Leavers' \subseteq Leavers
      /\ \A e \in Epoch : Spending(e)' \subseteq Spending(e)
      /\ \A t \in Time : ReadAndMayLeave(t)' \subseteq ReadAndMayLeave(t)
  <2>1. UNCHANGED left /\ clock' \in Nat /\ clock <= clock'
    BY <1>0
  <2>2. \A q \in Leavers : now'[q] = now[q]
    BY <1>7
  <2> QED BY <1>6, <2>1, <2>2, NobodyNew
<1>9. IsFiniteSet(Leavers') /\ WindowKept' /\ DayHeld'
  BY <1>0, <1>8, Shrinks
<1>10. Finite'
  BY <1>0, <1>9 DEF IInv, Finite
<1>11. Readings'
  BY <1>0, <1>2 DEF IInv, Readings
<1>12. Departures'
  BY <1>0, <1>1, <1>3, <1>4 DEF Departures, Leavers
<1>13. Table'
  <2>1. \A q \in DOMAIN dispatch : now'[q] = now[q]
    BY <1>2, <1>3, <1>4
  <2> QED BY <1>0, <1>7, <1>8, <2>1 DEF IInv, Table
<1> QED BY <1>5, <1>9, <1>10, <1>11, <1>12, <1>13 DEF IInv

LEMMA WindowFullKeeps ==
  ASSUME IInv, NEW r \in Request, WindowFull(r)
  PROVE  IInv'
<1>0. /\ TypeOK /\ clock \in Nat /\ Underway(r)
      /\ UNCHANGED <<clock, now, used, gate, left>>
      /\ dispatch' = [q \in Kept(r) |-> dispatch[q]]
  BY Numbers DEF IInv, WindowFull
<1>1. /\ handler' \in [Request -> Place] /\ handler'[r] \in {"refused", "lost"}
      /\ \A q \in Request : q # r => handler'[q] = handler[q]
  BY <1>0, Moved DEF WindowFull, Learns, Place
<1>2. Kept(r) \subseteq DOMAIN dispatch
  BY DEF Kept
<1>3. /\ DOMAIN dispatch' = Kept(r)
      /\ \A q \in Kept(r) : dispatch'[q] = dispatch[q]
  BY <1>0
<1>4. /\ \A q \in DOMAIN left : q \in Request /\ handler[q] \in Gone
      /\ \A q \in DOMAIN dispatch : /\ q \in Request /\ handler[q] \in HasSlot
                                    /\ dispatch[q] \in Time
  BY <1>0 DEF IInv, Departures, TypeOK, HasSlot
<1>5. r \notin DOMAIN left /\ r \notin DOMAIN dispatch
  BY <1>0, <1>4 DEF Underway, Gone, HasSlot
<1>6. TypeOK'
  <2>1. /\ DOMAIN dispatch' \subseteq Request
        /\ dispatch' \in [DOMAIN dispatch' -> Time]
    BY <1>0, <1>2, <1>3, <1>4
  <2>2. \A q \in DOMAIN dispatch' : handler'[q] \in HasSlot
    BY <1>1, <1>2, <1>3, <1>4, <1>5
  <2> QED BY <1>0, <1>1, <2>1, <2>2 DEF TypeOK, Place, HasSlot
<1>7. In("granted")' \subseteq In("granted")
  BY <1>1 DEF In
<1>8. /\ Leavers' \subseteq Leavers
      /\ \A e \in Epoch : Spending(e)' \subseteq Spending(e)
      /\ \A t \in Time : ReadAndMayLeave(t)' \subseteq ReadAndMayLeave(t)
  BY <1>0, <1>7, NobodyNew
<1>9. IsFiniteSet(Leavers') /\ WindowKept' /\ DayHeld'
  BY <1>0, <1>8, Shrinks
<1>10. Finite'
  BY <1>2, <1>3, <1>9, Within DEF IInv, Finite
<1>11. Readings'
  BY <1>0 DEF IInv, Readings
<1>12. Departures'
  BY <1>0, <1>1, <1>4, <1>5 DEF Departures
<1>13. Table'
  <2>1. \A q \in DOMAIN dispatch' : dispatch'[q] = now'[q]
    BY <1>0, <1>2, <1>3 DEF IInv, Table
  <2>2. \A q \in Leavers : q \notin Kept(r) => now[q] < clock - WindowSeconds
    BY Pruned
  <2> QED BY <1>0, <1>3, <1>8, <2>1, <2>2 DEF Table
<1> QED BY <1>6, <1>9, <1>10, <1>11, <1>12, <1>13 DEF IInv

\* Sending lets nobody new leave: whoever has its slot was counted with those
\* that may still.
LEMMA SendKeeps ==
  ASSUME IInv, NEW r \in Request, Send(r)
  PROVE  IInv'
<1>0. /\ TypeOK /\ clock \in Time /\ clock \in Nat /\ r \in In("granted")
      /\ UNCHANGED <<clock, now, used, dispatch, gate>>
      /\ left' = [q \in DOMAIN left \cup {r} |-> IF q = r THEN clock ELSE left[q]]
  BY Numbers DEF IInv, Send
<1>1. /\ handler' \in [Request -> Place] /\ handler'[r] = "sent"
      /\ \A q \in Request : q # r => handler'[q] = handler[q]
  BY <1>0, Moved DEF Send, Place
<1>2. /\ \A q \in DOMAIN left : /\ q \in Request /\ handler[q] \in Gone
                                /\ left[q] \in Time
      /\ \A q \in DOMAIN dispatch : q \in Request /\ handler[q] \in HasSlot
  BY <1>0 DEF IInv, Departures, TypeOK, HasSlot
<1>3. r \notin DOMAIN left
  BY <1>0, <1>2 DEF In, Gone
<1>4. /\ DOMAIN left' = DOMAIN left \cup {r} /\ left'[r] = clock
      /\ \A q \in DOMAIN left : left'[q] = left[q]
      /\ left' \in [DOMAIN left' -> Time]
  BY <1>0, <1>2, <1>3
<1>5. TypeOK'
  <2>1. DOMAIN left' \subseteq Request
    BY <1>2, <1>4
  <2>2. \A q \in DOMAIN dispatch : handler'[q] \in HasSlot
    BY <1>1, <1>2 DEF HasSlot
  <2> QED BY <1>0, <1>1, <1>4, <2>1, <2>2 DEF TypeOK, Place, HasSlot
<1>6. In("granted")' = In("granted") \ {r}
  BY <1>1 DEF In
<1>7. Leavers' = Leavers
  BY <1>0, <1>4, <1>6 DEF Leavers
<1>8. \A e \in Epoch : Spending(e)' \subseteq Spending(e)
  BY <1>0, <1>7 DEF Spending, Leavers
<1>9. ASSUME NEW t \in Time, NEW q \in ReadAndMayLeave(t)'
      PROVE  q \in ReadAndMayLeave(t)
  <2>1. /\ q \in Leavers /\ now[q] >= t - WindowSeconds
        /\ IF q \in DOMAIN left' THEN left'[q] <= t ELSE clock <= t
    BY <1>0, <1>7, <1>9 DEF ReadAndMayLeave
  <2>2. CASE q = r
    BY <1>3, <1>4, <2>1, <2>2 DEF ReadAndMayLeave
  <2>3. CASE q # r
    BY <1>4, <2>1, <2>3 DEF ReadAndMayLeave
  <2> QED BY <2>2, <2>3
<1>10. IsFiniteSet(Leavers') /\ WindowKept' /\ DayHeld'
  BY <1>0, <1>7, <1>8, <1>9, Shrinks
<1>11. Finite' /\ Readings' /\ Table'
  BY <1>0, <1>7, <1>10 DEF IInv, Finite, Readings, Table
<1>12. Departures'
  BY <1>1, <1>2, <1>4 DEF Departures, Gone
<1> QED BY <1>5, <1>10, <1>11, <1>12 DEF IInv

\* What taking a slot changes, in memory only if its handler still waits.
LEMMA Taken ==
  ASSUME IInv, NEW r \in Request, Take(r)
  PROVE  /\ r \notin Leavers
         /\ handler' \in [Request -> Place] /\ handler'[r] \in {"granted", "lost"}
         /\ \A q \in Request : q # r => handler'[q] = handler[q]
         /\ UNCHANGED <<clock, now, gate, left>>
         /\ Leavers' \subseteq Leavers \cup {r} /\ Leavers \subseteq Leavers'
         /\ DOMAIN dispatch' = Kept(r) \cup {r}
         /\ dispatch' \in [DOMAIN dispatch' -> Time]
         /\ dispatch'[r] = now[r]
         /\ Kept(r) \subseteq DOMAIN dispatch
         /\ \A q \in Kept(r) : q # r /\ dispatch'[q] = dispatch[q]
<1>0. /\ TypeOK /\ now[r] \in Time /\ Underway(r)
      /\ UNCHANGED <<clock, now, gate, left>>
      /\ dispatch' = [q \in Kept(r) \cup {r} |-> IF q = r THEN now[r] ELSE dispatch[q]]
  BY Numbers DEF IInv, Take
<1>1. /\ handler' \in [Request -> Place] /\ handler'[r] \in {"granted", "lost"}
      /\ \A q \in Request : q # r => handler'[q] = handler[q]
  BY <1>0, Moved DEF Take, Learns, Place
<1>2. /\ \A q \in DOMAIN left : q \in Request /\ handler[q] \in Gone
      /\ \A q \in DOMAIN dispatch : /\ q \in Request /\ handler[q] \in HasSlot
                                    /\ dispatch[q] \in Time
  BY <1>0 DEF IInv, Departures, TypeOK, HasSlot
<1>3. r \notin Leavers /\ r \notin DOMAIN dispatch
  BY <1>0, <1>2 DEF Underway, Leavers, In, Gone, HasSlot
<1>4. /\ In("granted")' \subseteq In("granted") \cup {r}
      /\ In("granted") \subseteq In("granted")'
  BY <1>0, <1>1 DEF In, Underway
<1>5. Leavers' \subseteq Leavers \cup {r} /\ Leavers \subseteq Leavers'
  BY <1>0, <1>4 DEF Leavers
<1>6. Kept(r) \subseteq DOMAIN dispatch
  BY DEF Kept
<1>7. \A q \in Kept(r) : q # r /\ dispatch[q] \in Time
  BY <1>2, <1>3, <1>6
<1>8. /\ DOMAIN dispatch' = Kept(r) \cup {r}
      /\ dispatch' \in [DOMAIN dispatch' -> Time]
      /\ dispatch'[r] = now[r]
      /\ \A q \in Kept(r) : dispatch'[q] = dispatch[q]
  BY <1>0, <1>7
<1> QED BY <1>0, <1>1, <1>3, <1>5, <1>6, <1>7, <1>8

\* Whoever may leave in a window that is not over was read within the window
\* of the next transaction, and is still in the table.
LEMMA SeenByNext ==
  ASSUME IInv, NEW r \in Request, NEW t \in Time, clock <= t
  PROVE  ReadAndMayLeave(t) \subseteq Recent(r)
<1> SUFFICES ASSUME NEW q \in ReadAndMayLeave(t)
             PROVE  q \in Recent(r)
  OBVIOUS
<1>1. q \in Leavers /\ now[q] >= t - WindowSeconds
  BY DEF ReadAndMayLeave
<1>2. q \in Request
  BY <1>1, Numbers DEF IInv, Leavers, In
<1>3. /\ clock \in Nat /\ t \in Nat /\ WindowSeconds \in Nat
      /\ now[r] \in Nat /\ now[q] \in Nat /\ now[r] <= clock
  BY <1>2, Numbers DEF IInv, Readings
<1>4. now[q] >= clock - WindowSeconds /\ now[q] >= now[r] - WindowSeconds
  BY <1>1, <1>3
<1>5. ~(now[q] < clock - WindowSeconds)
  BY <1>3, <1>4
<1>6. q \in DOMAIN dispatch /\ dispatch[q] = now[q]
  BY <1>1, <1>5 DEF IInv, Table
<1> QED BY <1>4, <1>6 DEF Recent, WindowStart

\* The short limit through a slot that is granted.
LEMMA TakeKeepsWindow ==
  ASSUME IInv, NEW r \in Request, Take(r)
  PROVE  WindowKept'
<1> SUFFICES ASSUME NEW t \in Time
             PROVE  Cardinality(ReadAndMayLeave(t)') <= MaxInWindow
  BY DEF WindowKept
<1>0. /\ clock \in Nat /\ t \in Nat /\ MaxInWindow \in Nat
      /\ IsFiniteSet(Leavers) /\ IsFiniteSet(DOMAIN dispatch)
      /\ IsFiniteSet(ReadAndMayLeave(t))
      /\ Cardinality(ReadAndMayLeave(t)) \in Nat
      /\ Cardinality(ReadAndMayLeave(t)) <= MaxInWindow
  <2>1. ReadAndMayLeave(t) \subseteq Leavers
    BY DEF ReadAndMayLeave
  <2> QED BY <2>1, Within, Numbers DEF IInv, Finite, WindowKept
<1>1. ReadAndMayLeave(t)' \subseteq ReadAndMayLeave(t) \cup {r}
  <2> SUFFICES ASSUME NEW q \in ReadAndMayLeave(t)', q # r
               PROVE  q \in ReadAndMayLeave(t)
    OBVIOUS
  <2>1. q \in Leavers /\ UNCHANGED <<clock, now, left>>
    BY Taken DEF ReadAndMayLeave
  <2> QED BY <2>1 DEF ReadAndMayLeave
<1>2. CASE r \notin ReadAndMayLeave(t)'
  <2>1. ReadAndMayLeave(t)' \subseteq ReadAndMayLeave(t)
    BY <1>1, <1>2
  <2>2. /\ Cardinality(ReadAndMayLeave(t)') \in Nat
        /\ Cardinality(ReadAndMayLeave(t)') <= Cardinality(ReadAndMayLeave(t))
    BY <1>0, <2>1, Within
  <2> QED BY <1>0, <2>2
<1>3. CASE r \in ReadAndMayLeave(t)'
  <2>1. clock <= t
    <3>1. r \notin DOMAIN left /\ UNCHANGED <<clock, left>>
      BY Taken DEF Leavers
    <3> QED BY <1>3, <3>1 DEF ReadAndMayLeave
  <2>2. ReadAndMayLeave(t) \subseteq Recent(r)
    BY <2>1, SeenByNext
  <2>3. IsFiniteSet(Recent(r))
    BY <1>0, Within DEF Recent
  <2>4. /\ Cardinality(Recent(r)) \in Nat
        /\ Cardinality(ReadAndMayLeave(t)) <= Cardinality(Recent(r))
    BY <2>2, <2>3, Within
  <2>5. Cardinality(Recent(r)) < MaxInWindow
    BY DEF Take
  <2>6. r \notin ReadAndMayLeave(t)
    BY Taken DEF ReadAndMayLeave
  <2>7. /\ IsFiniteSet(ReadAndMayLeave(t) \cup {r})
        /\ Cardinality(ReadAndMayLeave(t) \cup {r}) = Cardinality(ReadAndMayLeave(t)) + 1
    BY <1>0, <2>6, OneMore
  <2>8. /\ Cardinality(ReadAndMayLeave(t)') \in Nat
        /\ Cardinality(ReadAndMayLeave(t)') <= Cardinality(ReadAndMayLeave(t) \cup {r})
    BY <1>1, <2>7, Within
  <2> QED BY <1>0, <2>4, <2>5, <2>7, <2>8
<1> QED BY <1>2, <1>3

\* The day's count through a slot that is granted.
LEMMA TakeKeepsDay ==
  ASSUME IInv, NEW r \in Request, Take(r)
  PROVE  DayHeld' /\ used' \in [Epoch -> Nat]
<1>1. /\ used \in [Epoch -> Nat] /\ EpochOf(now[r]) \in Epoch /\ DailyLimit \in Nat
      /\ used' = [used EXCEPT ![EpochOf(now[r])] = @ + 1]
  BY Numbers DEF IInv, TypeOK, Take
<1>2. used' \in [Epoch -> Nat]
  <2>1. used[EpochOf(now[r])] + 1 \in Nat
    BY <1>1
  <2> QED BY <1>1, <2>1
<1>3. ASSUME NEW e \in Epoch
      PROVE  Cardinality(Spending(e)') <= used'[e] /\ used'[e] <= DailyLimit
  <2>0. /\ Cardinality(Spending(e)) <= used[e] /\ used[e] <= DailyLimit
        /\ used[e] \in Nat /\ IsFiniteSet(Spending(e))
        /\ Cardinality(Spending(e)) \in Nat
        /\ r \notin Spending(e)
    <3>1. Spending(e) \subseteq Leavers /\ IsFiniteSet(Leavers)
      BY DEF Spending, Leavers, IInv, Finite
    <3>2. IsFiniteSet(Spending(e)) /\ Cardinality(Spending(e)) \in Nat
      BY <3>1, Within
    <3>3. r \notin Spending(e)
      BY <3>1, Taken
    <3> QED BY <1>1, <3>2, <3>3 DEF IInv, DayHeld
  <2>1. \A q \in Spending(e)' : q # r => q \in Spending(e)
    <3>1. Leavers' \subseteq Leavers \cup {r} /\ now' = now
      BY Taken
    <3> QED BY <3>1 DEF Spending, Leavers
  <2>2. CASE e = EpochOf(now[r])
    <3>1. Spending(e)' \subseteq Spending(e) \cup {r}
      BY <2>1
    <3>2. /\ IsFiniteSet(Spending(e) \cup {r})
          /\ Cardinality(Spending(e) \cup {r}) = Cardinality(Spending(e)) + 1
      BY <2>0, OneMore
    <3>3. /\ Cardinality(Spending(e)') \in Nat
          /\ Cardinality(Spending(e)') <= Cardinality(Spending(e) \cup {r})
      BY <3>1, <3>2, Within
    <3>4. used'[e] = used[e] + 1 /\ ~(used[e] >= DailyLimit)
      BY <1>1, <2>2 DEF Take, Spent
    <3> QED BY <1>1, <2>0, <3>2, <3>3, <3>4
  <2>3. CASE e # EpochOf(now[r])
    <3>1. r \notin Spending(e)'
      BY <2>3, Taken DEF Spending
    <3>2. Spending(e)' \subseteq Spending(e)
      BY <2>1, <3>1
    <3>3. /\ Cardinality(Spending(e)') \in Nat
          /\ Cardinality(Spending(e)') <= Cardinality(Spending(e))
      BY <2>0, <3>2, Within
    <3>4. used'[e] = used[e]
      BY <1>1, <2>3
    <3> QED BY <2>0, <3>3, <3>4
  <2> QED BY <2>2, <2>3
<1> QED BY <1>2, <1>3 DEF DayHeld

LEMMA TakeKeeps ==
  ASSUME IInv, NEW r \in Request, Take(r)
  PROVE  IInv'
<1>0. TypeOK /\ Underway(r)
  BY DEF IInv, Take
<1>1. /\ \A q \in DOMAIN left : q \in Request /\ handler[q] \in Gone
      /\ \A q \in DOMAIN dispatch : q \in Request /\ handler[q] \in HasSlot
  BY <1>0 DEF IInv, Departures, TypeOK, HasSlot
<1>2. TypeOK'
  <2>1. DOMAIN dispatch' \subseteq Request
    <3>1. DOMAIN dispatch' = Kept(r) \cup {r} /\ Kept(r) \subseteq DOMAIN dispatch
      BY Taken
    <3> QED BY <1>1, <3>1
  <2>2. \A q \in DOMAIN dispatch' : handler'[q] \in HasSlot
    BY <1>1, Taken DEF HasSlot
  <2>3. used' \in [Epoch -> Nat]
    BY TakeKeepsDay
  <2> QED BY <1>0, <2>1, <2>2, <2>3, Taken DEF TypeOK, Place, HasSlot
<1>3. Finite'
  <2>1. IsFiniteSet(Leavers \cup {r}) /\ IsFiniteSet(Leavers')
    BY Taken, OneMore, Within DEF IInv, Finite
  <2>2. IsFiniteSet(Kept(r)) /\ r \notin Kept(r)
    BY Taken, Within DEF IInv, Finite
  <2>3. IsFiniteSet(DOMAIN dispatch')
    <3>1. DOMAIN dispatch' = Kept(r) \cup {r}
      BY Taken
    <3> QED BY <2>2, <3>1, OneMore
  <2> QED BY <2>1, <2>3 DEF Finite
<1>4. Readings'
  BY Taken DEF IInv, Readings
<1>5. Departures'
  BY <1>1, Taken DEF Departures, Leavers
<1>6. Table'
  <2>1. \A q \in DOMAIN dispatch' : dispatch'[q] = now'[q]
    BY Taken DEF IInv, Table
  <2>2. ASSUME NEW q \in Leavers', q \notin DOMAIN dispatch'
        PROVE  now'[q] < clock' - WindowSeconds
    <3>1. q \in Leavers /\ q \notin Kept(r)
      BY <2>2, Taken
    <3>2. now[q] < clock - WindowSeconds
      BY <3>1, Pruned
    <3> QED BY <3>2, Taken
  <2> QED BY <2>1, <2>2 DEF Table
<1> QED BY <1>2, <1>3, <1>4, <1>5, <1>6, TakeKeepsWindow, TakeKeepsDay DEF IInv

LEMMA TickKeeps ==
  ASSUME IInv, Tick
  PROVE  IInv'
<1>1. /\ clock' = clock + 1 /\ clock' \in Time /\ clock \in Nat /\ clock' \in Nat
      /\ UNCHANGED <<handler, now, used, dispatch, gate, left>>
      /\ TypeOK
  BY Numbers DEF IInv, Tick, Time
<1>2. TypeOK'
  BY <1>1 DEF TypeOK
<1>3. /\ Leavers' \subseteq Leavers
      /\ \A e \in Epoch : Spending(e)' \subseteq Spending(e)
      /\ \A t \in Time : ReadAndMayLeave(t)' \subseteq ReadAndMayLeave(t)
  <2>1. In("granted")' \subseteq In("granted")
    BY <1>1 DEF In
  <2> QED BY <1>1, <2>1, NobodyNew
<1>4. IsFiniteSet(Leavers') /\ WindowKept' /\ DayHeld'
  BY <1>1, <1>3, Shrinks
<1>5. Finite' /\ Departures'
  BY <1>1, <1>4 DEF IInv, Finite, Departures
<1>6. Readings'
  BY <1>1, Numbers DEF IInv, Readings
<1>7. Table'
  <2>1. ASSUME NEW q \in Leavers, q \notin DOMAIN dispatch
        PROVE  now[q] < clock + 1 - WindowSeconds
    <3>1. now[q] < clock - WindowSeconds /\ q \in Request
      BY <2>1, Numbers DEF IInv, Table, Leavers, In
    <3>2. now[q] \in Nat /\ WindowSeconds \in Nat
      BY <3>1, Numbers DEF IInv
    <3> QED BY <1>1, <3>1, <3>2
  <2>2. \A q \in DOMAIN dispatch' : dispatch'[q] = now'[q]
    BY <1>1 DEF IInv, Table
  <2>3. ASSUME NEW q \in Leavers', q \notin DOMAIN dispatch'
        PROVE  now'[q] < clock' - WindowSeconds
    <3>1. q \in Leavers
      BY <1>3
    <3>2. q \notin DOMAIN dispatch /\ now' = now /\ clock' = clock + 1
      BY <1>1, <2>3
    <3>3. now[q] < clock + 1 - WindowSeconds
      BY <2>1, <3>1, <3>2
    <3>4. clock' \in Nat /\ clock \in Nat /\ WindowSeconds \in Nat
      BY <1>1, SlotsAssumption
    <3> QED BY <3>2, <3>3, <3>4
  <2> QED BY <2>2, <2>3 DEF Table
<1> QED BY <1>2, <1>4, <1>5, <1>6, <1>7 DEF IInv

\* The invariant is inductive.
LEMMA InvNext == IInv /\ [Next]_vars => IInv'
<1> SUFFICES ASSUME IInv, [Next]_vars
             PROVE  IInv'
  OBVIOUS
<1>0. TypeOK /\ gate \in Nat /\ handler \in [Request -> Place]
  BY DEF IInv, TypeOK, Place
<1>1. ASSUME NEW r \in Request, NEW to \in Place,
             Goes(r, to), gate' \in Nat,
             UNCHANGED <<clock, now, used, dispatch, left>>,
             to # "granted",
             handler[r] \in HasSlot => to \in Gone
      PROVE  IInv'
  <2>1. /\ handler' \in [Request -> Place] /\ handler'[r] = to
        /\ \A q \in Request : q # r => handler'[q] = handler[q]
    BY <1>0, <1>1, Moved
  <2> QED BY <1>1, <2>1, Quiet DEF HasSlot, Gone
<1>2. ASSUME NEW r \in Request, GateClosed(r) \/ PassGate(r)
      PROVE  IInv'
  BY <1>0, <1>1, <1>2 DEF GateClosed, PassGate, In, Place, HasSlot
<1>3. ASSUME NEW r \in Request, Exhausted(r) \/ TakeFails(r)
      PROVE  IInv'
  <2>1. /\ Underway(r) /\ Learns(r, "refused")
        /\ UNCHANGED <<clock, now, used, dispatch, gate, left>>
    BY <1>3 DEF Exhausted, TakeFails
  <2>2. Goes(r, "refused") \/ Goes(r, "lost")
    BY <2>1 DEF Learns
  <2> QED BY <1>0, <1>1, <2>1, <2>2 DEF Underway, Place, HasSlot
<1>4. ASSUME NEW r \in Request, Answered(r)
      PROVE  IInv'
  BY <1>0, <1>1, <1>4 DEF Answered, Place, Gone
<1>5. ASSUME NEW r \in Request, RateLimited(r)
      PROVE  IInv'
  <2>1. gate' \in Nat
    BY <1>0, <1>5, Numbers DEF RateLimited
  <2> QED BY <1>1, <1>5, <2>1 DEF RateLimited, Place, Gone
<1>6. ASSUME NEW r \in Request, Drop(r)
      PROVE  IInv'
  <2>1. \/ handler[r] = "taking" /\ Goes(r, "orphaned")
        \/ Goes(r, "lost")
    BY <1>6 DEF Drop
  <2> QED BY <1>0, <1>1, <1>6, <2>1 DEF Drop, Place, HasSlot, Gone
<1>7. CASE Restart
  <2>1. /\ handler' \in [Request -> Place]
        /\ \A r \in Request :
             /\ handler'[r] # "granted"
             /\ handler[r] \in HasSlot => handler'[r] \in HasSlot
             /\ handler[r] \in Gone => handler'[r] \in Gone
    BY <1>0, <1>7 DEF Restart, Place, HasSlot, Gone
  <2>2. gate' \in Nat /\ UNCHANGED <<clock, now, used, dispatch, left>>
    BY <1>7 DEF Restart
  <2> QED BY <2>1, <2>2, Quiet
<1>8. CASE UNCHANGED vars
  BY <1>0, <1>8, Quiet DEF vars
<1>9. CASE Tick
  BY <1>9, TickKeeps
<1>10. ASSUME NEW r \in Request, Arrive(r) \/ WindowFull(r) \/ Take(r) \/ Send(r)
       PROVE  IInv'
  BY <1>10, ArriveKeeps, WindowFullKeeps, TakeKeeps, SendKeeps
<1> QED BY <1>2, <1>3, <1>4, <1>5, <1>6, <1>7, <1>8, <1>9, <1>10 DEF Next, Transaction

-----------------------------------------------------------------------------
(* The theorems.                                                           *)

THEOREM InvHolds == Spec => []IInv
  BY InvInit, InvNext, PTL DEF Spec

\* The tables keep their types, and every entry of request_dispatch is of a
\* request that got its slot: none is ever made for one that was refused or
\* whose transaction has not run.
THEOREM SlotsTyped == Spec => []TypeOK
<1>1. IInv => TypeOK
  BY DEF IInv
<1> QED BY <1>1, InvHolds, PTL

\* The day's counter never runs under what left or may still leave on a reading
\* of that day, and stays within the daily limit, however slow handlers are and
\* wherever they are dropped.
THEOREM CountNeverUnder == Spec => []DayHeld
<1>1. IInv => DayHeld
  BY DEF IInv
<1> QED BY <1>1, InvHolds, PTL

\* Requests read and sent within one window are no more than the short limit,
\* with no bound on the delay of any handler, through pruning and restarts.
THEOREM RateHeld == Spec => []WindowHeld
<1>1. ASSUME IInv, NEW t \in Time
      PROVE  Cardinality(ReadAndLeft(t)) <= MaxInWindow
  <2>1. ReadAndLeft(t) \subseteq ReadAndMayLeave(t)
    BY <1>1 DEF ReadAndLeft, ReadAndMayLeave, Leavers
  <2>2. ReadAndMayLeave(t) \subseteq Leavers /\ IsFiniteSet(Leavers)
    BY <1>1 DEF ReadAndMayLeave, IInv, Finite
  <2>3. IsFiniteSet(ReadAndMayLeave(t))
    BY <2>2, Within
  <2>4. /\ Cardinality(ReadAndLeft(t)) \in Nat
        /\ Cardinality(ReadAndMayLeave(t)) \in Nat
        /\ Cardinality(ReadAndLeft(t)) <= Cardinality(ReadAndMayLeave(t))
    BY <2>1, <2>3, Within
  <2>5. Cardinality(ReadAndMayLeave(t)) <= MaxInWindow /\ MaxInWindow \in Nat
    BY <1>1, Numbers DEF IInv, WindowKept
  <2> QED BY <2>4, <2>5
<1>2. IInv => WindowHeld
  BY <1>1 DEF WindowHeld
<1> QED BY <1>2, InvHolds, PTL

=============================================================================
