------------------------- MODULE LanListenerProofs -------------------------
(***************************************************************************)
(* The permits of the LAN listener, and what its stop waits for, for any   *)
(* number of sockets and any limits.                                       *)
(***************************************************************************)
EXTENDS LanListener, FiniteSetTheorems, TLAPS

ConnectedSet == {c \in Connection : Connected(c)}
WorkingSet == {c \in Connection : Working(c)}

\* A listener that has returned has joined every task, and accepts no more;
\* the runtime goes down after that.
StopInv ==
  /\ serve = "returned" => ConnectedSet = {}
  /\ runtime = "down" => serve = "returned"

IInv == TypeOK /\ PermitsFit /\ StopInv

-----------------------------------------------------------------------------
\* A set that gains, loses or keeps one element.
LEMMA OneMore ==
  ASSUME NEW S, IsFiniteSet(S), NEW c, c \notin S
  PROVE  Cardinality(S \cup {c}) = Cardinality(S) + 1
  BY FS_AddElement

LEMMA OneLess ==
  ASSUME NEW S, IsFiniteSet(S), NEW c \in S
  PROVE  Cardinality(S \ {c}) = Cardinality(S) - 1
  BY FS_RemoveElement

LEMMA Finite ==
  /\ IsFiniteSet(ConnectedSet) /\ Cardinality(ConnectedSet) \in Nat
  /\ IsFiniteSet(WorkingSet) /\ Cardinality(WorkingSet) \in Nat
  <1>1. ConnectedSet \in SUBSET Connection /\ WorkingSet \in SUBSET Connection
    BY DEF ConnectedSet, WorkingSet
  <1> QED BY <1>1, LanAssumption, FS_Subset, FS_CardinalityType

\* Moving one connection moves it into or out of the two sets.
LEMMA Moving ==
  ASSUME TypeOK, NEW c \in Connection, NEW p \in Phase, GoTo(c, p)
  PROVE  /\ phase' \in [Connection -> Phase]
         /\ ConnectedSet' = IF p = "none" THEN ConnectedSet \ {c}
                            ELSE ConnectedSet \cup {c}
         /\ WorkingSet' = IF p \in {"body", "handler", "stream"}
                          THEN WorkingSet \cup {c} ELSE WorkingSet \ {c}
  <1>1. phase' \in [Connection -> Phase] /\ phase'[c] = p
        /\ \A d \in Connection \ {c} : phase'[d] = phase[d]
    BY DEF TypeOK, GoTo
  <1>2. \A d \in Connection : d \in ConnectedSet <=> phase[d] # "none"
    BY DEF ConnectedSet, Connected
  <1>3. \A d \in Connection : d \in ConnectedSet' <=> phase'[d] # "none"
    BY DEF ConnectedSet, Connected
  <1>4. \A d \in Connection :
          d \in WorkingSet <=> phase[d] \in {"body", "handler", "stream"}
    BY DEF WorkingSet, Working
  <1>5. \A d \in Connection :
          d \in WorkingSet' <=> phase'[d] \in {"body", "handler", "stream"}
    BY DEF WorkingSet, Working
  <1>6. /\ ConnectedSet \subseteq Connection /\ ConnectedSet' \subseteq Connection
        /\ WorkingSet \subseteq Connection /\ WorkingSet' \subseteq Connection
    BY DEF ConnectedSet, WorkingSet
  <1>7. ConnectedSet' = IF p = "none" THEN ConnectedSet \ {c}
                        ELSE ConnectedSet \cup {c}
    BY <1>1, <1>2, <1>3, <1>6
  <1>8. WorkingSet' = IF p \in {"body", "handler", "stream"}
                      THEN WorkingSet \cup {c} ELSE WorkingSet \ {c}
    BY <1>1, <1>4, <1>5, <1>6
  <1> QED BY <1>1, <1>7, <1>8

Fits == /\ connections = ConnectionLimit - Cardinality(ConnectedSet)
        /\ requests = RequestLimit - Cardinality(WorkingSet)

LEMMA FitsIsPermitsFit == Fits <=> PermitsFit
  BY DEF Fits, PermitsFit, ConnectedSet, WorkingSet

-----------------------------------------------------------------------------
LEMMA InitHolds == Init => IInv
  <1> SUFFICES ASSUME Init PROVE IInv
    OBVIOUS
  <1>1. TypeOK
    BY LanAssumption DEF Init, TypeOK, Phase
  <1>2. ConnectedSet = {} /\ WorkingSet = {}
    BY DEF Init, ConnectedSet, WorkingSet, Connected, Working
  <1>3. Fits
    BY <1>2, FS_EmptySet, LanAssumption DEF Fits, Init
  <1>4. StopInv
    BY DEF Init, StopInv
  <1> QED BY <1>1, <1>3, <1>4, FitsIsPermitsFit DEF IInv

\* The end of a connection's task, in any phase.
LEMMA EndKeeps ==
  ASSUME IInv, NEW c \in Connection, Connected(c), End(c)
  PROVE  IInv'
  <1>1. TypeOK /\ Fits /\ StopInv
    BY FitsIsPermitsFit DEF IInv
  <1>2. ConnectedSet' = ConnectedSet \ {c} /\ WorkingSet' = WorkingSet \ {c}
        /\ phase' \in [Connection -> Phase]
    BY <1>1, Moving DEF End, Phase
  <1>3. c \in ConnectedSet
    BY DEF ConnectedSet
  <1>4. connections' = ConnectionLimit - Cardinality(ConnectedSet')
    BY <1>1, <1>2, <1>3, Finite, OneLess, LanAssumption DEF End, Fits
  <1>5. requests' = RequestLimit - Cardinality(WorkingSet')
    <2>1. CASE Working(c)
      <3>1. c \in WorkingSet BY <2>1 DEF WorkingSet
      <3> QED BY <1>1, <1>2, <2>1, <3>1, Finite, OneLess, LanAssumption
              DEF End, Fits
    <2>2. CASE ~Working(c)
      <3>1. WorkingSet \ {c} = WorkingSet BY <2>2 DEF WorkingSet
      <3> QED BY <1>1, <1>2, <2>2, <3>1 DEF End, Fits
    <2> QED BY <2>1, <2>2
  <1>6. TypeOK'
    BY <1>1, <1>2 DEF End, TypeOK
  <1>7. StopInv'
    BY <1>1, <1>2 DEF End, StopInv
  <1>8. PermitsFit'
    BY <1>4, <1>5 DEF PermitsFit, ConnectedSet, WorkingSet
  <1> QED BY <1>6, <1>7, <1>8 DEF IInv

\* A step of a request that stays connected, and the permits it moves.
LEMMA MovesKeeps ==
  ASSUME IInv, NEW c \in Connection,
         NEW from \in Phase \ {"none"}, NEW to \in Phase \ {"none"},
         Moves(c, from, to), requests' \in Nat,
         LET was == from \in {"body", "handler", "stream"}
             is == to \in {"body", "handler", "stream"}
         IN  requests' = IF was /\ ~is THEN requests + 1
                         ELSE IF ~was /\ is THEN requests - 1 ELSE requests
  PROVE  IInv'
  <1> DEFINE Work == {"body", "handler", "stream"}
  <1>1. TypeOK /\ Fits /\ StopInv
    BY FitsIsPermitsFit DEF IInv
  <1>2. /\ phase[c] = from /\ GoTo(c, to)
        /\ UNCHANGED <<serve, connections, stop, seen, closing, blocked, runtime>>
    BY DEF Moves, At
  <1>3. /\ phase' \in [Connection -> Phase]
        /\ ConnectedSet' = ConnectedSet \cup {c}
        /\ WorkingSet' = IF to \in Work THEN WorkingSet \cup {c}
                         ELSE WorkingSet \ {c}
    BY <1>1, <1>2, Moving
  <1>4. c \in ConnectedSet /\ ConnectedSet' = ConnectedSet
    BY <1>2, <1>3 DEF ConnectedSet, Connected
  <1>5. c \in WorkingSet <=> from \in Work
    BY <1>2 DEF WorkingSet, Working
  <1>6. requests' = RequestLimit - Cardinality(WorkingSet')
    <2>1. CASE from \in Work /\ to \notin Work
      BY <1>1, <1>3, <1>5, <2>1, Finite, OneLess, LanAssumption DEF Fits
    <2>2. CASE from \notin Work /\ to \in Work
      BY <1>1, <1>3, <1>5, <2>2, Finite, OneMore, LanAssumption DEF Fits
    <2>3. CASE from \in Work <=> to \in Work
      <3>1. WorkingSet' = WorkingSet BY <1>3, <1>5, <2>3
      <3> QED BY <1>1, <2>3, <3>1 DEF Fits
    <2> QED BY <2>1, <2>2, <2>3
  <1>7. TypeOK'
    BY <1>1, <1>2, <1>3 DEF TypeOK
  <1>8. StopInv'
    BY <1>1, <1>2, <1>4 DEF StopInv
  <1>9. PermitsFit'
    BY <1>1, <1>2, <1>4, <1>6 DEF Fits, PermitsFit, ConnectedSet, WorkingSet
  <1> QED BY <1>7, <1>8, <1>9 DEF IInv

LEMMA NextKeeps == IInv /\ [Next]_vars => IInv'
  <1> SUFFICES ASSUME IInv, [Next]_vars PROVE IInv'
    OBVIOUS
  <1>0. TypeOK /\ Fits /\ StopInv
    BY FitsIsPermitsFit DEF IInv
  <1>1. ASSUME NEW c \in Connection, Accept(c) PROVE IInv'
    <2>1. /\ phase' \in [Connection -> Phase]
          /\ ConnectedSet' = ConnectedSet \cup {c}
          /\ WorkingSet' = WorkingSet \ {c}
      BY <1>0, <1>1, Moving DEF Accept, Phase
    <2>2. c \notin ConnectedSet /\ c \notin WorkingSet
      BY <1>1 DEF Accept, At, ConnectedSet, WorkingSet, Connected, Working
    <2>3. WorkingSet' = WorkingSet BY <2>1, <2>2
    <2>4. connections' = ConnectionLimit - Cardinality(ConnectedSet')
      BY <1>0, <1>1, <2>1, <2>2, Finite, OneMore, LanAssumption DEF Accept, Fits
    <2>5. PermitsFit'
      BY <1>0, <1>1, <2>3, <2>4 DEF Accept, Fits, PermitsFit, ConnectedSet, WorkingSet
    <2>a. connections' \in Nat BY <1>0, <1>1 DEF Accept, TypeOK
    <2>b. seen' \in [Connection -> BOOLEAN] /\ closing' \in [Connection -> BOOLEAN]
      BY <1>0, <1>1, ZenonT(30) DEF Accept, TypeOK
    <2>6. TypeOK' BY <1>0, <1>1, <2>1, <2>a, <2>b DEF Accept, TypeOK
    <2>7. StopInv' BY <1>0, <1>1 DEF Accept, StopInv
    <2> QED BY <2>5, <2>6, <2>7 DEF IInv
  <1>2. ASSUME Stop \/ Return \/ ShutDown \/ UNCHANGED vars PROVE IInv'
    <2>1. UNCHANGED <<phase, connections, requests, seen, closing>>
      BY <1>2 DEF Stop, Return, ShutDown, vars
    <2>2. ConnectedSet' = ConnectedSet /\ WorkingSet' = WorkingSet
      BY <2>1 DEF ConnectedSet, WorkingSet, Connected, Working
    <2>3. TypeOK' BY <1>0, <1>2 DEF TypeOK, Stop, Return, ShutDown, vars
    <2>4. PermitsFit'
      BY <1>0, <2>1, <2>2 DEF Fits, PermitsFit, ConnectedSet, WorkingSet
    <2>5. Return => ConnectedSet = {}
      BY DEF Return, Joined, ConnectedSet
    <2>6. StopInv'
      BY <1>0, <1>2, <2>2, <2>5 DEF StopInv, Stop, Return, ShutDown, vars
    <2> QED BY <2>3, <2>4, <2>6 DEF IInv
  <1>3. ASSUME NEW c \in Connection, Begin(c) PROVE IInv'
    <2>1. Moves(c, "accepted", "head") /\ requests' = requests
      BY <1>3 DEF Begin, Moves
    <2> QED BY <1>0, <2>1, MovesKeeps DEF Phase, TypeOK
  <1>4. ASSUME NEW c \in Connection, Hear(c) PROVE IInv'
    <2>1. CASE UNCHANGED <<connections, phase>>
      <3>1. TypeOK' BY <1>0, <1>4, <2>1 DEF TypeOK, Hear
      <3>2. ConnectedSet' = ConnectedSet /\ WorkingSet' = WorkingSet
        BY <2>1 DEF ConnectedSet, WorkingSet, Connected, Working
      <3>3. PermitsFit'
        BY <1>0, <1>4, <2>1, <3>2 DEF Hear, Fits, PermitsFit, ConnectedSet, WorkingSet
      <3>4. StopInv' BY <1>0, <1>4, <3>2 DEF Hear, StopInv
      <3> QED BY <3>1, <3>3, <3>4 DEF IInv
    <2>2. CASE At(c, "head") /\ GoTo(c, "none") /\ connections' = connections + 1
      <3>1. /\ phase' \in [Connection -> Phase]
            /\ ConnectedSet' = ConnectedSet \ {c} /\ WorkingSet' = WorkingSet \ {c}
        BY <1>0, <2>2, Moving DEF Phase
      <3>2. c \in ConnectedSet /\ c \notin WorkingSet
        BY <2>2 DEF At, ConnectedSet, WorkingSet, Connected, Working
      <3>3. connections' = ConnectionLimit - Cardinality(ConnectedSet')
        BY <1>0, <2>2, <3>1, <3>2, Finite, OneLess, LanAssumption DEF Fits
      <3>4. WorkingSet' = WorkingSet BY <3>1, <3>2
      <3>5. PermitsFit'
        BY <1>0, <1>4, <3>3, <3>4
           DEF Hear, Fits, PermitsFit, ConnectedSet, WorkingSet
      <3>a. connections' \in Nat BY <1>0, <2>2 DEF TypeOK
      <3>b. /\ seen' \in [Connection -> BOOLEAN]
            /\ closing' \in [Connection -> BOOLEAN]
        BY <1>0, <1>4, ZenonT(30) DEF Hear, TypeOK
      <3>6. TypeOK' BY <1>0, <1>4, <3>1, <3>a, <3>b DEF Hear, TypeOK
      <3>7. StopInv' BY <1>0, <1>4, <3>1 DEF Hear, StopInv
      <3> QED BY <3>5, <3>6, <3>7 DEF IInv
    <2> QED BY <1>4, <2>1, <2>2 DEF Hear
  <1>5. ASSUME NEW c \in Connection,
               HeaderTimeout(c) \/ Leave(c) \/ BodyBreaks(c) \/ Close(c)
        PROVE  IInv'
    <2>1. Connected(c) /\ End(c)
      BY <1>5 DEF HeaderTimeout, Leave, BodyBreaks, Close, At, Connected
    <2> QED BY <2>1, EndKeeps
  <1>6. ASSUME NEW c \in Connection, Deny(c) \/ TurnAway(c) \/ Reuse(c)
        PROVE  IInv'
    <2>1. /\ Moves(c, "head", "writing") \/ Moves(c, "writing", "head")
          /\ requests' = requests
      BY <1>6 DEF Deny, TurnAway, Reuse
    <2> QED BY <1>0, <2>1, MovesKeeps DEF Phase, TypeOK
  <1>7. ASSUME NEW c \in Connection, Take(c) PROVE IInv'
    <2>1. Moves(c, "head", "body") /\ requests' = requests - 1 /\ requests' \in Nat
      BY <1>0, <1>7 DEF Take, TypeOK
    <2> QED BY <2>1, MovesKeeps DEF Phase
  <1>8. ASSUME NEW c \in Connection,
               ReceiveTimeout(c) \/ BodyFails(c) \/ BodyEnds(c)
        PROVE  IInv'
    <2>1. /\ Moves(c, "body", "writing") \/ Moves(c, "stream", "writing")
          /\ requests' = requests + 1 /\ requests' \in Nat
      BY <1>0, <1>8 DEF ReceiveTimeout, BodyFails, BodyEnds, TypeOK
    <2> QED BY <2>1, MovesKeeps DEF Phase
  <1>9. ASSUME NEW c \in Connection, Received(c) \/ Answer(c) PROVE IInv'
    <2>1. /\ Moves(c, "body", "handler") \/ Moves(c, "handler", "stream")
          /\ requests' = requests
      BY <1>9 DEF Received, Answer
    <2> QED BY <1>0, <2>1, MovesKeeps DEF Phase, TypeOK
  <1>10. ASSUME NEW c \in Connection, Block(c) \/ Unblock(c) PROVE IInv'
    <2>1. UNCHANGED <<serve, connections, requests, stop, seen, closing, phase, runtime>>
      BY <1>10 DEF Block, Unblock
    <2>2. ConnectedSet' = ConnectedSet /\ WorkingSet' = WorkingSet
      BY <2>1 DEF ConnectedSet, WorkingSet, Connected, Working
    <2>3. TypeOK' BY <1>0, <1>10, <2>1 DEF TypeOK, Block, Unblock
    <2>4. PermitsFit'
      BY <1>0, <2>1, <2>2 DEF Fits, PermitsFit, ConnectedSet, WorkingSet
    <2>5. StopInv' BY <1>0, <2>1, <2>2 DEF StopInv
    <2> QED BY <2>3, <2>4, <2>5 DEF IInv
  <1> QED
    BY <1>1, <1>2, <1>3, <1>4, <1>5, <1>6, <1>7, <1>8, <1>9, <1>10
       DEF Next, Loop, Task, Client, Guard, Reply

LEMMA Invariance == Spec => []IInv
  BY InitHolds, NextKeeps, PTL DEF Spec

-----------------------------------------------------------------------------
\* The semaphores never go below nothing, and phases are what they should be.
THEOREM LanTypes == Spec => []TypeOK
  <1>1. IInv => TypeOK BY DEF IInv
  <1> QED BY <1>1, Invariance, PTL

\* Permits are taken and given back in step with connections and requests,
\* however they end (PermitsFit).
THEOREM PermitsAlwaysFit == Spec => []PermitsFit
  <1>1. IInv => PermitsFit BY DEF IInv
  <1> QED BY <1>1, Invariance, PTL

\* Runtime::shutdown runs after the last connection
\* (RuntimeOutlivesHandlers).
THEOREM RuntimeOutlives == Spec => []RuntimeOutlivesHandlers
  <1>1. IInv => RuntimeOutlivesHandlers
    BY DEF IInv, StopInv, RuntimeOutlivesHandlers, ConnectedSet
  <1> QED BY <1>1, Invariance, PTL

=============================================================================
