---------------------------- MODULE LanListener ----------------------------
(***************************************************************************)
(* The LAN listener (proxy/src/lan.rs): the accept loop with its           *)
(* connection permits, the guard with its request permits and the body     *)
(* that holds one, and the stop, down to Runtime::shutdown                 *)
(* (bin/quotamiser.rs).                                                    *)
(*                                                                         *)
(* A connection carries one request at a time (HTTP/1.1).  Its phase:      *)
(*   none      not connected, or closed and its task ended                 *)
(*   accepted  spawned, not yet polled                                     *)
(*   head      reading a request's head, or idle between two requests      *)
(*   body      the guard holds a permit and reads the body                 *)
(*   handler   the router runs                                             *)
(*   stream    LeasedBody is being sent                                    *)
(*   writing   a response that holds no permit is being sent               *)
(***************************************************************************)
EXTENDS Integers, FiniteSets

CONSTANTS
  Connection,        \* sockets that connect, and connect again
  ConnectionLimit, RequestLimit               \* both are LIMIT in the code

ASSUME LanAssumption ==
  /\ IsFiniteSet(Connection)
  /\ ConnectionLimit \in Nat
  /\ RequestLimit \in Nat

VARIABLES
  serve,             \* "accepting", "stopping" or "returned"
  connections,       \* permits left of each semaphore
  requests,
  stop,              \* the watch channel: has the stop been sent
  seen,              \* what each connection's receiver has seen of it
  closing,           \* graceful_shutdown was called
  phase,
  blocked,           \* connections whose client takes in nothing more for now
  runtime            \* "up" or "down"

vars == <<serve, connections, requests, stop, seen, closing, phase, blocked, runtime>>

Phase == {"none", "accepted", "head", "body", "handler", "stream", "writing"}
Connected(c) == phase[c] # "none"
Working(c) == phase[c] \in {"body", "handler", "stream"}

At(c, p) == phase[c] = p
GoTo(c, p) == phase' = [phase EXCEPT ![c] = p]

-----------------------------------------------------------------------------
(* The loop of serve_with_timeout. *)

\* A socket without a permit to be had is dropped, and nothing changes.
\* The task's receiver has seen what was sent before it subscribed.
Accept(c) ==
  /\ serve = "accepting"
  /\ At(c, "none")
  /\ connections > 0
  /\ connections' = connections - 1
  /\ GoTo(c, "accepted")
  /\ seen' = [seen EXCEPT ![c] = stop]
  /\ closing' = [closing EXCEPT ![c] = FALSE]
  /\ UNCHANGED <<serve, requests, stop, blocked, runtime>>

\* Asked to shut down, or accept failed: the loop ends and tells every task.
Stop ==
  /\ serve = "accepting"
  /\ serve' = "stopping"
  /\ stop' = TRUE
  /\ UNCHANGED <<connections, requests, seen, closing, phase, blocked, runtime>>

\* The bug of waiting for requests only.
JoinedWhenIdle == \A c \in Connection : ~Working(c)

\* Every task has ended.
Joined == \A c \in Connection : ~Connected(c)

Return ==
  /\ serve = "stopping"
  /\ Joined
  /\ serve' = "returned"
  /\ UNCHANGED <<connections, requests, stop, seen, closing, phase, blocked, runtime>>

\* run, once serve has returned.
ShutDown ==
  /\ serve = "returned"
  /\ runtime = "up"
  /\ runtime' = "down"
  /\ UNCHANGED <<serve, connections, requests, stop, seen, closing, phase, blocked>>

-----------------------------------------------------------------------------
(* The task of a connection. *)

\* The bug of subscribing when the task first runs: what was sent until then
\* counts as seen.
BeginSubscribing(c) ==
  /\ At(c, "accepted")
  /\ GoTo(c, "head")
  /\ seen' = [seen EXCEPT ![c] = stop]
  /\ UNCHANGED <<serve, connections, requests, stop, closing, blocked, runtime>>

Begin(c) ==
  /\ At(c, "accepted")
  /\ GoTo(c, "head")
  /\ UNCHANGED <<serve, connections, requests, stop, seen, closing, blocked, runtime>>

\* Everything the task holds goes with it: the permit of the connection and,
\* with the service's future or the body, that of a request.
End(c) ==
  /\ GoTo(c, "none")
  /\ connections' = connections + 1
  /\ requests' = IF Working(c) THEN requests + 1 ELSE requests
  /\ blocked' = blocked \ {c}
  /\ UNCHANGED <<serve, stop, seen, closing, runtime>>

\* The receiver sees the stop: an idle connection closes, another one after
\* the request under way, or the head that it has begun to read.
Hear(c) ==
  /\ Connected(c) /\ ~At(c, "accepted")
  /\ seen[c] # stop
  /\ seen' = [seen EXCEPT ![c] = stop]
  /\ closing' = [closing EXCEPT ![c] = TRUE]
  /\ \/ UNCHANGED <<connections, phase>>
     \/ /\ At(c, "head")
        /\ GoTo(c, "none")
        /\ connections' = connections + 1
  /\ UNCHANGED <<serve, requests, stop, blocked, runtime>>

\* The header timer, which idle connections have as well.
HeaderTimeout(c) == At(c, "head") /\ End(c)

\* The client goes, or its connection breaks.
Leave(c) == Connected(c) /\ ~At(c, "accepted") /\ End(c)

\* The client stops reading its response, and the buffers fill; or it reads on.
\* Writing has no time-out.
Block(c) ==
  /\ phase[c] \in {"stream", "writing"}
  /\ blocked' = blocked \cup {c}
  /\ UNCHANGED <<serve, connections, requests, stop, seen, closing, phase, runtime>>

Unblock(c) ==
  /\ c \in blocked
  /\ blocked' = blocked \ {c}
  /\ UNCHANGED <<serve, connections, requests, stop, seen, closing, phase, runtime>>

-----------------------------------------------------------------------------
(* The guard. *)

Moves(c, from, to) ==
  /\ At(c, from)
  /\ GoTo(c, to)
  /\ UNCHANGED <<serve, connections, stop, seen, closing, blocked, runtime>>

\* The peer, an Origin or the token: refused before a permit is tried for.
Deny(c) == Moves(c, "head", "writing") /\ UNCHANGED requests

\* 429, the body unread.
TurnAway(c) == requests = 0 /\ Deny(c)

Take(c) ==
  /\ Moves(c, "head", "body")
  /\ requests > 0
  /\ requests' = requests - 1

\* The bug of a body read without a deadline.
ReceiveTimeoutNever(c) == FALSE

ReceiveTimeout(c) == Moves(c, "body", "writing") /\ requests' = requests + 1

\* Too large, or unreadable.
BodyFails(c) == Moves(c, "body", "writing") /\ requests' = requests + 1

Received(c) == Moves(c, "body", "handler") /\ UNCHANGED requests

\* The bug of a permit that is let go when the handler returns, and again when
\* the body ends.
AnswerAndRelease(c) == Moves(c, "handler", "stream") /\ requests' = requests + 1

\* The handler returns; the permit goes into the body of its response.
Answer(c) == Moves(c, "handler", "stream") /\ UNCHANGED requests

\* poll_frame has nothing more; what it gave may still be unwritten.
BodyEnds(c) == Moves(c, "stream", "writing") /\ requests' = requests + 1

\* poll_frame fails: the permit is back, and the response cannot be completed.
BodyBreaks(c) == At(c, "stream") /\ End(c)

\* The response is out: the connection waits for another request, unless it
\* is closing, or the client or an unread body ends it.
Reuse(c) ==
  /\ ~closing[c] /\ c \notin blocked
  /\ Moves(c, "writing", "head")
  /\ UNCHANGED requests
Close(c) == At(c, "writing") /\ c \notin blocked /\ End(c)

Init ==
  /\ serve = "accepting"
  /\ connections = ConnectionLimit
  /\ requests = RequestLimit
  /\ stop = FALSE
  /\ seen = [c \in Connection |-> FALSE]
  /\ closing = [c \in Connection |-> FALSE]
  /\ phase = [c \in Connection |-> "none"]
  /\ blocked = {}
  /\ runtime = "up"

Loop == Stop \/ Return \/ ShutDown \/ \E c \in Connection : Accept(c)
Task(c) == Begin(c) \/ Hear(c) \/ HeaderTimeout(c)
Client(c) == Leave(c) \/ Block(c) \/ Unblock(c)
Guard(c) ==
  \/ Deny(c) \/ TurnAway(c) \/ Take(c)
  \/ ReceiveTimeout(c) \/ BodyFails(c) \/ Received(c)
Reply(c) == Answer(c) \/ BodyEnds(c) \/ BodyBreaks(c) \/ Reuse(c) \/ Close(c)

Next == Loop \/ \E c \in Connection : Task(c) \/ Client(c) \/ Guard(c) \/ Reply(c)

Spec == Init /\ [][Next]_vars

\* The loop and the tasks run and the timers fire; handlers return and their
\* bodies end, since every await of theirs on a provider has a deadline, as
\* long as the response can be written.  Nothing is assumed of clients: none
\* has to send, to read or to go.
FairSpec ==
  /\ Spec
  /\ WF_vars(Return) /\ WF_vars(ShutDown)
  /\ \A c \in Connection :
       /\ WF_vars(Begin(c)) /\ WF_vars(Hear(c))
       /\ WF_vars(HeaderTimeout(c)) /\ WF_vars(ReceiveTimeout(c))
       /\ WF_vars(Answer(c)) /\ WF_vars(BodyEnds(c) /\ c \notin blocked)
       /\ WF_vars(Reuse(c) \/ Close(c))

-----------------------------------------------------------------------------
(* Properties. *)

TypeOK ==
  /\ serve \in {"accepting", "stopping", "returned"}
  /\ connections \in Nat
  /\ requests \in Nat
  /\ stop \in BOOLEAN
  /\ seen \in [Connection -> BOOLEAN]
  /\ closing \in [Connection -> BOOLEAN]
  /\ phase \in [Connection -> Phase]
  /\ blocked \subseteq Connection
  /\ runtime \in {"up", "down"}

\* Both semaphores are short by exactly what is under way: a permit is back
\* however its holder ended, and only once (lan.rs:170, 213-248, 284).
PermitsFit ==
  /\ connections = ConnectionLimit - Cardinality({c \in Connection : Connected(c)})
  /\ requests = RequestLimit - Cardinality({c \in Connection : Working(c)})

\* The runtime goes down, and marks the ledger clean, only when no connection
\* is left whose handler could use it (lan.rs:296-299, quotamiser.rs:57-66).
RuntimeOutlivesHandlers ==
  runtime = "down" => \A c \in Connection : ~Connected(c)

\* A permit taken for a request comes back, however slowly the client sends,
\* unless the client stops reading its response: nothing in lan.rs (170-214,
\* 279-292) takes a permit from a response that cannot be written.
PermitsComeBack ==
  \A c \in Connection : Working(c) ~> ~Working(c) \/ c \in blocked

\* A stop ends: no connection misses it and none outlives it for long, unless a
\* client stops reading its response (lan.rs:286-299).
StopCompletes == serve = "stopping" ~> runtime = "down" \/ blocked # {}

=============================================================================
