---------------------------- MODULE EventStream ----------------------------
(***************************************************************************)
(* What a supervisor reads from the relayed stream: the framing of events  *)
(* (protocol/src/sse.rs) and the observer of responses (responses.rs).     *)
(*                                                                         *)
(* A stream is a sequence of CR, LF and pieces of lines; it arrives in     *)
(* packets that may end anywhere between them.  A piece is the field it    *)
(* begins and what follows, when it begins a line: a payload, an event     *)
(* name, or something to be ignored.  Payloads are what their JSON says.   *)
(***************************************************************************)
EXTENDS Integers, Sequences, FiniteSets, SequencesExt

CONSTANTS
  Streams,          \* what the provider may send
  Payloads,         \* pieces that are data lines, and what they say
  Names,            \* pieces that are event lines, and the name they give
  MaxPacket,        \* bound on the bytes of one packet
  MAX_EVENT_BYTES

ASSUME StreamAssumption ==
  /\ Streams \subseteq Seq(STRING)
  /\ MaxPacket \in Nat
  /\ MAX_EVENT_BYTES \in Nat

VARIABLES
  stream,           \* all the bytes of this response
  arrived,          \* how many of them were pushed
  buf, swallow_leading_lf, framing,      \* EventSplitter
  response_id, terminal, failure,        \* StreamObserver
  events, observed                       \* all that push returned so far

splitter == <<buf, swallow_leading_lf, framing>>
observer == <<response_id, terminal, failure>>
vars == <<stream, arrived, splitter, observer, events, observed>>

CR == "CR"
LF == "LF"
BadUtf8 == "bad"
None == "none"

\* What JSON that does not parse says; also the summary not yet seen.
Unreadable == [type |-> None, id |-> None, status |-> None, rest |-> None]

-----------------------------------------------------------------------------
(* Framing. *)

\* The bug of taking every CR for a whole terminator, and the LF after it for
\* another.
TerminatorAtEagerly(bytes, i) == IF bytes[i] \in {CR, LF} THEN 1 ELSE 0

\* The bytes of the terminator at i, when there is one.
TerminatorAt(bytes, i) ==
  CASE bytes[i] = LF -> 1
    [] bytes[i] = CR -> IF i < Len(bytes) /\ bytes[i + 1] = LF THEN 2 ELSE 1
    [] OTHER -> 0

\* The loop of find_event_end: it is about to read byte `at`, the last thing
\* it read was a terminator or not, and it has found the end or (0) not yet.
Scan(at, afterTerminator, end) ==
  [at |-> at, afterTerminator |-> afterTerminator, end |-> end]

\* One turn of it; a CR that ends the bytes ends the loop.
ScanOn(bytes, s) ==
  LET n == TerminatorAt(bytes, s.at)
  IN  IF s.end > 0 \/ s.at > Len(bytes) THEN s
      ELSE IF n = 0 THEN Scan(s.at + 1, FALSE, 0)
      ELSE Scan(s.at + n, TRUE, IF s.afterTerminator THEN s.at + n - 1 ELSE 0)

\* find_event_end: the length of the first complete event, or 0.
FindEventEnd(bytes) ==
  LET After[k \in 0 .. Len(bytes)] ==   \* k turns
        IF k = 0 THEN Scan(1, FALSE, 0) ELSE ScanOn(bytes, After[k - 1])
  IN  After[Len(bytes)].end

IsData(line) == line # <<>> /\ Head(line) \in DOMAIN Payloads
IsName(line) == line # <<>> /\ Head(line) \in DOMAIN Names

\* An event being read: the line that has begun, and what the others said.
Draft(line, name, data) == [line |-> line, name |-> name, data |-> data]
Blank == Draft(<<>>, None, <<>>)

AddByte(draft, byte) == Draft(Append(draft.line, byte), draft.name, draft.data)

\* The end of a line; the last event line names the event.
EndLine(draft) ==
  IF IsData(draft.line) THEN Draft(<<>>, draft.name, Append(draft.data, draft.line))
  ELSE IF IsName(draft.line) THEN Draft(<<>>, Names[Head(draft.line)], draft.data)
  ELSE Draft(<<>>, draft.name, draft.data)

\* There is no event without a data line.
EventOf(draft) ==
  IF draft.data = <<>> THEN <<>> ELSE <<[name |-> draft.name, data |-> draft.data]>>

\* Lines are cut at every CR and LF; the empty ones do not matter.
ParseByte(draft, byte) ==
  IF byte \in {CR, LF} THEN EndLine(draft) ELSE AddByte(draft, byte)

Parse(bytes) ==
  LET To[n \in 0 .. Len(bytes)] == IF n = 0 THEN Blank ELSE ParseByte(To[n - 1], bytes[n])
  IN  To[Len(bytes)]

ParseEvent(bytes) == EventOf(EndLine(Parse(bytes)))

Undecodable(bytes) == \E i \in DOMAIN bytes : bytes[i] = BadUtf8

\* The loop of push: complete events leave the buffer one by one.
Drained(found, rest, endedCr, bad) ==
  [events |-> found, rest |-> rest, endedCr |-> endedCr, bad |-> bad]

DrainOn(s) ==
  LET end == FindEventEnd(s.rest)
      raw == SubSeq(s.rest, 1, end)
  IN  IF end = 0 THEN s
      ELSE IF Undecodable(raw) THEN Drained(s.events, <<>>, FALSE, TRUE)
      ELSE Drained(s.events \o ParseEvent(raw), SubSeq(s.rest, end + 1, Len(s.rest)),
                   raw[end] = CR, FALSE)

Drain(bytes) ==
  LET After[k \in 0 .. Len(bytes)] ==
        IF k = 0 THEN Drained(<<>>, bytes, FALSE, FALSE) ELSE DrainOn(After[k - 1])
  IN  After[Len(bytes)]

\* The LF that completes the CR which ended the last packet's event.
Unswallowed(packet) ==
  IF swallow_leading_lf /\ buf = <<>> /\ packet # <<>> /\ Head(packet) = LF
  THEN Tail(packet) ELSE packet

-----------------------------------------------------------------------------
(* The observer. *)

Lifecycle ==
  {"response.created", "response.queued", "response.in_progress",
   "response.completed", "response.incomplete", "response.failed",
   "response.cancelled"}
TerminalStatus == {"completed", "incomplete", "failed", "cancelled"}

\* What the data of an event says; joined lines are not JSON.
Said(event) ==
  IF Len(event.data) = 1 /\ Len(event.data[1]) = 1
  THEN Payloads[event.data[1][1]] ELSE Unreadable

NameOf(event) == IF event.name = None THEN Said(event).type ELSE event.name

SeesId(id) == [sees |-> "id", id |-> id]
SeesTerminal(summary) == [sees |-> "terminal", summary |-> summary]
SeesError == [sees |-> "error"]

\* The observer's fields, as observe reads and writes them.
State(id, last, fail, seen) ==
  [id |-> id, terminal |-> last, failure |-> fail, seen |-> seen]

\* What is wrong with a lifecycle event, if anything; the bug of believing
\* the first terminal event whatever follows.
TroubleButTerminals(state, event) ==
  IF Said(event).id = None \/ Said(event).type \notin {None, NameOf(event)} THEN "malformed"
  ELSE IF state.id \notin {None, Said(event).id} THEN "ids"
  ELSE None

Trouble(state, event) ==
  IF Said(event).id = None \/ Said(event).type \notin {None, NameOf(event)} THEN "malformed"
  ELSE IF state.id \notin {None, Said(event).id} THEN "ids"
  ELSE IF /\ Said(event).status \in TerminalStatus
          /\ state.terminal \notin {Unreadable, Said(event)}
  THEN "terminals"
  ELSE None

\* observe: one event.
Observe(state, event) ==
  LET said == Said(event)
      trouble == Trouble(state, event)
      seen == IF state.id = None THEN Append(state.seen, SeesId(said.id)) ELSE state.seen
  IN  IF NameOf(event) = "error"
      THEN State(state.id, state.terminal, state.failure, Append(state.seen, SeesError))
      ELSE IF NameOf(event) \notin Lifecycle THEN state
      ELSE IF trouble # None THEN State(state.id, state.terminal, trouble, state.seen)
      ELSE IF said.status \in TerminalStatus /\ state.terminal = Unreadable
      THEN State(said.id, said, None, Append(seen, SeesTerminal(said)))
      ELSE State(said.id, state.terminal, None, seen)

\* StreamObserver::push stops at the first event that fails it.
ObserveOne(state, event) == IF state.failure = None THEN Observe(state, event) ELSE state

ObserveAll(state, batch) ==
  LET After[n \in 0 .. Len(batch)] ==
        IF n = 0 THEN state ELSE ObserveOne(After[n - 1], batch[n])
  IN  After[Len(batch)]

-----------------------------------------------------------------------------
(* Actions. *)

\* What push leaves behind when nothing more can be drained.
Splits(drained) ==
  LET fails == IF drained.bad THEN "utf8"
               ELSE IF Len(drained.rest) > MAX_EVENT_BYTES THEN "too_large"
               ELSE None
  IN  /\ framing' = fails
      /\ buf' = IF fails = None THEN drained.rest ELSE <<>>
      /\ swallow_leading_lf' =
           (fails = None /\ drained.endedCr /\ drained.rest = <<>>)

\* One packet, while the observer has not failed.
Push ==
  /\ failure = None
  /\ \E n \in 0 .. MaxPacket :
       /\ arrived + n <= Len(stream)
       /\ arrived' = arrived + n
       /\ LET packet == Unswallowed(SubSeq(stream, arrived + 1, arrived + n))
              drained == Drain(buf \o packet)
              after == ObserveAll(State(response_id, terminal, None, observed),
                                  drained.events)
          IN  /\ Splits(drained)
              /\ events' = events \o drained.events
              /\ response_id' = after.id
              /\ terminal' = after.terminal
              /\ observed' = after.seen
              /\ failure' = IF after.failure # None THEN after.failure
                                                    ELSE framing'
  /\ UNCHANGED stream

\* Once failed, push returns nothing; the bytes are relayed all the same.
PushFailed ==
  /\ failure # None
  /\ \E n \in 1 .. MaxPacket :
       /\ arrived + n <= Len(stream)
       /\ arrived' = arrived + n
  /\ UNCHANGED <<stream, splitter, observer, events, observed>>

Init ==
  /\ stream \in Streams
  /\ arrived = 0
  /\ buf = <<>>
  /\ swallow_leading_lf = FALSE
  /\ framing = None
  /\ response_id = None
  /\ terminal = Unreadable
  /\ failure = None
  /\ events = <<>>
  /\ observed = <<>>

Next == Push \/ PushFailed

Spec == Init /\ [][Next]_vars

-----------------------------------------------------------------------------
(* The reference: the standard's byte by byte reading of the whole stream, *)
(* which knows of no packets and no buffer. A CR ends a line, and so does  *)
(* an LF that does not follow one; an empty line ends the event. Nothing   *)
(* is read after an event that cannot be decoded.                          *)

Reader(afterCr, draft, bad, lost, list) ==
  [afterCr |-> afterCr, draft |-> draft, bad |-> bad, lost |-> lost, events |-> list]

Fresh == Reader(FALSE, Blank, FALSE, FALSE, <<>>)

ReadEnd(r, afterCr) ==
  IF r.draft.line # <<>> THEN Reader(afterCr, EndLine(r.draft), r.bad, r.lost, r.events)
  ELSE IF r.lost \/ r.bad THEN Reader(afterCr, Blank, FALSE, TRUE, r.events)
  ELSE Reader(afterCr, Blank, FALSE, FALSE, r.events \o EventOf(r.draft))

ReadByte(r, byte) ==
  IF byte \in {CR, LF}
  THEN IF byte = LF /\ r.afterCr THEN Reader(FALSE, r.draft, r.bad, r.lost, r.events)
       ELSE ReadEnd(r, byte = CR)
  ELSE Reader(FALSE, AddByte(r.draft, byte), r.bad \/ byte = BadUtf8, r.lost, r.events)

Read(r, bytes) ==
  LET To[n \in 0 .. Len(bytes)] == IF n = 0 THEN r ELSE ReadByte(To[n - 1], bytes[n])
  IN  To[Len(bytes)]

Bytes == SubSeq(stream, 1, arrived)

-----------------------------------------------------------------------------
(* What the events of a list say together                                  *)

IsLifecycle(event) == NameOf(event) \in Lifecycle
Ends(event) == IsLifecycle(event) /\ Said(event).status \in TerminalStatus

\* An event the observer has to refuse, given the ones before it.
Refused(list, i) ==
  /\ IsLifecycle(list[i])
  /\ \/ Said(list[i]).id = None
     \/ Said(list[i]).type \notin {None, NameOf(list[i])}
     \/ \E j \in 1 .. i - 1 : IsLifecycle(list[j]) /\ Said(list[j]).id # Said(list[i]).id
     \/ Ends(list[i]) /\ \E j \in 1 .. i - 1 : Ends(list[j]) /\ Said(list[j]) # Said(list[i])

\* The events before the first one that is refused.
Trusted(list) == {i \in DOMAIN list : \A j \in 1 .. i : ~Refused(list, j)}

Starts(list) == {i \in Trusted(list) : IsLifecycle(list[i])}
Finals(list) == {i \in Trusted(list) : Ends(list[i])}
Errors(list) == {i \in Trusted(list) : NameOf(list[i]) = "error"}

Of(seen, kind) == {k \in DOMAIN seen : seen[k].sees = kind}

-----------------------------------------------------------------------------
(* Properties. *)

\* However the stream is cut into packets, the events returned are the ones
\* a reader of the whole stream finds; a stream given up for its size or for
\* what it says has returned a prefix of them.
EventsAsSent ==
  LET all == Read(Fresh, Bytes).events
  IN  IF failure \in {None, "utf8"} THEN events = all
                                    ELSE IsPrefix(events, all)

\* What is observed is decided by the events: lifecycle events give the id,
\* the final ones the terminal summary, each is announced once and the id
\* before the summary, and the stream is given up at the first event that
\* contradicts them or cannot be read.
ObservedAsSaid ==
  LET starts == Starts(events)
      finals == Finals(events)
      ids == Of(observed, "id")
      summaries == Of(observed, "terminal")
  IN  /\ starts = {} => response_id = None
      /\ \A i \in starts : Said(events[i]).id = response_id
      /\ finals = {} => terminal = Unreadable
      /\ \A i \in finals : Said(events[i]) = terminal
      /\ Cardinality(ids) = IF starts = {} THEN 0 ELSE 1
      /\ \A k \in ids : observed[k] = SeesId(response_id)
      /\ Cardinality(summaries) = IF finals = {} THEN 0 ELSE 1
      /\ \A k \in summaries : observed[k] = SeesTerminal(terminal) /\ \E j \in ids : j < k
      /\ Cardinality(Of(observed, "error")) = Cardinality(Errors(events))
      /\ failure \in {"malformed", "ids", "terminals"} <=> Trusted(events) # DOMAIN events

=============================================================================
