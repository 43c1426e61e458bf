--------------------------- MODULE MCEventStream ---------------------------
(* Streams for TLC: every short mix of terminators and lines, and frames   *)
(* of every kind behind one another.                                       *)
EXTENDS EventStream

Summary(type, id, status, rest) ==
  [type |-> type, id |-> id, status |-> status, rest |-> rest]

MCPayloads ==
  [delta |-> Summary("response.output_text.delta", None, None, None),
   error |-> Summary("error", None, None, None),
   created |-> Summary("response.created", "one", "queued", None),
   createdOther |-> Summary("response.created", "two", "queued", None),
   untyped |-> Summary(None, "one", "in_progress", None),
   broken |-> Summary("response.created", None, None, None),
   completed |-> Summary("response.completed", "one", "completed", "usage"),
   completedBare |-> Summary("response.completed", "one", "completed", None),
   failed |-> Summary("response.failed", "one", "failed", None)]

MCNames == [nameProgress |-> "response.in_progress",
            nameCompleted |-> "response.completed"]

Sequences(S, n) == UNION {[1 .. k -> S] : k \in 0 .. n}

\* Terminators and lines in any order.
Mixes == Sequences({CR, LF, "delta", "comment"}, 6)
         \cup Sequences({CR, LF, "delta"}, 8)

Ends2 == {<<LF, LF>>, <<CR, CR>>, <<CR, LF, CR, LF>>, <<LF, CR>>}
Frames ==
  {<<payload>> \o e : payload \in DOMAIN MCPayloads, e \in Ends2}
  \cup {<<name, LF, payload, LF, LF>> :
          name \in DOMAIN MCNames, payload \in {"untyped", "completed", "failed"}}
  \cup {<<"completed", LF, "delta", LF, LF>>, <<BadUtf8, LF, LF>>}
Plain == {<<payload, LF, LF>> : payload \in DOMAIN MCPayloads}

MCStreams ==
  Mixes
  \cup {a \o b : a \in Frames, b \in Frames}
  \cup {a \o b \o c : a \in Plain, b \in Plain, c \in Plain}

=============================================================================
