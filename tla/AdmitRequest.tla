---------------------------- MODULE AdmitRequest ----------------------------
(***************************************************************************)
(* One request from its body to an answer: parsed, bounded                 *)
(* (admission/src/liability.rs), admitted (proxy/src/admission.rs), sent   *)
(* to the provider, and, when that had no capacity, to the second route    *)
(* (proxy/src/server.rs).                                                  *)
(*                                                                         *)
(* Each step between two awaits is an action.  What the ledger, the        *)
(* provider's counter and both providers answer is chosen by \E.  Their    *)
(* states are Ledger's, Dispatcher's and RequestSlots' matter; here it is  *)
(* about what is reserved for, sent and told.                              *)
(***************************************************************************)
EXTENDS CreateRequest, Tokens

CONSTANTS
  Documents,        \* the bodies a client may send
  Catalog,          \* configured models: their output maximum and encoding
  Routes,           \* the models of the second route, in order
  Allowance,        \* framing_allowance_per_node
  SynchronousOutput, SynchronousBytes, SynchronousCharacters,
  Widest,           \* the largest number of the build's integers
  Texts,            \* of a text: its bytes and characters
  TokensOf(_, _)    \* what the provider makes of a value, for a model

ASSUME DocumentsAssumption ==
  \A body \in Documents \ {Garbage} : \A v \in Inside(body) : IsValue(v)
ASSUME CatalogAssumption ==
  \A model \in DOMAIN Catalog :
    Catalog[model].maxOutput \in Nat /\ Catalog[model].byteLevel \in BOOLEAN
ASSUME RoutesAssumption == Routes \in Seq(ToSet(Routes))
ASSUME LimitsAssumption ==
  {Allowance, SynchronousOutput, SynchronousBytes, SynchronousCharacters, Widest}
    \subseteq Nat
ASSUME TextsAssumption ==
  \A s \in DOMAIN Texts : {Texts[s].bytes, Texts[s].characters} \subseteq Nat

VARIABLES
  document,         \* the body
  pc,               \* where its handler is
  fields,           \* the normalized request
  outputBound,      \* the most the response can cost
  toCount,          \* count bodies the counter has not answered for
  counted,          \* sum of its answers
  liability,        \* what was reserved
  sent,             \* bodies that left, per provider
  outcome,          \* how the first provider's attempt ended
  second,           \* how the second route's attempt ended
  told              \* the client's answer

vars == <<document, pc, fields, outputBound, toCount, counted, liability,
          sent, outcome, second, told>>
request == <<document, fields>>
bound == <<outputBound, toCount, counted, liability>>
answers == <<sent, outcome, second>>

Unsent == Absent

-----------------------------------------------------------------------------
(* The provider, as far as it is measured: what its counter counts, what    *)
(* generation renders, and what a response may cost.                       *)

InputFields == {"instructions", "input", "tools", "tool_choice",
                "parallel_tool_calls", "reasoning", "text"}

\* Any other string is of one byte.
TextOf(s) == IF s \in DOMAIN Texts THEN Texts[s] ELSE [bytes |-> 1, characters |-> 1]

\* Each field brings a framing token.
Count(body) ==
  LET there == Keys(body) \cap InputFields
  IN  Total(there, [k \in there |-> 1 + TokensOf(Model(body), body.members[k])])

\* Generation renders the tools an item declares once more.
Generated(body) ==
  Count(body)
  + Total(Declaring(body), [i \in Declaring(body) |-> TokensOf(Model(body), ToolsAt(body, i))])

Smaller(m, n) == IF m < n THEN m ELSE n
Output(body) ==
  IF Cap(body) = NoCap THEN Catalog[Model(body)].maxOutput
  ELSE Smaller(Cap(body), Catalog[Model(body)].maxOutput)

\* A choice that names a tool is valid where the tool is declared.
Declared(body) ==
  {Field(tool, "name") :
     tool \in ToSet(Items(Field(body, "tools")))
              \cup UNION {ToSet(Items(ToolsAt(body, i))) : i \in Declaring(body)}}
Countable(body) ==
  Field(body, "tool_choice").t = "object"
    => Field(Field(body, "tool_choice"), "name") \in Declared(body)

-----------------------------------------------------------------------------
(* What liability.rs takes for granted of the provider.                    *)

\* What becomes of the documents that are accepted.
Requests == {Parse(body).value : body \in {d \in Documents : Parse(d).ok}}

\* Those whose texts are bounded by their bytes.
ByteBounded ==
  {accepted \in Requests :
     /\ Model(accepted) \in DOMAIN Catalog
     /\ Catalog[Model(accepted)].byteLevel
     /\ FlatText(accepted).flat}
TextsIn(body) == Keys(body) \cap {"instructions", "input"}
FramingIn(body) == (Keys(body) \cap InputFields) \ TextsIn(body)

\* What a count body consists of is some number of tokens.
ASSUME TokensAssumption ==
  \A accepted \in Requests :
    LET bodies == CountBodies(accepted)
    IN  \A i \in DOMAIN bodies : \A k \in Keys(bodies[i]) \cap InputFields :
          TokensOf(Model(accepted), bodies[i].members[k]) \in Nat

\* Merges only reduce: a byte-level encoding makes no more tokens than bytes.
ASSUME BytesAssumption ==
  \A accepted \in ByteBounded : \A k \in TextsIn(accepted) :
    TokensOf(Model(accepted), accepted.members[k])
      <= TextOf(accepted.members[k].s).bytes

\* The allowance of each text covers all framing.
ASSUME FramingAssumption ==
  \A accepted \in ByteBounded :
    Cardinality(TextsIn(accepted))
      + Total(FramingIn(accepted),
              [k \in FramingIn(accepted) |->
                 1 + TokensOf(Model(accepted), accepted.members[k])])
      <= Allowance * Cardinality(TextsIn(accepted))

-----------------------------------------------------------------------------
(* The liability. *)

Overflow == -1
Sum(m, n) == IF m = Overflow \/ n = Overflow \/ m + n > Widest
             THEN Overflow ELSE m + n

OutputBound(model, cap) ==
  IF cap = NoCap THEN Catalog[model].maxOutput
  ELSE Smaller(cap, Catalog[model].maxOutput)

\* Over the one or two nodes of a flat text, with checked addition.
Measure(flat, size) ==
  LET Of(i) == TextOf(flat.nodes[i])[size]
  IN  IF Len(flat.nodes) = 1 THEN Sum(0, Of(1)) ELSE Sum(Of(1), Of(2))

ByteBound(flat) ==
  Sum(Measure(flat, "bytes"),
      IF Allowance * Len(flat.nodes) > Widest THEN Overflow
      ELSE Allowance * Len(flat.nodes))

\* The bug of looking at the cap alone, which may be missing.
BackgroundByCap(model, cap) == cap > SynchronousOutput

Background(model, cap) ==
  cap = NoCap \/ OutputBound(model, cap) > SynchronousOutput

\* estimate and estimate_synchronous: whether the byte bound stands.
Bounded(model, cap, flat) ==
  /\ flat.flat
  /\ \/ Catalog[model].byteLevel
     \/ /\ ~Background(model, cap)
        /\ Measure(flat, "characters") <= SynchronousCharacters
        /\ Measure(flat, "bytes") <= SynchronousBytes

-----------------------------------------------------------------------------
(* The handler. *)

Answer(what) ==
  /\ told' = what
  /\ pc' = "done"

\* The ledger's.
Refusals == {"insufficient_quota", "pool_not_open", "latched", "safety_input"}
Shortage == Refusals \cup {"window_closed"}

\* A refusal: only a shortage moves on to the second route.
Refuse(why) ==
  /\ outcome' = why
  /\ pc' = IF why \in Shortage THEN "second" ELSE "refused"

ParseBody ==
  /\ pc = "received"
  /\ LET parsed == Parse(document)
     IN  IF parsed.ok
         THEN /\ fields' = parsed.value
              /\ pc' = "parsed"
              /\ UNCHANGED told
         ELSE /\ \E code \in parsed.codes : Answer(code)
              /\ UNCHANGED fields
  /\ UNCHANGED <<document, bound, answers>>

\* No reading of the clock, or no window to be had from the ledger.
Unready ==
  /\ pc = "parsed"
  /\ Answer("unavailable")
  /\ UNCHANGED <<request, bound, answers>>

\* admit: the catalogue, the window, then the bound.
Unconfigured ==
  /\ pc = "parsed"
  /\ Model(fields) \notin DOMAIN Catalog
  /\ Refuse("unknown_model")
  /\ UNCHANGED <<request, bound, sent, second, told>>

WindowClosed ==
  /\ pc = "parsed"
  /\ Model(fields) \in DOMAIN Catalog
  /\ \E why \in {"window_closed", "rollover_due"} : Refuse(why)
  /\ UNCHANGED <<request, bound, sent, second, told>>

Estimate ==
  /\ pc = "parsed"
  /\ Model(fields) \in DOMAIN Catalog
  /\ LET model == Model(fields)
         flat == FlatText(fields)
         out == OutputBound(model, Cap(fields))
     IN  /\ outputBound' = out
         /\ IF Bounded(model, Cap(fields), flat)
            THEN /\ liability' = Sum(ByteBound(flat), out)
                 /\ IF Sum(ByteBound(flat), out) = Overflow
                    THEN Refuse("overflow")
                    ELSE /\ pc' = "reserve"
                         /\ UNCHANGED outcome
                 /\ UNCHANGED toCount
            ELSE /\ toCount' = CountBodies(fields)
                 /\ pc' = "counting"
                 /\ UNCHANGED <<liability, outcome>>
  /\ UNCHANGED <<request, counted, sent, second, told>>

\* One call to the provider's counter, body after body.
CountOne ==
  /\ pc = "counting"
  /\ \E i \in DOMAIN toCount :
       /\ \A j \in DOMAIN toCount : i <= j
       /\ Countable(toCount[i])
       /\ LET sum == Sum(counted, Count(toCount[i]))
          IN  IF sum = Overflow
              THEN Refuse("overflow") /\ UNCHANGED counted
              ELSE counted' = sum /\ UNCHANGED <<pc, outcome>>
       /\ toCount' = [j \in DOMAIN toCount \ {i} |-> toCount[j]]
  /\ UNCHANGED <<request, outputBound, liability, sent, second, told>>

CounterFails ==
  /\ pc = "counting"
  /\ DOMAIN toCount # {}
  /\ Refuse("not_counted")
  /\ UNCHANGED <<request, bound, sent, second, told>>

Bound ==
  /\ pc = "counting"
  /\ DOMAIN toCount = {}
  /\ liability' = Sum(counted, outputBound)
  /\ IF Sum(counted, outputBound) = Overflow
     THEN Refuse("overflow")
     ELSE pc' = "reserve" /\ UNCHANGED outcome
  /\ UNCHANGED <<request, outputBound, toCount, counted, sent, second, told>>

\* The ledger refuses or fails; that it reserves is the step to dispatch.
NotReserved ==
  /\ pc = "reserve"
  /\ \E why \in Refusals \cup {"untrusted", "ledger_unavailable"} : Refuse(why)
  /\ UNCHANGED <<request, bound, sent, second, told>>

Reserved ==
  /\ pc = "reserve"
  /\ pc' = "dispatch"
  /\ UNCHANGED <<request, bound, answers, told>>

\* dispatch: held back by the gate or the breaker, aborted, or sent with the
\* body the reservation is for.  Whatever the provider answers is the answer.
HeldBack ==
  /\ pc = "dispatch"
  /\ outcome' = "held_back"
  /\ pc' = "second"
  /\ UNCHANGED <<request, bound, sent, second, told>>

Aborted ==
  /\ pc = "dispatch"
  /\ outcome' = "not_sent"
  /\ Answer("not_sent")
  /\ UNCHANGED <<request, bound, sent, second>>

Sent ==
  /\ pc = "dispatch"
  /\ sent' = [sent EXCEPT !.openai =
                OpenAiBody(fields, Background(Model(fields), Cap(fields)))]
  /\ \E how \in {"stream", "refused_by_provider", "unknown"} :
       /\ outcome' = how
       /\ Answer(how)
  /\ UNCHANGED <<request, bound, second>>

-----------------------------------------------------------------------------
(* try_openrouter: not configured or not open, no model for the request,   *)
(* held back or out of requests, or sent.                                  *)

Route == ModelFor(Routes, ToolUsage(fields), NeedsStructuredOutput(fields))

SecondUnavailable ==
  /\ pc = "second"
  /\ second' = "unavailable"
  /\ pc' = "refused"
  /\ UNCHANGED <<request, bound, sent, outcome, told>>

SecondSent ==
  /\ pc = "second"
  /\ Route # NoModel
  /\ sent' = [sent EXCEPT !.openrouter = OpenRouterBody(fields, Route.id)]
  /\ \E how \in {"stream", "refused_by_provider", "failed"} :
       /\ second' = how
       /\ IF how = "failed" THEN pc' = "refused" /\ UNCHANGED told
                            ELSE Answer(how)
  /\ UNCHANGED <<request, bound, outcome>>

\* refusal_response: the first provider's refusal stands.
Refused ==
  /\ pc = "refused"
  /\ Answer(CASE outcome \in {"held_back", "insufficient_quota"} ->
                     "nothing_was_sent"
              [] outcome = "unknown_model" -> "model_not_configured"
              [] OTHER -> "unavailable")
  /\ UNCHANGED <<request, bound, answers>>

Init ==
  /\ document \in Documents
  /\ pc = "received"
  /\ fields = Obj(<<>>)
  /\ outputBound = 0
  /\ toCount = <<>>
  /\ counted = 0
  /\ liability = 0
  /\ sent = [openai |-> Unsent, openrouter |-> Unsent]
  /\ outcome = "none"
  /\ second = "none"
  /\ told = "nothing"

Next ==
  \/ ParseBody \/ Unready \/ Unconfigured \/ WindowClosed \/ Estimate
  \/ CountOne \/ CounterFails \/ Bound
  \/ NotReserved \/ Reserved \/ HeldBack \/ Aborted \/ Sent
  \/ SecondUnavailable \/ SecondSent \/ Refused

Spec == Init /\ [][Next]_vars

-----------------------------------------------------------------------------
(* Properties. *)

Body(provider) == sent[provider]
Left(provider) == sent[provider] # Unsent

\* What was reserved for a request covers what the body that left can cost,
\* rendering and output together.  The one exception is the one the code
\* names: a short, capped, flat text of a model whose encoding is not known,
\* where only the output bound stands.
LiabilityCovers ==
  Left("openai") =>
    LET body == Body("openai")
        text == FlatText(fields)
        unverified ==
          /\ ~Catalog[Model(body)].byteLevel
          /\ Field(body, "background") = Bool(FALSE)
          /\ text.flat
          /\ Measure(text, "bytes") <= SynchronousBytes
          /\ Measure(text, "characters") <= SynchronousCharacters
    IN  Output(body) + (IF unverified THEN 0 ELSE Generated(body)) <= liability

\* A response that runs in the foreground is lost with its connection, and so
\* written off: none that is sent that way costs more output than the policy
\* says, and every one is stored, so that it can be asked for again.
ForegroundIsSmall ==
  Left("openai") =>
    LET body == Body("openai")
    IN  /\ \/ Field(body, "background") = Bool(TRUE)
           \/ /\ Output(body) <= SynchronousOutput
              /\ Cap(body) # NoCap
        /\ Field(body, "store") = Bool(TRUE)
        /\ Field(body, "stream") = Bool(TRUE)

\* The tools of a list, at any depth.
Declarations(tools) ==
  LET At[n \in 0 .. MaxNesting] ==
        IF n = 0 THEN ToSet(tools)
        ELSE UNION {ToSet(Items(Field(tool, "tools"))) : tool \in At[n - 1]}
  IN  UNION {At[n] : n \in 0 .. MaxNesting}
EveryTool(body) ==
  Declarations(Items(Field(body, "tools")))
  \cup UNION {Declarations(Items(Field(item, "tools"))) :
                item \in ToSet(Items(Field(body, "input")))}
ContentOf(item) ==
  ToSet(Items(Field(item, "content"))) \cup ToSet(Items(Field(item, "output")))

\* No body leaves with a tool the provider runs and bills, at any depth, with a
\* reference to something stored or served elsewhere, or with a key twice.
NothingBilledElsewhere ==
  \A provider \in DOMAIN sent : Left(provider) =>
    LET body == Body(provider)
    IN  /\ NoDuplicates(body)
        /\ \A tool \in EveryTool(body) :
             /\ Field(tool, "type") \in
                  {Str("function"), Str("custom"), Str("namespace")}
             /\ Field(tool, "defer_loading") \in {Absent, Bool(FALSE)}
        /\ Keys(body) \cap {"previous_response_id", "conversation", "prompt",
                            "client_metadata"} = {}
        /\ \A item \in ToSet(Items(Field(body, "input"))) :
             /\ Keys(item) \cap {"id", "status"} = {}
             /\ \A part \in ContentOf(item) :
                  Field(part, "image_url").t = "string"
                    => Field(part, "image_url").s \in Inline

\* What was accepted is in normal form: parsed again it is accepted and
\* unchanged, so what is counted, bounded and sent is one request.
NormalFormIsStable ==
  pc = "parsed" =>
    Parse(With(fields, "stream", Bool(TRUE))) = Ok(fields)

\* A request is never sent to both providers, and the second gets only what
\* its model is known to take.
SecondRouteIsSafe ==
  Left("openrouter") =>
    /\ ~Left("openai")
    /\ outcome \in Shortage \cup {"held_back"}
    /\ LET body == Body("openrouter")
       IN  \E model \in ToSet(Routes) :
             /\ Field(body, "model") = Str(model.id)
             /\ \A tool \in EveryTool(body) : Field(tool, "type").s \in model.tools
             /\ NeedsStructuredOutput(body) => model.structured

\* The counter is never asked about a body that chooses a tool it does not
\* declare, when the request itself is a valid one.
CountBodiesAreValid ==
  (pc = "counting" /\ Countable(fields)) =>
    \A i \in DOMAIN toCount : Countable(toCount[i])

\* A client told that nothing was sent has had nothing sent.
NothingSentIsTrue ==
  told = "nothing_was_sent" =>
    ~Left("openrouter") /\ ~Left("openai")

=============================================================================
