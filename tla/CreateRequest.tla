--------------------------- MODULE CreateRequest ---------------------------
(***************************************************************************)
(* A client's request body: strict parsing, the allowlist, the normalized  *)
(* form, and the bodies made from it (protocol/src/request.rs), with the   *)
(* choice of a model for the second route (proxy/src/openrouter.rs).       *)
(*                                                                         *)
(* The tables of shapes and accepted values are data here as they are      *)
(* there.  An object stands for all orders of its members: of several that *)
(* are refused, any one may be the first.  Paths and wording of a refusal  *)
(* are left out, its code is kept.  Operators are pure; AdmitRequest runs  *)
(* them.                                                                   *)
(***************************************************************************)
EXTENDS Integers, Sequences, FiniteSets, SequencesExt

CONSTANTS
  Inline,               \* the strings that begin with `data:'
  MaxNesting            \* serde_json's recursion limit

ASSUME NestingAssumption == MaxNesting \in Nat \ {0}

-----------------------------------------------------------------------------
(* JSON values.  An object is a function of its keys; in a text, where one  *)
(* may come again, it says so.                                             *)

Null == [t |-> "null"]
Bool(b) == [t |-> "bool", b |-> b]
Num(n) == [t |-> "number", n |-> n]
Str(s) == [t |-> "string", s |-> s]
Arr(items) == [t |-> "array", items |-> items]
Obj(members) == [t |-> "object", members |-> members, again |-> FALSE]
Repeating(members) == [t |-> "object", members |-> members, again |-> TRUE]

Absent == [t |-> "absent"]
Garbage == [t |-> "garbage"]        \* bytes that are not JSON

Keys(object) == DOMAIN object.members
Has(v, key) == v.t = "object" /\ key \in Keys(v)
Field(v, key) == IF Has(v, key) THEN v.members[key] ELSE Absent
Items(v) == IF v.t = "array" THEN v.items ELSE <<>>

Only(object, keys) == Obj([k \in Keys(object) \cap keys |-> object.members[k]])
Without(object, keys) == Only(object, Keys(object) \ keys)
With(object, key, v) ==
  Obj([k \in Keys(object) \cup {key} |-> IF k = key THEN v ELSE object.members[k]])

IsKind(v, kind) == Field(v, "type") = Str(kind)

\* The values directly in v.
Parts(v) ==
  CASE v.t = "array" -> {v.items[i] : i \in DOMAIN v.items}
    [] v.t = "object" -> {v.members[k] : k \in Keys(v)}
    [] OTHER -> {}

\* A value, as far as its own level goes.
IsValue(v) ==
  \/ v \in {Null, Bool(TRUE), Bool(FALSE)}
  \/ v.t = "number" /\ v.n \in Int /\ v = Num(v.n)
  \/ v.t = "string" /\ v.s \in STRING /\ v = Str(v.s)
  \/ v.t = "array" /\ v.items \in Seq(Parts(v)) /\ v = Arr(v.items)
  \/ /\ v.t = "object"
     /\ v.members \in [Keys(v) -> Parts(v)]
     /\ v \in {Obj(v.members), Repeating(v.members)}

\* The values n levels below those of S.
AllParts(S) == UNION {Parts(v) : v \in S}
Below(S) ==
  LET At[n \in 0 .. MaxNesting] == IF n = 0 THEN S ELSE AllParts(At[n - 1])
  IN  At

Inside(v) == UNION {Below({v})[n] : n \in 0 .. MaxNesting}

\* The innermost array or object that is counted is one too many.
TooDeep(v) ==
  \E x \in Below({v})[MaxNesting - 1] : x.t \in {"array", "object"}

-----------------------------------------------------------------------------
(* Results, and strict parsing. *)

Ok(v) == [ok |-> TRUE, value |-> v]
Rejection(codes) == [ok |-> FALSE, codes |-> codes]

NoDuplicates(v) == \A x \in Inside(v) : x.t = "object" => ~x.again

\* Whichever of them comes first in the text.
ParseStrict(body) ==
  LET codes == {code \in {"invalid_json", "duplicate_key"} :
                  IF code = "invalid_json" THEN body = Garbage \/ TooDeep(body)
                                           ELSE ~NoDuplicates(body)}
  IN  IF codes = {} THEN Ok(body) ELSE Rejection(codes)

-----------------------------------------------------------------------------
(* The tables.  `keep' and `drop' name the check of a field; a dropped      *)
(* field is checked and then left out of the normalized body.              *)

Shape(keep, drop, required) ==
  [keep |-> keep, drop |-> drop, required |-> required]

Nothing == [type |-> "string"]
Stored == [id |-> "anything", status |-> "anything"]
NoDrop == [x \in {} |-> "anything"]
Call(argument) ==
  [k \in {"type", "call_id", "name", "namespace", argument} |->
     IF k \in {"call_id", "name"} THEN "non_empty_string" ELSE "string"]
TextPart == Shape([type |-> "string", text |-> "string"], NoDrop, {"text"})

InputItems ==
  [message |->
     Shape([type |-> "string", role |-> "message_role",
            content |-> "message_content", phase |-> "message_phase"],
           Stored, {"role", "content"}),
   reasoning |->
     Shape([type |-> "string", summary |-> "summary_parts",
            content |-> "reasoning_text_parts",
            encrypted_content |-> "non_empty_string"],
           Stored, {"encrypted_content"}),
   function_call |->
     Shape(Call("arguments"), Stored, {"call_id", "name", "arguments"}),
   function_call_output |->
     Shape([type |-> "string", call_id |-> "non_empty_string",
            name |-> "string", namespace |-> "string",
            output |-> "tool_output"], Stored, {"call_id", "output"}),
   custom_tool_call |->
     Shape(Call("input"), Stored, {"call_id", "name", "input"}),
   custom_tool_call_output |->
     Shape([type |-> "string", call_id |-> "non_empty_string",
            name |-> "string", output |-> "tool_output"],
           Stored, {"call_id", "output"}),
   additional_tools |->
     Shape([type |-> "string", role |-> "developer_role",
            tools |-> "tool_list"], [id |-> "anything"], {"role", "tools"})]

UserParts ==
  [input_text |-> TextPart,
   input_image |-> Shape([type |-> "string", image_url |-> "inline_image_url",
                          detail |-> "image_detail"], NoDrop, {"image_url"})]

MessageParts ==
  [input_text |-> TextPart,
   input_image |-> UserParts.input_image,
   output_text |-> Shape([type |-> "string", text |-> "string"],
                         [annotations |-> "anything", logprobs |-> "anything"],
                         {"text"}),
   refusal |-> Shape([type |-> "string", refusal |-> "string"],
                     NoDrop, {"refusal"})]

MemberTools ==
  [function |->
     Shape([type |-> "string", name |-> "non_empty_string",
            description |-> "string", parameters |-> "json_object",
            strict |-> "boolean_or_null", defer_loading |-> "not_deferred"],
           NoDrop, {"name"}),
   custom |->
     Shape([type |-> "string", name |-> "non_empty_string",
            description |-> "string", format |-> "custom_tool_format",
            defer_loading |-> "not_deferred"], NoDrop, {"name"})]

\* The bug of checking tools where they are declared at the top only.
ToolsOfAnyMember ==
  MemberTools
  @@ ("namespace" :> Shape([type |-> "string", name |-> "non_empty_string",
                            description |-> "string", tools |-> "anything"],
                           NoDrop, {"name", "tools"}))

Tools ==
  [function |-> MemberTools.function,
   custom |-> MemberTools.custom,
   namespace |->
     Shape([type |-> "string", name |-> "non_empty_string",
            description |-> "string", tools |-> "namespace_members"],
           NoDrop, {"name", "tools"})]

NamedChoice == Shape([type |-> "string", name |-> "non_empty_string"],
                     NoDrop, {"name"})

\* Objects told apart by their `type'.
Typed ==
  [input_item |-> InputItems,
   message_part |-> MessageParts,
   output_part |-> UserParts,
   summary_part |-> [summary_text |-> TextPart],
   reasoning_text_part |-> [reasoning_text |-> TextPart],
   tool |-> Tools,
   member_tool |-> MemberTools,
   named_choice |-> [function |-> NamedChoice, custom |-> NamedChoice],
   custom_tool_format |->
     [text |-> Shape(Nothing, NoDrop, {}),
      grammar |-> Shape([type |-> "string", syntax |-> "grammar_syntax",
                         definition |-> "string"],
                        NoDrop, {"syntax", "definition"})],
   output_format |->
     [text |-> Shape(Nothing, NoDrop, {}),
      json_object |-> Shape(Nothing, NoDrop, {}),
      json_schema |-> Shape([type |-> "string", name |-> "non_empty_string",
                             schema |-> "json_object",
                             strict |-> "boolean_or_null",
                             description |-> "string"],
                            NoDrop, {"name", "schema"})]]

\* Objects of one shape.
Plain ==
  [reasoning |-> Shape([effort |-> "reasoning_effort",
                        summary |-> "reasoning_summary",
                        context |-> "reasoning_context"], NoDrop, {}),
   text |-> Shape([verbosity |-> "verbosity", format |-> "output_format"],
                  NoDrop, {}),
   prompt_cache_options |-> Shape([ttl |-> "cache_ttl"], NoDrop, {})]

ArrayOf ==
  [summary_parts |-> "summary_part",
   reasoning_text_parts |-> "reasoning_text_part",
   tool_list |-> "tool", namespace_members |-> "member_tool",
   include |-> "include_entry"]

StringOrArrayOf ==
  [input |-> "input_item", message_content |-> "message_part",
   tool_output |-> "output_part"]

Enumerated ==
  [message_role |-> {"user", "assistant", "system", "developer"},
   developer_role |-> {"developer"},
   message_phase |-> {"commentary", "final_answer"},
   image_detail |-> {"auto", "low", "high", "original"},
   grammar_syntax |-> {"lark", "regex"},
   reasoning_effort |-> {"none", "minimal", "low", "medium", "high", "xhigh"},
   reasoning_summary |-> {"auto", "concise", "detailed", "none"},
   reasoning_context |-> {"auto", "current_turn", "all_turns"},
   verbosity |-> {"low", "medium", "high"},
   cache_ttl |-> {"30m"},
   include_entry |-> {"reasoning.encrypted_content"},
   choice |-> {"auto", "none", "required"}]

-----------------------------------------------------------------------------
(* The checks. *)

Accepts(check, v) ==
  CASE check = "anything" -> TRUE
    [] check = "string" -> v.t = "string"
    [] check = "non_empty_string" -> v.t = "string" /\ v # Str("")
    [] check = "boolean" -> v.t = "bool"
    [] check = "boolean_or_null" -> v.t \in {"bool", "null"}
    [] check = "null_or_false" -> v \in {Null, Bool(FALSE)}
    [] check = "stateless" -> v = Null
    [] check = "not_deferred" -> v = Bool(FALSE)
    [] check = "number" -> v.t = "number"
    [] check = "positive_integer" -> v.t = "number" /\ v.n > 0
    [] check = "json_object" -> v.t = "object"
    [] check = "metadata" ->
         /\ v.t = "object"
         /\ \A k \in Keys(v) : v.members[k].t = "string"
    [] check = "inline_image_url" -> v.t = "string" /\ v.s \in Inline
    [] OTHER -> v.t = "string" /\ v.s \in Enumerated[check]

\* The code of a value its check refuses.
CodeOf(check, v) ==
  CASE check = "stateless" -> "server_side_state_unsupported"
    [] check = "inline_image_url" /\ v.t = "string" ->
         "remote_reference_unsupported"
    [] OTHER -> "invalid_value"

\* The code of a `type' the table of its place does not list.
CodeOfKind(place, kind) ==
  CASE place \in {"input_item", "message_part", "output_part"} ->
         "unsupported_input_item"
    [] place = "tool" \/ (place = "member_tool" /\ kind # "namespace") ->
         "hosted_tool_unsupported"
    [] OTHER -> "invalid_value"

\* A value that is looked at no further.
CheckLeaf(check, v) ==
  IF Accepts(check, v) THEN Ok(v) ELSE Rejection({CodeOf(check, v)})

\* The bug of nulling what is left out, instead of leaving it out.
NormalizedToNull(shape, results) ==
  LET refused == {k \in DOMAIN results : ~results[k].ok}
      kept == DOMAIN results \cap DOMAIN shape.keep
  IN  IF refused # {} THEN Rejection(UNION {results[k].codes : k \in refused})
      ELSE IF ~ shape.required \subseteq kept
      THEN Rejection({"missing_required_parameter"})
      ELSE Ok(Obj([k \in DOMAIN results |->
                     IF k \in kept THEN results[k].value ELSE Null]))

\* Shape::apply, once each member has been checked: what is required comes
\* after them, and what is only accepted is left out.
Normalized(shape, results) ==
  LET refused == {k \in DOMAIN results : ~results[k].ok}
      kept == DOMAIN results \cap DOMAIN shape.keep
  IN  IF refused # {} THEN Rejection(UNION {results[k].codes : k \in refused})
      ELSE IF ~ shape.required \subseteq kept
      THEN Rejection({"missing_required_parameter"})
      ELSE Ok(Obj([k \in kept |-> results[k].value]))

Apply(Inner(_, _), shape, object) ==
  Normalized(shape,
    [k \in Keys(object) |->
       IF k \in DOMAIN shape.keep THEN Inner(shape.keep[k], object.members[k])
       ELSE IF k \in DOMAIN shape.drop THEN Inner(shape.drop[k], object.members[k])
       ELSE Rejection({"unsupported_parameter"})])

\* The type that decides on the shape; an easy message may leave it out.
KindOf(place, object) ==
  LET kind == Field(object, "type")
  IN  IF kind = Absent /\ place = "input_item" /\ Has(object, "role")
      THEN Str("message") ELSE kind

CheckTyped(Inner(_, _), place, v) ==
  LET kind == KindOf(place, v)
  IN  CASE v.t # "object" -> Rejection({"invalid_value"})
        [] v.t = "object" /\ kind = Absent -> Rejection({"missing_required_parameter"})
        [] v.t = "object" /\ kind.t = "string" ->
             IF kind.s \in DOMAIN Typed[place] THEN Apply(Inner, Typed[place][kind.s], v)
             ELSE Rejection({CodeOfKind(place, kind.s)})
        [] OTHER -> Rejection({"invalid_value"})

CheckOne(Inner(_, _), check, v) ==
  CASE check \in DOMAIN Typed -> CheckTyped(Inner, check, v)
    [] check \in DOMAIN Plain ->
         IF v.t = "object" THEN Apply(Inner, Plain[check], v)
                           ELSE Rejection({"invalid_value"})
    [] OTHER -> CheckLeaf(check, v)

\* each: the first item that is refused decides.
Collected(results) ==
  LET refused == {i \in DOMAIN results : ~results[i].ok}
  IN  IF refused = {} THEN Ok(Arr([i \in DOMAIN results |-> results[i].value]))
                      ELSE Rejection(results[Min(refused)].codes)

CheckEach(Inner(_, _), check, v) ==
  IF v.t = "array"
  THEN Collected([i \in DOMAIN v.items |-> CheckOne(Inner, check, v.items[i])])
  ELSE Rejection({"invalid_value"})

\* The value of a member; Inner checks the members of the objects in it.
CheckIn(Inner(_, _), check, v) ==
  CASE check \in DOMAIN ArrayOf -> CheckEach(Inner, ArrayOf[check], v)
    [] check \in DOMAIN StringOrArrayOf ->
         IF v.t = "string" THEN Ok(v) ELSE CheckEach(Inner, StringOrArrayOf[check], v)
    [] check = "tool_choice" ->
         IF v.t = "string" THEN CheckLeaf("choice", v)
                           ELSE CheckTyped(Inner, "named_choice", v)
    [] OTHER -> CheckOne(Inner, check, v)

\* The tables nest no deeper than the format of a member of a namespace in an
\* item of the input.
CheckInMember(check, v) == CheckIn(CheckLeaf, check, v)
CheckInTool(check, v) == CheckIn(CheckInMember, check, v)
CheckInItem(check, v) == CheckIn(CheckInTool, check, v)
CheckInRequest(check, v) == CheckIn(CheckInItem, check, v)

-----------------------------------------------------------------------------
(* The request. *)

RequestShape ==
  Shape([model |-> "non_empty_string", input |-> "input",
         instructions |-> "string", prompt_cache_key |-> "string",
         tools |-> "tool_list", tool_choice |-> "tool_choice",
         parallel_tool_calls |-> "boolean", reasoning |-> "reasoning",
         text |-> "text", include |-> "include",
         max_output_tokens |-> "positive_integer",
         temperature |-> "number", top_p |-> "number",
         metadata |-> "metadata"],
        [prompt_cache_options |-> "prompt_cache_options",
         client_metadata |-> "anything", store |-> "boolean",
         service_tier |-> "string", stream |-> "anything",
         background |-> "null_or_false",
         previous_response_id |-> "stateless",
         conversation |-> "stateless", prompt |-> "stateless"],
        {})

\* CreateRequest::parse: the normalized fields, or a rejection.
Parse(body) ==
  LET strict == ParseStrict(body)
      fields == Apply(CheckInRequest, RequestShape, body)
      stream == Field(body, "stream")
  IN  CASE ~strict.ok -> strict
        [] strict.ok /\ body.t # "object" -> Rejection({"invalid_json"})
        [] OTHER ->
             CASE ~fields.ok -> fields
               [] fields.ok /\ stream = Absent -> Rejection({"missing_required_parameter"})
               [] fields.ok /\ stream \notin {Absent, Bool(TRUE)} ->
                    Rejection({"invalid_value"})
               [] OTHER -> IF {"model", "input"} \subseteq Keys(fields.value)
                           THEN fields
                           ELSE Rejection({"missing_required_parameter"})

Model(fields) == Field(fields, "model").s
NoCap == -1
Cap(fields) == LET cap == Field(fields, "max_output_tokens")
               IN  IF cap = Absent THEN NoCap ELSE cap.n

FormatOf(fields) == Field(Field(Field(fields, "text"), "format"), "type")
NeedsStructuredOutput(fields) == FormatOf(fields) \notin {Absent, Str("text")}

\* flat_text: the texts the structural bound covers, or none.
Structured == [flat |-> FALSE]
FlatText(fields) ==
  LET input == Field(fields, "input")
      instructions == Field(fields, "instructions")
  IN  IF /\ input.t = "string"
         /\ Items(Field(fields, "tools")) = <<>>
         /\ ~Has(fields, "tool_choice")
         /\ ~NeedsStructuredOutput(fields)
      THEN [flat |-> TRUE,
            nodes |-> IF instructions = Absent THEN <<input.s>>
                      ELSE <<instructions.s, input.s>>]
      ELSE Structured

OpenAiBody(fields, background) ==
  With(With(With(With(fields, "background", Bool(background)),
                 "store", Bool(TRUE)),
            "stream", Bool(TRUE)),
       "service_tier", Str("default"))

\* One member of an object, as an object, when it is there.
Picked(body, fields, key, member) ==
  LET v == Field(Field(fields, key), member)
  IN  IF v = Absent THEN body ELSE With(body, key, Obj([x \in {member} |-> v]))

OpenRouterBody(fields, model) ==
  LET measured == Only(fields, {"instructions", "input", "tools", "tool_choice",
                                "parallel_tool_calls", "max_output_tokens",
                                "temperature", "top_p"})
  IN  With(With(With(Picked(Picked(measured, fields, "reasoning", "effort"),
                            fields, "text", "format"),
                     "model", Str(model)),
                "stream", Bool(TRUE)),
           "store", Bool(FALSE))

-----------------------------------------------------------------------------
(* Counting bodies, and tool shapes. *)

\* Where the input declares tools.
Declaring(fields) ==
  {i \in DOMAIN Items(Field(fields, "input")) :
     IsKind(Items(Field(fields, "input"))[i], "additional_tools")}
ToolsAt(fields, i) == Field(Items(Field(fields, "input"))[i], "tools")

Counted(fields) ==
  Only(fields, {"model", "instructions", "input", "tools", "tool_choice",
                "parallel_tool_calls", "reasoning", "text"})

Remaining(fields) ==
  SelectSeq(Items(Field(fields, "input")),
            LAMBDA item : ~IsKind(item, "additional_tools"))

\* The request with the tools of one item, in place of every such item.
Hoisted(fields, i) ==
  With(With(Counted(fields), "input", Arr(Remaining(fields))),
       "tools", ToolsAt(fields, i))

\* The bug of counting once, which the provider's counter invites.
CountBodiesOnce(fields) == [i \in {0} |-> Counted(fields)]

\* The bug of keeping a choice among tools the body no longer declares.
CountBodiesWithChoice(fields) ==
  [i \in {0} \cup Declaring(fields) |->
     IF i = 0 THEN Counted(fields) ELSE Hoisted(fields, i)]

\* input_count_bodies: the request, and one more body per declaring item.
CountBodies(fields) ==
  LET named == IF Field(fields, "tool_choice").t = "object" THEN {"tool_choice"} ELSE {}
  IN  [i \in {0} \cup Declaring(fields) |->
         IF i = 0 THEN Counted(fields) ELSE Without(Hoisted(fields, i), named)]

\* absorb_tools looks into namespaces, at any depth.
Absorbed(tools) ==
  LET Nested(S) == UNION {ToSet(Items(Field(tool, "tools"))) :
                            tool \in {x \in S : IsKind(x, "namespace")}}
      At[n \in 0 .. MaxNesting] == IF n = 0 THEN ToSet(tools) ELSE Nested(At[n - 1])
  IN  {kind \in {"function", "custom", "namespace"} :
         \E n \in 0 .. MaxNesting : \E tool \in At[n] : IsKind(tool, kind)}

\* The bug of not looking into the items that declare tools.
ToolUsageAtTheTop(fields) == Absorbed(Items(Field(fields, "tools")))

ToolUsage(fields) ==
  Absorbed(Items(Field(fields, "tools")))
  \cup UNION {{"additional_tools"} \cup Absorbed(Items(ToolsAt(fields, i))) :
              i \in Declaring(fields)}

\* model_for: the first configured model that takes all of it.
Takes(model, usage, structured) ==
  /\ {IF shape = "additional_tools" THEN "namespace" ELSE shape :
        shape \in usage} \subseteq model.tools
  /\ structured => model.structured

NoModel == [id |-> "none"]
ModelFor(models, usage, structured) ==
  LET fits == {i \in DOMAIN models : Takes(models[i], usage, structured)}
  IN  IF fits = {} THEN NoModel ELSE models[Min(fits)]

=============================================================================
