--------------------------- MODULE MCAdmitRequest ---------------------------
(* Small documents: every shape the allowlist names, and what it refuses.  *)
EXTENDS AdmitRequest

MCInline == {"data:image"}

MCTexts ==
  [short |-> [bytes |-> 2, characters |-> 2], wide |-> [bytes |-> 3, characters |-> 1],
   odd |-> [bytes |-> 2, characters |-> 2], long |-> [bytes |-> 9, characters |-> 9]]

\* `wide' is one character of three bytes; `odd' has more tokens than bytes
\* in the encoding that is not known.
Known == [short |-> 2, wide |-> 3, odd |-> 1, long |-> 9]
Other == [short |-> 1, wide |-> 3, odd |-> 30, long |-> 12]

\* Any other string is one token; an array, an object or a number adds one.
RECURSIVE MCTokens(_, _)
MCTokens(model, v) ==
  CASE v.t = "string" -> IF v.s \notin DOMAIN MCTexts THEN 1
                         ELSE IF model = "known" THEN Known[v.s] ELSE Other[v.s]
    [] v.t = "array" ->
         FoldLeft(LAMBDA sum, item : sum + MCTokens(model, item), 1, v.items)
    [] v.t = "object" ->
         FoldSet(LAMBDA k, sum : sum + MCTokens(model, v.members[k]), 1, Keys(v))
    [] OTHER -> 1

\* One model whose encoding is known and one whose is not.
MCCatalog == [known |-> [maxOutput |-> 6, byteLevel |-> TRUE],
              other |-> [maxOutput |-> 12, byteLevel |-> FALSE]]

MCRoutes == << [id |-> "plain", tools |-> {"function"}, structured |-> FALSE],
               [id |-> "rich", tools |-> {"function", "namespace"},
                structured |-> TRUE] >>

-----------------------------------------------------------------------------
M(key, v) == key :> v
None == [x \in {} |-> Null]
Of(kind, members) == Obj(M("type", Str(kind)) @@ members)

Function == Of("function", M("name", Str("f")))
Custom == Of("custom", M("name", Str("c")) @@
            M("format", Of("grammar", M("syntax", Str("lark")) @@
                                      M("definition", Str("short")))))
Hosted == Of("web_search", None)
Namespace(tools) == Of("namespace", M("name", Str("n")) @@ M("tools", Arr(tools)))
SomeTools ==
  {Function, Custom, Hosted, Of("tool_search", None),
   Namespace(<<Function>>), Namespace(<<Function, Custom>>),
   Namespace(<<Hosted>>), Namespace(<<Namespace(<<Function>>)>>),
   Of("function", M("name", Str("d")) @@ M("defer_loading", Bool(TRUE))),
   Of("function", M("name", Str("g")) @@ M("strict", Null)
                  @@ M("parameters", Obj(M("type", Str("web_search"))))),
   Of("function", M("description", Str("short")))}
Lists(S, n) == UNION {[1 .. k -> S] : k \in 0 .. n}
ToolLists == {Arr(list) : list \in Lists(SomeTools, 2)}

Additional(tools) ==
  Of("additional_tools", M("role", Str("developer")) @@ M("tools", tools))
Text == Of("input_text", M("text", Str("short")))
Image(url) == Of("input_image", M("image_url", Str(url)) @@ M("detail", Str("low")))
Message(content) == Obj(M("role", Str("user")) @@ M("content", content))
Answered == <<Of("output_text", M("annotations", Arr(<<>>)) @@ M("text", Str("wide"))),
              Of("refusal", M("refusal", Str("short")))>>
SomeItems ==
  {Message(Str("short")), Message(Arr(<<Text, Image("data:image")>>)),
   Message(Arr(<<Image("remote")>>)), Message(Arr(<<Of("input_file", None)>>)),
   Message(Num(1)), Obj(M("content", Str("short"))),
   Of("message", M("id", Str("i")) @@ M("status", Str("done"))
                 @@ M("role", Str("assistant")) @@ M("content", Arr(Answered))
                 @@ M("phase", Str("final_answer"))),
   Of("reasoning", M("id", Str("i")) @@ M("encrypted_content", Str("wide"))
        @@ M("summary", Arr(<<Of("summary_text", M("text", Str("short")))>>))
        @@ M("content", Arr(<<Of("reasoning_text", M("text", Str("odd")))>>))),
   Of("reasoning", M("summary", Arr(<<>>))),
   Of("function_call", M("call_id", Str("k")) @@ M("name", Str("f"))
                       @@ M("arguments", Str("short")) @@ M("status", Null)),
   Of("function_call_output", M("call_id", Str("k"))
                              @@ M("output", Arr(<<Image("remote")>>))),
   Of("custom_tool_call", M("call_id", Str("k")) @@ M("name", Str("c"))),
   Of("custom_tool_call_output", M("call_id", Str("k"))
                                 @@ M("output", Arr(<<Text>>))),
   Of("item_reference", M("id", Str("i"))),
   Obj(M("type", Num(1)) @@ M("role", Str("user"))),
   Message(Repeating(M("k", Null))), Repeating(Message(Str("short")).members),
   Additional(Arr(<<Function>>)), Additional(Arr(<<Hosted>>)),
   Additional(Arr(<<Namespace(<<Custom>>)>>)),
   With(Additional(Arr(<<>>)), "status", Str("done"))}

Plainest(model, input) ==
  M("model", Str(model)) @@ M("stream", Bool(TRUE)) @@ M("input", input)
Request(model, input, more) == Obj(more @@ Plainest(model, input))
Maybe(key, values) == {None} \cup {M(key, v) : v \in values}

Named(tool) == Of("function", M("name", Str(tool)))
Formats == {Obj(M("verbosity", Str("low"))),
            Obj(M("format", Of("text", None))),
            Obj(M("format", Of("json_object", None))),
            Obj(M("format", Of("json_schema", M("name", Str("s"))
                                              @@ M("schema", Obj(None)))))}

\* Flat texts with everything that may make them other than flat.
FlatDocuments ==
  {Request(model, Str(text), cap @@ instructions @@ tools @@ choice @@ format) :
     model \in {"known", "other", "unconfigured"},
     text \in DOMAIN MCTexts,
     cap \in Maybe("max_output_tokens", {Num(1), Num(4), Num(9)}),
     instructions \in Maybe("instructions", {Str("short"), Str("wide")}),
     tools \in Maybe("tools", {Arr(<<>>), Arr(<<Function>>)}),
     choice \in Maybe("tool_choice", {Str("auto"), Named("f")}),
     format \in Maybe("text", Formats)}

\* Histories of up to two items, with tools declared inside and outside.
HistoryDocuments ==
  {Request("other", Arr(items), tools @@ choice) :
     items \in Lists(SomeItems, 2),
     tools \in Maybe("tools", {Arr(<<Function, Custom>>)}),
     choice \in Maybe("tool_choice", {Str("required"), Named("f"),
                                      Of("web_search", None)})}

ToolDocuments ==
  {Request("other", Str("short"), M("tools", tools)) : tools \in ToolLists}
  \cup {Request("known", Arr(<<Additional(tools)>>), None) : tools \in ToolLists}

\* One member of every name, listed or not, with good and bad values; texts
\* that are refused before any member is looked at.
Deep == LET At[n \in 0 .. MaxNesting] == IF n = 0 THEN Arr(<<>>) ELSE Arr(<<At[n - 1]>>)
        IN  At
SomeValues == {Null, Bool(TRUE), Bool(FALSE), Num(1), Num(-1), Str(""),
               Str("auto"), Str("short"), Arr(<<>>), Obj(None),
               Arr(<<Str("reasoning.encrypted_content")>>),
               Obj(M("ttl", Str("30m"))), Obj(M("k", Num(1))),
               Obj(M("effort", Str("high")) @@ M("summary", Str("none")))}
               \cup {Deep[n] : n \in MaxNesting - 3 .. MaxNesting - 1}
OddDocuments ==
  {Request("known", Str("short"), M(key, v)) :
     key \in DOMAIN RequestShape.keep \cup DOMAIN RequestShape.drop
             \cup {"stream_options"},
     v \in SomeValues}
  \cup {Garbage, Arr(<<>>), Obj(None), Repeating(Plainest("known", Str("short"))),
        Repeating(Plainest("known", Deep[MaxNesting])),
        Obj(M("stream", Bool(TRUE)) @@ M("input", Str("short"))),
        Obj(M("stream", Bool(FALSE)) @@ M("model", Str("known"))),
        Obj(M("stream", Bool(TRUE)) @@ M("model", Str("known")))}

MCDocuments ==
  FlatDocuments \cup HistoryDocuments \cup ToolDocuments \cup OddDocuments

=============================================================================
