---------------------------- MODULE JsonPromises ----------------------------
(***************************************************************************)
(* What the readers and writers of JSON promise, said of the trees that    *)
(* JsonReference reads from a text and not of its tokens.                  *)
(***************************************************************************)
EXTENDS JsonJobs, JsonMembers

LOCAL INSTANCE SequencesExt

RECURSIVE Nodes(_)
Nodes(trees) == UNION {{trees[i]} \cup Nodes(trees[i].kids) : i \in DOMAIN trees}

(* The value of the first member with the key, of the trees of S (one, or  *)
(* none): the set of it, or {}.                                            *)
Under(s, S, key) ==
  LET Places(t) == {k \in DOMAIN t.kids : k % 2 = 1 /\ Part(s, t.kids[k].start, t.kids[k].end) = << key >>}
  IN {t.kids[Min(Places(t)) + 1] : t \in {t \in S : t.type = JSTOK_OBJECT /\ Places(t) # {}}}

Of(S, type) == {t \in S : t.type = type}
Spans(s, S) == {Part(s, t.start, t.end) : t \in S}
Strings(s, S) == Spans(s, Of(S, JSTOK_STRING))
Kids(S) == IF Of(S, JSTOK_ARRAY) = {} THEN << >> ELSE (CHOOSE t \in S : TRUE).kids
AreObjects(trees) == \A i \in DOMAIN trees : trees[i].type = JSTOK_OBJECT

(* The only value of a text, if it has just one.                           *)
One(s) == Trimmed(s, 1, Len(s) + 1)

-----------------------------------------------------------------------------
(* The readers.                                                            *)

Exact(w) ==
  LET value[i \in 0..Len(w)] == IF i = 0 THEN 0 ELSE value[i - 1] * 10 + Digit(w[i])
  IN value[Len(w)]
Number(S) == {Exact(w) : w \in {w \in Spans(text, Of(S, JSTOK_PRIMITIVE)) : AreDigits(w, 1, Len(w) + 1)}}

(* Every number of the text fits its type.                                 *)
NumbersFit(trees) ==
  \A t \in Nodes(trees) : \A n \in Number({t}) : n < Size \div 2

Field(t, key) == Under(text, {t}, key)
Texts1(t, key) == Strings(text, Field(t, key))

FinishOf(t) ==
  LET known == {<< "stop" >>, << "length" >>, << "tool_calls" >>, << "content_filter" >>}
      given == Texts1(t, "finish_reason") \cap known
  IN IF given = {} THEN "unknown" ELSE (CHOOSE w \in given : TRUE)[1]
ReasoningOf(t) ==
  IF Texts1(t, "reasoning_content") # {} THEN Texts1(t, "reasoning_content")
  ELSE Texts1(t, "thinking")
CallOf(t) ==
  LET In(key) == Strings(text, Under(text, Field(t, "function"), key))
  IN [id |-> Texts1(t, "id"), name |-> In("name"), arguments |-> In("arguments")]
UsageOf(t) ==
  LET usage == Of(Field(t, "usage"), JSTOK_OBJECT)
      Count(key) == Number(Under(text, usage, key))
  IN {<< Count("prompt_tokens"), Count("completion_tokens"), Count("total_tokens") >> : u \in usage}

(* The choice a stream of the choice with this index reads: the first with *)
(* the index, and for index 0 the first of all when there is none.         *)
ChoiceAt(t, index) ==
  LET choices == Kids(Field(t, "choices"))
      objects == {i \in DOMAIN choices : choices[i].type = JSTOK_OBJECT}
      asked == {i \in objects : Number(Field(choices[i], "index")) = {index}}
      fit == IF asked # {} THEN asked ELSE IF index = 0 THEN objects ELSE {}
  IN {choices[i] : i \in {i \in fit : \A j \in fit : i <= j}}

ChunkDelta(choice) ==
  LET delta == Field(choice, "delta")
      Delta(key) == Under(text, delta, key)
      tools == Kids(Delta("tool_calls"))
  IN [finish |-> FinishOf(choice),
      content |-> Strings(text, Delta("content")),
      reasoning |-> IF Strings(text, Delta("reasoning_content")) # {}
                    THEN Strings(text, Delta("reasoning_content"))
                    ELSE Strings(text, Delta("thinking")),
      tools |-> [i \in DOMAIN tools |->
                   [index |-> IF Number(Field(tools[i], "index")) = {} THEN 0
                              ELSE CHOOSE n \in Number(Field(tools[i], "index")) : TRUE,
                    call |-> CallOf(tools[i])]]]

ResponseChoice(choice) ==
  LET message == CHOOSE m \in Field(choice, "message") : TRUE
      calls == Of(Field(message, "tool_calls"), JSTOK_ARRAY)
  IN [finish |-> FinishOf(choice),
      content |-> Texts1(message, "content"),
      reasoning |-> ReasoningOf(message),
      tool_calls_json |-> Spans(text, calls),
      tools |-> [i \in DOMAIN Kids(calls) |-> CallOf(Kids(calls)[i])]]

Each(trees, F(_)) == [i \in DOMAIN trees |-> F(trees[i])]
WholeFits(choice) ==
  LET message == Of(Field(choice, "message"), JSTOK_OBJECT)
  IN message # {} /\ AreObjects(Kids(Under(text, message, "tool_calls")))

(* What a reader should make of an answer that is one object t.            *)
Expected(t, r) ==
  LET choices == Kids(Field(t, "choices"))
      chosen == ChoiceAt(t, r.index)
      choice == CHOOSE c \in chosen : TRUE
      Items(list, key, type) ==
        LET items == Kids(Field(t, list))
        IN IF items # << >> /\ \A i \in DOMAIN items : Of(Field(items[i], key), type) # {}
           THEN [rc |-> 0, items |-> Each(items, LAMBDA i : CHOOSE w \in Spans(text, Field(i, key)) : TRUE)]
           ELSE Wrong(PROTOCOL)
  IN CASE r.reader = "chat_chunk" ->
            IF chosen # {} /\ ~AreObjects(Kids(Under(text, Field(choice, "delta"), "tool_calls")))
            THEN Wrong(PROTOCOL)
            ELSE [rc |-> 0, usage |-> UsageOf(t),
                  delta |-> IF chosen = {} THEN NoDelta ELSE ChunkDelta(choice)]
       [] r.reader = "chat" ->
            IF choices # << >> /\ AreObjects(choices) /\ \A i \in DOMAIN choices : WholeFits(choices[i])
            THEN [rc |-> 0, choices |-> Each(choices, ResponseChoice)]
            ELSE Wrong(PROTOCOL)
       [] r.reader = "completions_chunk" ->
            [rc |-> 0, usage |-> UsageOf(t),
             text |-> Strings(text, Under(text, chosen, "text")),
             finish |-> IF chosen = {} THEN "unknown" ELSE FinishOf(choice)]
       [] r.reader = "completions" -> Items("choices", "text", JSTOK_STRING)
       [] r.reader = "embeddings" -> Items("data", "embedding", JSTOK_ARRAY)

(* A reader reports of an answer what the answer says, for the choice it   *)
(* was asked for, and refuses an answer that is no object, that lacks what *)
(* it must have or has something else in its place; only no memory may     *)
(* make it fail besides (src/protocol_chat.c, src/protocol_completions.c,  *)
(* src/protocol_embeddings.c).  Numbers that overflow are left out.        *)
AnswersAreRead ==
  (job.kind = "done" /\ "reader" \in DOMAIN job.of /\ result # {Wrong(NOMEM)}) =>
    LET readings == Roots(text)
        shallow == {trees \in readings : DepthOf(trees) <= MaxDepth}
    IN /\ shallow = {} => \E error \in {PART, INVAL, DEPTH} : result = {Wrong(error)}
       /\ \A trees \in shallow :
            IF trees = << >> \/ trees[1].type # JSTOK_OBJECT THEN result = {Wrong(PROTOCOL)}
            ELSE NumbersFit(trees) => result = {Expected(trees[1], job.of)}

-----------------------------------------------------------------------------
(* The writers.                                                            *)

(* A string, or several, that come back as they were given.                *)
Back(w, S, given) == {jstok_unescape(x) : x \in Strings(w, S)} = {given}
Same(w, S, option) == {jstok_unescape(x) : x \in Strings(w, S)} = option
AllBack(w, S, given) ==
  LET kids == Kids(S)
  IN Len(kids) = Len(given) /\ \A i \in DOMAIN kids : Back(w, {kids[i]}, given[i])

(* Members given as a text: those of an object that has some and has no    *)
(* space around its braces, or a list of them without braces.              *)
AsObject(w) ==
  IF \E t \in Of(One(w), JSTOK_OBJECT) : t.start = 1 /\ t.end = Len(w) + 1
  THEN w ELSE << "{" >> \o w \o << "}" >>
MembersIn(given) == Of(One(given), JSTOK_OBJECT)
Given(option) == {AsObject(w) : w \in option \ {<< >>}}
AreMembers(option) == \A given \in Given(option) : \E t \in MembersIn(given) : t.kids # << >>

(* The keys of an object; a key is one character.                          *)
KeysOf(s, t) == {Part(s, t.kids[k].start, t.kids[k].end)[1] : k \in {k \in DOMAIN t.kids : k % 2 = 1}}
KeysGiven(option) == UNION {UNION {KeysOf(given, t) : t \in MembersIn(given)} : given \in Given(option)}

(* Every member given is there, unless an earlier one has its key.         *)
Wholes(s, S) == {<< t.type, Part(s, t.start, t.end) >> : t \in S}
HoldsAll(w, o, option, earlier) ==
  \A given \in Given(option) : \A t \in MembersIn(given) :
    \A key \in KeysOf(given, t) \ earlier :
      Wholes(w, Under(w, {o}, key)) = Wholes(given, Under(given, {t}, key))
IsThe(w, S, value) == Wholes(w, S) = {<< JSTOK_PRIMITIVE, value >>}

IsOneValue(option) == \A w \in option : w = << >> \/ One(w) # {}
KeyIf(cond, key) == IF cond THEN {key} ELSE {}

(* Whether it is to be streamed, and the usage reported.                   *)
StreamKeys(r) ==
  KeyIf(r.stream, "stream") \cup KeyIf(r.stream /\ r.include_usage, "stream_options")
StreamBack(w, o, r) ==
  /\ r.stream => IsThe(w, Under(w, {o}, "stream"), true)
  /\ r.stream /\ r.include_usage =>
       IsThe(w, Under(w, Under(w, {o}, "stream_options"), "include_usage"), true)

MessageBack(w, t, m) ==
  LET The1(key) == Under(w, {t}, key)
      HasCalls == m.role = "assistant" /\ m.tool_calls_json \notin {{}, {<< >>}}
  IN /\ t.type = JSTOK_OBJECT
     /\ KeysOf(w, t) = {"role", "content"} \cup KeyIf(HasCalls, "tool_calls")
                          \cup KeyIf(m.role = "tool" /\ m.tool_call_id # {}, "tool_call_id")
                          \cup KeyIf(m.name # {}, "name")
     /\ Back(w, The1("role"), << m.role >>)
     /\ IF m.content_json # {}
        THEN Wholes(w, The1("content")) = Wholes(The(m.content_json), One(The(m.content_json)))
        ELSE IF m.content # {} THEN Same(w, The1("content"), m.content)
        ELSE IsThe(w, The1("content"), null)
     /\ HasCalls => \A calls \in m.tool_calls_json :
                      Wholes(w, The1("tool_calls")) = Wholes(calls, One(calls))
     /\ m.role = "tool" => Same(w, The1("tool_call_id"), m.tool_call_id)
     /\ Same(w, The1("name"), m.name)

(* A message whose content cannot be sent.                                 *)
IsBad(m) ==
  \E w \in m.content_json :
    \/ m.content # {} \/ TooMany(Len(w), MaxBytes)
    \/ ~\E trees \in Roots(w) : /\ trees # << >> /\ trees[1].type = JSTOK_ARRAY
                               /\ DepthOf(trees) <= MaxDepth
                               /\ ~TooMany(Len(trees[1].kids), MaxParts)

(* The library's own members come first, then the caller's, and last the   *)
(* response format.                                                        *)
ChatBack(w, o, r) ==
  LET messages == Kids(Under(w, {o}, "messages"))
      own == {"model", "messages"} \cup StreamKeys(r)
      params == own \cup KeysGiven(r.params_json)
      tools == params \cup KeysGiven(r.tooling_json)
  IN /\ KeysOf(w, o) = tools \cup KeyIf(r.response_format_json # {}, "response_format")
     /\ Back(w, Under(w, {o}, "model"), r.model)
     /\ Len(messages) = Len(r.messages)
     /\ \A i \in DOMAIN messages : MessageBack(w, messages[i], r.messages[i])
     /\ StreamBack(w, o, r)
     /\ HoldsAll(w, o, r.params_json, own)
     /\ HoldsAll(w, o, r.tooling_json, params)
     /\ "response_format" \notin tools => \A x \in r.response_format_json :
          Wholes(w, Under(w, {o}, "response_format")) =
            IF x = << >> THEN {<< JSTOK_PRIMITIVE, null >>} ELSE Wholes(x, One(x))

(* A chat request is written unless a message is bad or there is no        *)
(* memory; it is one JSON object with everything that was given and        *)
(* nothing else, read back as it was, exactly when the JSON it was given   *)
(* to include was whole: members, one value, one array                     *)
(* (build_chat_request).                                                   *)
ChatRequestsReadBack ==
  (job.kind = "done" /\ "messages" \in DOMAIN job.of) =>
    LET r == job.of
        whole == /\ AreMembers(r.params_json) /\ AreMembers(r.tooling_json)
                 /\ IsOneValue(r.response_format_json)
                 /\ \A i \in DOMAIN r.messages :
                      /\ IsOneValue(r.messages[i].content_json)
                      /\ r.messages[i].role = "assistant" => IsOneValue(r.messages[i].tool_calls_json)
        bad == \E i \in DOMAIN r.messages : IsBad(r.messages[i])
    IN \A written \in result :
         /\ bad => written = Refused
         /\ written = Refused => bad \/ job.next <= Len(r.messages)
         /\ \A w \in written :
              whole <=> \E o \in Of(One(w), JSTOK_OBJECT) : ChatBack(w, o, r)

(* The other writers: what is written is one value that holds what was     *)
(* given, its parameters included, and nothing else, exactly when the      *)
(* parameters were members; no options at all are written as no text.      *)
(* Nothing is refused but what the limits or the rules of a list forbid,   *)
(* and what does not fit the caller's buffer, with its NUL when it has one *)
(* (build_completions_request, build_embeddings_request,                   *)
(* llm_tool_calls_json_write, llm_request_opts_json_write).                *)
CallBack(w, t, c) ==
  LET In(key) == Under(w, {t}, key)
      function == In("function")
  IN /\ t.type = JSTOK_OBJECT
     /\ KeysOf(w, t) = {"type", "function"} \cup KeyIf(c.id # {}, "id")
     /\ \A f \in function : f.type = JSTOK_OBJECT /\ KeysOf(w, f) = {"name", "arguments"}
     /\ Same(w, In("id"), c.id)
     /\ Back(w, In("type"), << "function" >>)
     /\ Back(w, Under(w, function, "name"), c.name)
     /\ Back(w, Under(w, function, "arguments"), c.arguments)

OtherBack(w, t, j) ==
  LET In(key) == Under(w, {t}, key)
      r == j.what
      own == IF j.writer = "completions" THEN {"model", "prompt"} \cup StreamKeys(r)
             ELSE {"model", "input"}
      Members == /\ t.type = JSTOK_OBJECT
                 /\ KeysOf(w, t) = own \cup KeysGiven(r.params_json)
                 /\ Back(w, In("model"), r.model)
                 /\ HoldsAll(w, t, r.params_json, own)
      numbers == {key \in DOMAIN r.numbers : r.numbers[key] # {}}
  IN CASE j.writer = "completions" ->
            Members /\ Back(w, In("prompt"), r.prompt) /\ StreamBack(w, t, r)
       [] j.writer = "embeddings" -> Members /\ AllBack(w, In("input"), r.inputs)
       [] j.writer = "tool_calls" ->
            /\ t.type = JSTOK_ARRAY /\ Len(t.kids) = Len(r)
            /\ \A i \in DOMAIN r : CallBack(w, t.kids[i], r[i])
       [] j.writer = "options" ->
            /\ t.type = JSTOK_OBJECT
            /\ KeysOf(w, t) = numbers \cup KeyIf(r.stop # {} \/ r.stop_list # << >>, "stop")
            /\ \A key \in numbers : IsThe(w, In(key), The(r.numbers[key]))
            /\ IF r.stop_list # << >> THEN AllBack(w, In("stop"), r.stop_list)
               ELSE Same(w, In("stop"), r.stop)

NothingGiven(j) ==
  /\ j.writer = "options" /\ j.what.stop = {} /\ j.what.stop_list = << >>
  /\ \A key \in DOMAIN j.what.numbers : j.what.numbers[key] = {}

(* What no buffer is large enough for.                                     *)
Forbidden(j) ==
  LET r == j.what
      LongerThan(list, limit) ==
        limit > 0 /\ limit < FoldLeft(LAMBDA sum, w : sum + Len(w), 0, list)
  IN CASE j.writer = "completions" -> FALSE
       [] j.writer = "embeddings" ->
            \/ Len(r.inputs) = 0
            \/ MaxParts > 0 /\ Len(r.inputs) > MaxParts
            \/ \E i \in DOMAIN r.inputs : LongerThan(<< r.inputs[i] >>, MaxBytes)
       [] j.writer = "tool_calls" ->
            \E i \in DOMAIN r : r[i].name = << >> \/ LongerThan(<< r[i].arguments >>, MaxBytes)
       [] j.writer = "options" ->
            \/ \E key \in DOMAIN r.numbers : r.numbers[key] = {Infinite}
            \/ r.stop # {} /\ r.stop_list # << >>
            \/ LongerThan(r.stop_list \o SetToSeq(r.stop), MaxBytes)
            \/ MaxParts > 0 /\ Len(r.stop_list) > MaxParts

(* What the text needs of a buffer: its length in one with room to spare.  *)
Ample == 1000
Fitting(j) ==
  IF j.writer \in {"completions", "embeddings"} THEN TRUE
  ELSE \E w \in Written([j EXCEPT !.cap = Ample]) :
         Len(w) + (IF j.writer = "options" THEN 1 ELSE 0) <= j.cap

OthersReadBack ==
  (job.kind = "done" /\ "writer" \in DOMAIN job.of) =>
    LET j == job.of
        whole == j.writer \in {"completions", "embeddings"} => AreMembers(j.what.params_json)
    IN \A written \in result :
         /\ written # Refused <=> ~Forbidden(j) /\ Fitting(j)
         /\ \A w \in written :
              IF NothingGiven(j) THEN w = << >>
              ELSE whole <=> \E t \in One(w) : OtherBack(w, t, j)

=============================================================================
