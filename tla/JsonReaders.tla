----------------------------- MODULE JsonReaders -----------------------------
(***************************************************************************)
(* What the library reads from the tokens of an answer: the helpers of     *)
(* include/jstok.h that find members and elements by counting tokens, and  *)
(* the readers of src/protocol_chat.c, src/protocol_completions.c and      *)
(* src/protocol_embeddings.c.  A pointer that may be NULL is a set of one  *)
(* text or none, and tokens count from 1, so that 0 is the code's -1.      *)
(***************************************************************************)
EXTENDS Jstok

CONSTANT
  SizeBits     \* the width of size_t and of long long

ASSUME SizeAssumption == SizeBits \in Nat \ {0, 1}

Size == 2 ^ SizeBits
Signed(n) == IF n >= Size \div 2 THEN n - Size ELSE n

PROTOCOL == -100      \* LLM_PARSE_ERR_PROTOCOL, no error of the tokenizer

-----------------------------------------------------------------------------
(* The helpers of jstok.h; toks is as long as its count.                   *)

jstok_span(json, t) == SubSeq(json, t.start, t.end - 1)
jstok_eq(json, t, key) == jstok_span(json, t) = << key >>

IsLeaf(t) == t.type \in {JSTOK_STRING, JSTOK_PRIMITIVE}
(* Mutant of Children: a pair counts once.                                 *)
Children_Pairs(t) == t.size
Children(t) == IF t.type = JSTOK_OBJECT THEN 2 * t.size ELSE t.size

(* rem: what is still to be skipped at each level, the innermost last.     *)
SkipRest(toks) ==
  LET Skip[at \in (Nat \ {0}) \X Seq(Nat)] ==
        LET idx == at[1]
            rem == at[2]
            top == Len(rem)
            less == [rem EXCEPT ![top] = @ - 1]
        IN IF rem = << >> THEN idx
           ELSE IF rem[top] = 0 THEN Skip[<< idx, SubSeq(rem, 1, top - 1) >>]
           ELSE IF idx > Len(toks) THEN Len(toks) + 1
           ELSE IF IsLeaf(toks[idx]) THEN Skip[<< idx + 1, less >>]
           ELSE IF top >= MaxDepth THEN Len(toks) + 1
           ELSE Skip[<< idx + 1, Append(less, Children(toks[idx])) >>]
  IN Skip

jstok_skip(toks, i) ==
  IF i > Len(toks) THEN Len(toks) + 1
  ELSE IF IsLeaf(toks[i]) THEN i + 1
  ELSE SkipRest(toks)[<< i + 1, << Children(toks[i]) >> >>]

(* The element n places behind the one at cur; n counts from 0.            *)
ElementFrom(toks) ==
  LET Element[at \in (Nat \ {0}) \X Nat] ==
        LET cur == at[1]
            n == at[2]
        IN IF cur > Len(toks) THEN 0
           ELSE IF n = 0 THEN cur
           ELSE Element[<< jstok_skip(toks, cur), n - 1 >>]
  IN Element

jstok_array_at(toks, arr, n) ==
  IF arr = 0 \/ toks[arr].type # JSTOK_ARRAY \/ n >= toks[arr].size THEN 0
  ELSE ElementFrom(toks)[<< arr + 1, n >>]

(* The value of the first of some pairs, from the key at k on.             *)
MemberFrom(json, toks, key) ==
  LET Member[at \in (Nat \ {0}) \X Nat] ==
        LET k == at[1]
            pairs == at[2]
        IN IF pairs = 0 \/ k + 1 > Len(toks) THEN 0
           ELSE IF toks[k].type = JSTOK_STRING /\ jstok_eq(json, toks[k], key) THEN k + 1
           ELSE Member[<< jstok_skip(toks, k + 1), pairs - 1 >>]
  IN Member

jstok_object_get(json, toks, obj, key) ==
  IF obj = 0 \/ toks[obj].type # JSTOK_OBJECT THEN 0
  ELSE MemberFrom(json, toks, key)[<< obj + 1, toks[obj].size >>]

(* The number that digits spell, as it wraps.                              *)
Digit(c) == IF c = "0" THEN 0 ELSE 1
DigitsValue(w) ==
  LET value[i \in 0..Len(w)] ==
        IF i = 0 THEN 0 ELSE (value[i - 1] * 10 + Digit(w[i])) % Size
  IN value[Len(w)]
HasDigits(w) == w # << >> /\ \A i \in DOMAIN w : w[i] \in Digits

(* The number of a token, if jstok_atoi64 reads one.                       *)
jstok_atoi64(json, t) ==
  LET w == jstok_span(json, t)
      abs == IF w # << >> /\ w[1] = "-" THEN Tail(w) ELSE w
      sign == IF abs = w THEN 1 ELSE -1
  IN IF t.type # JSTOK_PRIMITIVE \/ ~HasDigits(abs) THEN {}
     ELSE {Signed((Signed(DigitsValue(abs)) * sign) % Size)}

-----------------------------------------------------------------------------
(* What the readers share.                                                 *)

Get(json, toks, obj, key) == jstok_object_get(json, toks, obj, key)
Is(toks, i, type) == i > 0 /\ toks[i].type = type
StringOf(json, toks, i) ==
  IF Is(toks, i, JSTOK_STRING) THEN {jstok_span(json, toks[i])} ELSE {}
StringField(json, toks, obj, key) == StringOf(json, toks, Get(json, toks, obj, key))

llm_finish_reason_from_string(w) ==
  IF w \in {<< "stop" >>, << "length" >>, << "tool_calls" >>, << "content_filter" >>}
  THEN w[1] ELSE "unknown"
FinishReason(json, toks, choice) ==
  LET given == StringField(json, toks, choice, "finish_reason")
  IN IF given = {} THEN "unknown"
     ELSE llm_finish_reason_from_string(CHOOSE w \in given : TRUE)

extract_reasoning_span(json, toks, obj) ==
  LET first == StringField(json, toks, obj, "reasoning_content")
  IN IF first # {} THEN first ELSE StringField(json, toks, obj, "thinking")

usage_parse(json, toks) ==
  LET usage == Get(json, toks, 1, "usage")
      Count(key) == LET i == Get(json, toks, usage, key)
                    IN IF i = 0 THEN {} ELSE {n \in jstok_atoi64(json, toks[i]) : n >= 0}
  IN IF ~Is(toks, usage, JSTOK_OBJECT) THEN {}
     ELSE {<< Count("prompt_tokens"), Count("completion_tokens"), Count("total_tokens") >>}

parse_choice_index(json, t) ==
  LET w == jstok_span(json, t)
  IN IF t.type # JSTOK_PRIMITIVE \/ ~HasDigits(w) THEN {} ELSE {DigitsValue(w)}
IndexOf(json, toks, obj) ==
  LET i == Get(json, toks, obj, "index")
  IN IF i = 0 THEN {} ELSE parse_choice_index(json, toks[i])

(* Mutant of find_choice_token: the element at the index.                  *)
find_choice_token_ByPlace(json, toks, choices, index) ==
  jstok_array_at(toks, choices, index)

(* The first choice with the index, or else the first one for index 0.     *)
find_choice_token(json, toks, choices, index) ==
  LET At(i) == jstok_array_at(toks, choices, i)
      objects == {i \in 0 .. toks[choices].size - 1 : Is(toks, At(i), JSTOK_OBJECT)}
      asked == {i \in objects : IndexOf(json, toks, At(i)) = {index}}
      First(s) == At(CHOOSE i \in s : \A j \in s : i <= j)
  IN IF asked # {} THEN First(asked)
     ELSE IF index = 0 /\ objects # {} THEN First(objects)
     ELSE 0

(* The tokens of the elements of an array.                                 *)
Elements(toks, arr) ==
  IF ~Is(toks, arr, JSTOK_ARRAY) THEN << >>
  ELSE [i \in 1..toks[arr].size |-> jstok_array_at(toks, arr, i - 1)]
AllObjects(toks, items) == \A i \in DOMAIN items : Is(toks, items[i], JSTOK_OBJECT)

ToolOf(json, toks, tool) ==
  LET function == Get(json, toks, tool, "function")
  IN [id |-> StringField(json, toks, tool, "id"),
      name |-> StringField(json, toks, function, "name"),
      arguments |-> StringField(json, toks, function, "arguments")]

Wrong(code) == [rc |-> code]
StartsAsObject(toks) == toks # << >> /\ toks[1].type = JSTOK_OBJECT

-----------------------------------------------------------------------------
(* The readers.                                                            *)

(* A tool call's delta without an index has index 0.                       *)
ToolDelta(json, toks, tool) ==
  LET index == IndexOf(json, toks, tool)
  IN [index |-> IF index = {} THEN 0 ELSE CHOOSE n \in index : TRUE,
      call |-> ToolOf(json, toks, tool)]

NoDelta == [finish |-> "unknown", content |-> {}, reasoning |-> {}, tools |-> << >>]

parse_chat_chunk_choice(json, toks, index) ==
  LET choices == Get(json, toks, 1, "choices")
      choice == IF Is(toks, choices, JSTOK_ARRAY)
                THEN find_choice_token(json, toks, choices, index) ELSE 0
      delta == Get(json, toks, choice, "delta")
      tools == Elements(toks, Get(json, toks, delta, "tool_calls"))
      usage == usage_parse(json, toks)
  IN IF ~StartsAsObject(toks) THEN Wrong(PROTOCOL)
     ELSE IF choice = 0 THEN [rc |-> 0, usage |-> usage, delta |-> NoDelta]
     ELSE IF ~AllObjects(toks, tools) THEN Wrong(PROTOCOL)
     ELSE [rc |-> 0, usage |-> usage,
           delta |-> [finish |-> FinishReason(json, toks, choice),
                      content |-> StringField(json, toks, delta, "content"),
                      reasoning |-> extract_reasoning_span(json, toks, delta),
                      tools |-> [i \in DOMAIN tools |-> ToolDelta(json, toks, tools[i])]]]

ChatChoice(json, toks, choice) ==
  LET message == Get(json, toks, choice, "message")
      calls == Get(json, toks, message, "tool_calls")
      tools == Elements(toks, calls)
  IN [finish |-> FinishReason(json, toks, choice),
      content |-> StringField(json, toks, message, "content"),
      reasoning |-> extract_reasoning_span(json, toks, message),
      tool_calls_json |-> IF Is(toks, calls, JSTOK_ARRAY)
                          THEN {jstok_span(json, toks[calls])} ELSE {},
      tools |-> [i \in DOMAIN tools |-> ToolOf(json, toks, tools[i])]]

parse_chat_response(json, toks) ==
  LET choices == Elements(toks, Get(json, toks, 1, "choices"))
      Fits(choice) ==
        LET message == Get(json, toks, choice, "message")
        IN /\ Is(toks, message, JSTOK_OBJECT)
           /\ AllObjects(toks, Elements(toks, Get(json, toks, message, "tool_calls")))
  IN IF ~StartsAsObject(toks) \/ choices = << >> THEN Wrong(PROTOCOL)
     ELSE IF ~AllObjects(toks, choices) \/ \E i \in DOMAIN choices : ~Fits(choices[i])
     THEN Wrong(PROTOCOL)
     ELSE [rc |-> 0, choices |-> [i \in DOMAIN choices |-> ChatChoice(json, toks, choices[i])]]

parse_completions_chunk_choice(json, toks, index) ==
  LET choices == Get(json, toks, 1, "choices")
      choice == IF Is(toks, choices, JSTOK_ARRAY)
                THEN find_choice_token(json, toks, choices, index) ELSE 0
  IN IF ~StartsAsObject(toks) THEN Wrong(PROTOCOL)
     ELSE [rc |-> 0, usage |-> usage_parse(json, toks),
           text |-> StringField(json, toks, choice, "text"),
           finish |-> FinishReason(json, toks, choice)]

(* The items of an array under a key, of which each must have a member of  *)
(* a type: the texts of completions and the vectors of embeddings.         *)
ItemsWith(json, toks, list, key, type) ==
  LET items == Elements(toks, Get(json, toks, 1, list))
      Member(i) == Get(json, toks, items[i], key)
  IN IF ~StartsAsObject(toks) \/ items = << >> \/ ~AllObjects(toks, items) THEN Wrong(PROTOCOL)
     ELSE IF \E i \in DOMAIN items : ~Is(toks, Member(i), type) THEN Wrong(PROTOCOL)
     ELSE [rc |-> 0, items |-> [i \in DOMAIN items |-> jstok_span(json, toks[Member(i)])]]

parse_completions_response(json, toks) ==
  ItemsWith(json, toks, "choices", "text", JSTOK_STRING)
parse_embeddings_response(json, toks) ==
  ItemsWith(json, toks, "data", "embedding", JSTOK_ARRAY)

=============================================================================
