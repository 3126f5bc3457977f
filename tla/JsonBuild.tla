------------------------------ MODULE JsonBuild ------------------------------
(***************************************************************************)
(* The JSON the library writes (src/json_build.c): requests, grown as long *)
(* as they need, and the lists of tool calls and options a caller has      *)
(* written into a buffer of its own.  A pointer that may be NULL is a set  *)
(* of one value or none; allocations succeed.                              *)
(***************************************************************************)
EXTENDS JsonReaders

LOCAL INSTANCE SequencesExt

CONSTANTS
  MaxParts,      \* max_content_parts, max_inputs and max_stop_strings, 0 for no limit
  MaxBytes       \* max_content_bytes, max_input_bytes, max_stop_bytes and
                 \* max_args_bytes_per_call, 0 for no limit

ASSUME LimitsAssumption == MaxParts \in Nat /\ MaxBytes \in Nat

Refused == {}    \* NULL or false; what is written is a set of one text
Infinite == << "inf" >>      \* a number that is not finite

TooMany(n, limit) == limit # 0 /\ n > limit
The(option) == CHOOSE w \in option : TRUE

-----------------------------------------------------------------------------
(* Strings, members and lists.                                             *)

(* Mutant of Escaped: only quotes are escaped.                             *)
Escaped_Quotes(c) == IF c = Quote THEN << Backslash, c >> ELSE << c >>

Escaped(c) ==
  CASE c \in {Quote, Backslash} -> << Backslash, c >>
    [] c = Newline -> << Backslash, "n" >>
    [] c = Control -> << Backslash, "u", "0", "0", "0", "1" >>
    [] OTHER -> << c >>

append_json_string(w) ==
  << Quote >> \o FlattenSeq([i \in DOMAIN w |-> Escaped(w[i])]) \o << Quote >>

Member(key, value) == << Quote, key, Quote, ":" >> \o value
StringMember(key, w) == Member(key, append_json_string(w))

(* The texts of a sequence with commas between them.                       *)
Listed(texts) ==
  FlattenSeq([i \in DOMAIN texts |-> IF i = 1 THEN texts[i] ELSE << "," >> \o texts[i]])
ObjectOf(members) == << "{" >> \o Listed(members) \o << "}" >>
ArrayOf(texts) == << "[" >> \o Listed(texts) \o << "]" >>

(* A member that may be missing.                                           *)
If(cond, member) == IF cond THEN << member >> ELSE << >>

(* jstok_unescape of a string token, whose escapes are whole, with room    *)
(* for all that it writes.                                                 *)
RECURSIVE jstok_unescape(_)
jstok_unescape(w) ==
  IF w = << >> THEN << >>
  ELSE IF w[1] # Backslash THEN << w[1] >> \o jstok_unescape(Tail(w))
  ELSE IF w[2] = "u"
  THEN << IF SubSeq(w, 3, 6) = << "0", "0", "0", "1" >> THEN Control
          ELSE "u" \o w[3] \o w[4] \o w[5] \o w[6] >>
       \o jstok_unescape(SubSeq(w, 7, Len(w)))
  ELSE << IF w[2] = "n" THEN Newline
          ELSE IF w[2] \in {"b", "f", "r", "t"} THEN Control ELSE w[2] >>
       \o jstok_unescape(SubSeq(w, 3, Len(w)))

-----------------------------------------------------------------------------
(* Requests.                                                               *)

(* Mutant of Merged: as many characters are left out as braces, one early. *)
Merged_Short(option) ==
  LET w == The(option)
      braces == Len(w) > 2 /\ w[1] = "{" /\ w[Len(w)] = "}"
  IN IF option \in {{}, {<< >>}} THEN << >>
     ELSE << "," >> \o IF braces THEN SubSeq(w, 1, Len(w) - 2) ELSE w

(* What parameters and tools add to the members before them: the members   *)
(* of an object, or whatever else the caller gave.                         *)
Merged(option) ==
  LET w == The(option)
      braces == Len(w) > 2 /\ w[1] = "{" /\ w[Len(w)] = "}"
  IN IF option \in {{}, {<< >>}} THEN << >>
     ELSE << "," >> \o IF braces THEN SubSeq(w, 2, Len(w) - 1) ELSE w

true == << "t", "r", "u", "e" >>
null == << "n", "u", "l", "l" >>

(* Mutant of StreamMembers: the usage is not asked for.                    *)
StreamMembers_WithoutUsage(stream, include_usage) == If(stream, Member("stream", true))

StreamMembers(stream, include_usage) ==
  If(stream, Member("stream", true))
  \o If(stream /\ include_usage,
        Member("stream_options", ObjectOf(<< Member("include_usage", true) >>)))

Request(members, added) == << "{" >> \o Listed(members) \o added \o << "}" >>

(* validate_content_json_array: what it checks before and after the text   *)
(* is tokenized.                                                           *)
ContentFits(w) == ~TooMany(Len(w), MaxBytes)
(* Mutant of IsContent: parts of any container.                            *)
IsContent_AnyContainer(toks) == toks # << >> /\ ~TooMany(toks[1].size, MaxParts)
IsContent(toks) ==
  /\ toks # << >> /\ toks[1].type = JSTOK_ARRAY
  /\ ~TooMany(toks[1].size, MaxParts)

(* A message that is refused as it is.                                     *)
MessageRefused(m) ==
  \E w \in m.content_json : m.content # {} \/ w = << >> \/ ~ContentFits(w)

Message(m) ==
  LET content == IF m.content_json # {} THEN The(m.content_json)
                 ELSE IF m.content # {} THEN append_json_string(The(m.content))
                 ELSE null
  IN ObjectOf(
       << StringMember("role", << m.role >>), Member("content", content) >>
       \o If(m.role = "assistant" /\ m.tool_calls_json \notin {{}, {<< >>}},
             Member("tool_calls", The(m.tool_calls_json)))
       \o If(m.role = "tool" /\ m.tool_call_id # {},
             StringMember("tool_call_id", The(m.tool_call_id)))
       \o If(m.name # {}, StringMember("name", The(m.name))))

(* Once every content_json has been checked.                               *)
build_chat_request(r) ==
  {Request(<< StringMember("model", r.model),
              Member("messages", ArrayOf([i \in DOMAIN r.messages |-> Message(r.messages[i])])) >>
           \o StreamMembers(r.stream, r.include_usage),
           Merged(r.params_json) \o Merged(r.tooling_json)
           \o IF r.response_format_json = {} THEN << >>
              ELSE << "," >> \o Member("response_format",
                                       IF r.response_format_json = {<< >>}
                                       THEN null
                                       ELSE The(r.response_format_json)))}

build_completions_request(r) ==
  {Request(<< StringMember("model", r.model), StringMember("prompt", r.prompt) >>
           \o StreamMembers(r.stream, r.include_usage),
           Merged(r.params_json))}

build_embeddings_request(r) ==
  IF r.inputs = << >> \/ TooMany(Len(r.inputs), MaxParts)
     \/ \E i \in DOMAIN r.inputs : TooMany(Len(r.inputs[i]), MaxBytes)
  THEN Refused
  ELSE {Request(<< StringMember("model", r.model),
                   Member("input", ArrayOf([i \in DOMAIN r.inputs |->
                                              append_json_string(r.inputs[i])])) >>,
                Merged(r.params_json))}

-----------------------------------------------------------------------------
(* Lists and options in a buffer of the caller's.                          *)

(* fixedbuf: the first piece that does not fit refuses the whole.          *)
Fixed_OneToSpare(w, cap) == IF Len(w) >= cap THEN Refused ELSE {w}   \* mutant of Fixed
Fixed(w, cap) == IF Len(w) > cap THEN Refused ELSE {w}

ToolCall(tc) ==
  ObjectOf(If(tc.id # {}, StringMember("id", The(tc.id)))
           \o << StringMember("type", << "function" >>),
                Member("function", ObjectOf(<< StringMember("name", tc.name),
                                               StringMember("arguments", tc.arguments) >>)) >>)

llm_tool_calls_json_write(calls, cap) ==
  IF cap = 0 \/ \E i \in DOMAIN calls : \/ calls[i].name = << >>
                                       \/ TooMany(Len(calls[i].arguments), MaxBytes)
  THEN Refused
  ELSE Fixed(ArrayOf([i \in DOMAIN calls |-> ToolCall(calls[i])]), cap)

(* stop and stop_list: one of them at most, within the limits; the bytes   *)
(* of a list count together.                                               *)
StopRefused(o) ==
  LET Bytes(list) == Len(FlattenSeq(list))
  IN \/ o.stop # {} /\ o.stop_list # << >>
     \/ TooMany(Len(o.stop_list), MaxParts) \/ TooMany(Bytes(o.stop_list), MaxBytes)
     \/ \E w \in o.stop : TooMany(Len(w), MaxBytes)

OptionNames == << "temperature", "top_p", "max_tokens", "stop",
              "frequency_penalty", "presence_penalty", "seed" >>

(* The last character of the buffer is for the NUL.                        *)
WriteCap_Whole(cap) == cap   \* mutant of WriteCap
WriteCap(cap) == cap - 1

(* numbers[key] is the text of a number, if it is given.                   *)
llm_request_opts_json_write(o, cap) ==
  LET MemberOf(key) ==
        IF key # "stop" THEN If(o.numbers[key] # {}, Member(key, The(o.numbers[key])))
        ELSE IF o.stop_list # << >>
        THEN << Member(key, ArrayOf([i \in DOMAIN o.stop_list |->
                                       append_json_string(o.stop_list[i])])) >>
        ELSE If(o.stop # {}, StringMember(key, The(o.stop)))
      members == FlattenSeq([i \in DOMAIN OptionNames |-> MemberOf(OptionNames[i])])
  IN IF cap = 0 \/ StopRefused(o) \/ \E k \in DOMAIN o.numbers : o.numbers[k] = {Infinite}
     THEN Refused
     ELSE IF members = << >> THEN {<< >>}
     ELSE Fixed(ObjectOf(members), WriteCap(cap))

=============================================================================
