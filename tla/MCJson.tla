------------------------------- MODULE MCJson -------------------------------
(***************************************************************************)
(* Texts for the tokenizer, answers for the readers, and requests for the  *)
(* writers.                                                                *)
(***************************************************************************)
EXTENDS JsonPromises

LiteralsDef == {<< "t", "r", "u", "e" >>, << "n", "u", "l", "l" >>}
KeysDef == {"choices", "index", "delta", "k", "x"}

S(w) == << Quote >> \o w \o << Quote >>
Null == null
One1 == << "1" >>
K(key, value) == Member(key, value)

-----------------------------------------------------------------------------
(* Whole texts, each also with a character left out or replaced, and every *)
(* text of up to two characters.                                         *)
Whole ==
  { << "[", "1", ",", Quote, "x", Quote, "]" >>,
    ObjectOf(<< K("k", << Space, "[", "{", "}", "]" >>), K("", << "1" >>) >>),
    << "[", "[", "]", "," >> \o true \o << Space, "]", Newline >>,
    S(<< Backslash, "u", "0", "f", "0", "1", Backslash, Quote >>),
    << "[", "-", "1", ".", "0", "e", "+", "1", "]" >>,
    [i \in 1..16 |-> IF i <= 8 THEN "[" ELSE "]"],
    true, Null \o << "1", Space >> }

Without(w, i) == SubSeq(w, 1, i - 1) \o SubSeq(w, i + 1, Len(w))
Near(w) ==
  {Without(w, i) : i \in DOMAIN w}
  \cup {[w EXCEPT ![i] = c] : i \in DOMAIN w,
                             c \in {",", "]", "}", "{", "1", Quote, Space, Control, "-", "."}}
Alphabet == {"{", "}", "[", "]", ":", ",", Quote, "1", "0", Space, Newline, Backslash}
Short == UNION {[1..n -> Alphabet] : n \in 0..2}
TextsDef == Whole \cup UNION {Near(w) : w \in Whole} \cup Short

-----------------------------------------------------------------------------
(* Answers.                                                                *)

(* Members that hide others of their name, or look like one.               *)
Hiding == {<< >>, << K("x", << "[", "{", Quote, "index", Quote, ":", "1", "}", "]" >>) >>,
           << K("x", S(<< "choices" >>)) >>}
Indexes == {<< >>, << K("index", << "0" >>) >>, << K("index", << "1" >>) >>,
            << K("index", S(<< "0" >>)) >>}
Tools(tool) == K("tool_calls", ArrayOf(tool))
ToolA == ObjectOf(<< K("index", << "1" >>), K("id", S(<< "a" >>)),
                     K("function", ObjectOf(<< K("name", S(<< "f" >>)), K("arguments", S(<< >>)) >>)) >>)
ToolB == ObjectOf(<< K("function", S(<< "f" >>)), K("id", Null) >>)

Deltas ==
  {<< >>,
   << K("delta", ObjectOf(<< K("content", S(<< "x" >>)) >>)) >>,
   << K("delta", ObjectOf(<< K("thinking", S(<< "y" >>)), K("content", Null) >>)), K("finish_reason", S(<< "stop" >>)) >>,
   << K("delta", ObjectOf(<< Tools(<< ToolA, ToolB >>) >>)), K("finish_reason", S(<< "tool_calls" >>)) >>,
   << K("delta", ObjectOf(<< Tools(<< ToolA, One1 >>) >>)) >>}
Second == ObjectOf(<< K("index", << "1" >>), K("delta", ObjectOf(<< K("content", S(<< "second" >>)) >>)) >>)
Usage == K("usage", ObjectOf(<< K("prompt_tokens", << "1", "0" >>), K("total_tokens", << "-", "1" >>),
                               K("completion_tokens", S(<< "1" >>)) >>))
Choices(list) == K("choices", ArrayOf(list))

Chunks ==
  {ObjectOf(h \o << Choices(list) >> \o << Usage >>) :
     h \in Hiding,
     list \in UNION {{<< ObjectOf(i \o d) >>, << ObjectOf(d \o i), Second >>, << Second, ObjectOf(i \o d) >>}
                     : i \in Indexes, d \in Deltas}}
  \cup {ObjectOf(<< Usage >>), ObjectOf(<< >>), << "[", "]" >>, << "{", "}", "{", "}" >>, << Space >>,
        ObjectOf(<< Choices(<< >>) >>), ObjectOf(<< K("choices", S(<< "x" >>)), K("usage", One1) >>),
        ObjectOf(<< Choices(<< One1, Second >>) >>), ObjectOf(<< Choices(<< Null, S(<< >>) >>) >>),
        << "{", "1" >>, << "{", Quote >>,
        ObjectOf(<< Choices(<< ObjectOf(<< K("index", << "1", "0", "0", "0" >>) >>) >>) >>)}

Messages ==
  {<< >>, << K("message", Null) >>,
   << K("message", ObjectOf(<< K("content", S(<< "x" >>)) >>)) >>,
   << K("message", ObjectOf(<< K("reasoning_content", S(<< >>)), Tools(<< ToolA, ToolB >>) >>)),
      K("finish_reason", S(<< "length" >>)) >>,
   << K("message", ObjectOf(<< Tools(<< One1 >>), K("content", S(<< "x" >>)) >>)) >>}
Responses ==
  {ObjectOf(h \o << Choices(list) >>) :
     h \in Hiding,
     list \in UNION {{<< ObjectOf(m) >>, << ObjectOf(m), ObjectOf(n) >>} : m \in Messages, n \in Messages}}
  \cup {ObjectOf(<< K("choices", One1) >>), ObjectOf(<< Choices(<< >>) >>), << "[", "]" >>,
        ObjectOf(<< Choices(<< Null >>) >>)}

Lists1(list, key, value) ==
  {ObjectOf(h \o << K(list, ArrayOf(items)) >>) :
     h \in Hiding,
     items \in {<< >>, << value >>, << ObjectOf(<< K(key, value) >>) >>,
                << ObjectOf(<< K("x", value), K(key, value) >>), ObjectOf(<< K(key, value), K(key, Null) >>) >>,
                << ObjectOf(<< K(key, value) >>), ObjectOf(<< K(key, Null) >>) >>}}
TextChunks ==
  {ObjectOf(<< Choices(list), Usage >>) :
     list \in UNION {{<< ObjectOf(i \o << K("text", S(<< "x" >>)) >>) >>,
                      << ObjectOf(<< K("index", << "1" >>), K("finish_reason", S(<< "stop" >>)) >>),
                         ObjectOf(i \o << K("text", S(<< "x" >>)) >>) >>} : i \in Indexes}}

Reading(reader, body, index) == [reader |-> reader, body |-> body, index |-> index]
ReadingsDef ==
  {Reading("chat_chunk", b, i) : b \in Chunks, i \in {0, 1}}
  \cup {Reading("chat", b, 0) : b \in Responses}
  \cup {Reading("completions_chunk", b, i) : b \in TextChunks, i \in {0, 1}}
  \cup {Reading("completions", b, 0) : b \in Lists1("choices", "text", S(<< "x" >>))}
  \cup {Reading("embeddings", b, 0) : b \in Lists1("data", "embedding", << "[", "1", "]" >>)}

-----------------------------------------------------------------------------
(* What is written.                                                        *)

Awkward == << Quote, Backslash, Newline, Control, "}" >>
Plain == [role |-> "user", content |-> {}, content_json |-> {}, tool_calls_json |-> {},
          tool_call_id |-> {}, name |-> {}]
Contents == {{}, {<< >>}, {<< "[", "1", "]" >>}, {<< "[", "1", ",", "1", ",", "1", "]" >>},
             {<< "[", "]", "[", "]" >>}, {<< "{", "}" >>}, {<< "[", "1" >>}, {<< "[", "]", Space >>}, {<< Space >>}}
MessageSet ==
  {[Plain EXCEPT !.content = {Awkward}, !.name = n] : n \in {{}, {<< "n" >>}, {Awkward}}}
  \cup {[Plain EXCEPT !.content_json = c] : c \in Contents}
  \cup {[Plain EXCEPT !.content_json = {<< "[", "1", "]" >>}, !.content = {<< "x" >>}],
        [Plain EXCEPT !.role = "tool", !.content = {<< >>}, !.tool_call_id = {Awkward}],
        [Plain EXCEPT !.role = "assistant", !.tool_calls_json = {ArrayOf(<< ToolA >>)}],
        [Plain EXCEPT !.role = "assistant", !.tool_calls_json = {<< >>}],
        [Plain EXCEPT !.role = "assistant", !.tool_calls_json = {<< "[", "1" >>}]}
Params == {{}, {<< >>}, {<< "{", "}" >>}, {<< "{", Space, "}" >>}, {ObjectOf(<< K("n", One1) >>)},
           {K("n", One1)}, {ObjectOf(<< K("n", ObjectOf(<< K("model", One1) >>)), K("model", One1) >>)},
           {<< "[", "]" >>}, {<< Space >> \o ObjectOf(<< K("n", One1) >>)},
           {ObjectOf(<< K("n", One1), K("stream", S(<< "x" >>)) >>)}}
Toolings == {{}, {K("tools", << "[", "]" >>)}, {<< "{", "}" >>},
             {ObjectOf(<< K("tools", << "[", "]" >>), K("n", Null), K("messages", One1) >>)}}
Formats == {{}, {<< >>}, {ObjectOf(<< K("x", true) >>)}, {<< "1", "}" >>}}

Chat(messages, params, tooling, format, stream, usage) ==
  [model |-> << "m" >>, messages |-> messages, params_json |-> params, tooling_json |-> tooling,
   response_format_json |-> format, stream |-> stream, include_usage |-> usage]
ChatRequestsDef ==
  {Chat(<< m >>, {}, {}, {}, s, s) : m \in MessageSet, s \in BOOLEAN}
  \cup {Chat(<< m, n >>, {}, {}, {}, FALSE, TRUE) : m \in MessageSet, n \in MessageSet}
  \cup {Chat(<< >>, p, t, f, s, u) : p \in Params, t \in Toolings, f \in Formats,
                                    s \in BOOLEAN, u \in BOOLEAN}

Options(t, n, s, stop, list) ==
  [numbers |-> [key \in {OptionNames[i] : i \in DOMAIN OptionNames} \ {"stop"} |->
                  CASE key = "temperature" -> t [] key = "max_tokens" -> n [] key = "seed" -> s [] OTHER -> {}],
   stop |-> stop, stop_list |-> list]
OptionSet ==
  {Options(t, n, s, stop, list) :
     t \in {{}, {<< "1", ".", "0" >>}, {Infinite}}, n \in {{}, {<< "-", "1" >>}}, s \in {{}, {One1}},
     stop \in {{}, {<< >>}, {Awkward}},
     list \in {<< >>, << << "x" >> >>, << Awkward, << >> >>, << << "x" >>, << "x" >>, << "x" >> >>}}
ToolCallSet ==
  {[id |-> i, name |-> n, arguments |-> a] : i \in {{}, {<< >>}, {Awkward}}, n \in {<< >>, << "f" >>},
                                             a \in {<< >>, << "{", Quote, "k", Quote, ":", "1", "}" >>, Awkward}}
CallLists == {<< >>} \cup {<< c >> : c \in ToolCallSet} \cup {<< c, d >> : c \in ToolCallSet, d \in ToolCallSet}

(* Buffers that are too small, that fit exactly and that are larger.       *)
WithRooms(writer, what) ==
  LET In(cap) == [writer |-> writer, what |-> what, cap |-> cap]
      lengths == {Len(w) : w \in Written(In(Ample))}
  IN {In(cap) : cap \in ({0, 1, 7, Ample} \cup UNION {n - 1 .. n + 1 : n \in lengths}) \cap Nat}

OtherWritingsDef ==
  {[writer |-> "completions", cap |-> 0,
    what |-> [model |-> << "m" >>, prompt |-> w, stream |-> s, include_usage |-> u, params_json |-> p]] :
     w \in {<< >>, Awkward}, s \in BOOLEAN, u \in BOOLEAN, p \in Params}
  \cup {[writer |-> "embeddings", cap |-> 0,
         what |-> [model |-> << "m" >>, inputs |-> i, params_json |-> p]] :
          i \in {<< >>, << Awkward >>, << << "x" >>, << >> >>, << << "x" >>, << "x" >>, << "x" >> >>}, p \in Params}
  \cup UNION {WithRooms("options", o) : o \in OptionSet}
  \cup UNION {WithRooms("tool_calls", l) : l \in CallLists}

=============================================================================
