---------------------------- MODULE MCChatStream ----------------------------
(***************************************************************************)
(* A tool call's arguments are written with three characters, one of which *)
(* is streamed as an escape sequence: "{}" and the empty string "\"\"" are *)
(* the valid ones.                                                         *)
(***************************************************************************)
EXTENDS ChatStream

MCPlain == {"{", "}", "quote"}
MCRaw == {"{", "}", "escaped quote"}
MCUnescape == [c \in MCRaw |-> IF c = "escaped quote" THEN "quote" ELSE c]
MCValidJson == { << "{", "}" >>, << "quote", "quote" >> }

Plainly(kind) == [kind |-> kind, parts |-> {}, deltas |-> << >>, finish |-> "unknown"]
Chunk(parts, ds, finish) ==
  [kind |-> "delta", parts |-> parts, deltas |-> ds, finish |-> finish]
Piece(i, args) == [index |-> i, hasArgs |-> TRUE, args |-> args]
Named(i) == [index |-> i, hasArgs |-> FALSE, args |-> << >>]

Ends == {Plainly("done"), Chunk({}, << >>, "tool_calls")}

(* Two calls whose pieces come in any order.                               *)
ToolEvents == Ends \cup
  { Chunk({}, << Piece(0, << "{" >>) >>, "unknown"),
    Chunk({}, << Piece(0, << "}" >>), Piece(1, << "escaped quote" >>) >>, "unknown"),
    Chunk({}, << Piece(1, << "escaped quote" >>) >>, "tool_calls"),
    Chunk({}, << Named(1), Piece(0, << >>), Piece(0, << "{", "}" >>) >>, "unknown") }

(* Indices whose accumulators no array can hold: four entries of two bytes *)
(* have a size that wraps to 0, five to 2, and the number of entries wraps *)
(* after the last index.                                                   *)
HugeEvents ==
  { Chunk({}, << Named(3) >>, "unknown"),
    Chunk({}, << Piece(4, << "{" >>) >>, "unknown"),
    Chunk({}, << Named(SizeMax) >>, "tool_calls") }

(* Text, usage and everything that is passed over.                         *)
TextEvents == Ends \cup
  { Plainly("empty"), Plainly("unparsable"),
    Chunk(Parts, << >>, "unknown"),
    Chunk({"content"}, << Piece(2, << "{", "}" >>) >>, "other"),
    Chunk({"usage"}, << Piece(0, << "escaped quote", "escaped quote" >>) >>, "unknown") }

MCEvents == ToolEvents \cup HugeEvents \cup TextEvents

=============================================================================
