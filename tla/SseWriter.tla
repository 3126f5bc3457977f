------------------------------ MODULE SseWriter ------------------------------
(***************************************************************************)
(* sse_write_event and sse_write_keepalive of src/src/sse.c: the bytes one *)
(* event becomes, or the error that refuses it.  Both functions are pure;  *)
(* module SseRoundTrip puts them at the other end of the parser's stream.  *)
(***************************************************************************)
EXTENDS Integers, Sequences, SequencesExt

CONSTANTS
  WriterMaxLine,   \* limits->max_line_bytes, 0 is unlimited
  WriterMaxFrame,  \* limits->max_frame_bytes
  OutCap           \* the size of the caller's buffer

NewLine == 10
Return  == 13

DataPrefix  == << 100, 97, 116, 97, 58, 32 >>           \* "data: "
EventPrefix == << 101, 118, 101, 110, 116, 58, 32 >>    \* "event: "
Ping        == << 58, 32, 112, 105, 110, 103 >>         \* ": ping"

(* The lines of data, which LF separates: one line when there is none.     *)
DataLines[data \in Seq(0 .. 255)] ==
  IF data = << >> THEN << << >> >>
  ELSE LET lines == DataLines[Front(data)]
       IN  IF Last(data) = NewLine THEN Append(lines, << >>)
           ELSE Append(Front(lines), Append(Last(lines), Last(data)))

LineTooLong_ForgetsPrefix(prefix, text) ==
  WriterMaxLine > 0 /\ Len(text) > WriterMaxLine

LineTooLong(prefix, text) == WriterMaxLine > 0 /\ Len(prefix) + Len(text) > WriterMaxLine

FrameTooLarge(data) == WriterMaxFrame > 0 /\ Len(data) + 1 > WriterMaxFrame

WireLine(prefix, text) == prefix \o text \o << NewLine >>

TypeLine(type) == IF type = << >> THEN << >> ELSE WireLine(EventPrefix, type)

DataFields[lines \in Seq(Seq(0 .. 255))] ==
  IF lines = << >> THEN << >>
  ELSE DataFields[Front(lines)] \o WireLine(DataPrefix, Last(lines))

Output_OneDataLine(type, data) == TypeLine(type) \o WireLine(DataPrefix, data) \o << NewLine >>

Output(type, data) == TypeLine(type) \o DataFields[DataLines[data]] \o << NewLine >>

(* The scan stops at the first data line that cannot be sent; a CR in it   *)
(* is met before its length is known.                                      *)
Unsendable(lines) ==
  {k \in DOMAIN lines : Contains(lines[k], Return) \/ LineTooLong(DataPrefix, lines[k])}

DataError(data) ==
  LET lines == DataLines[data]
      bad   == Unsendable(lines)
      first == CHOOSE k \in bad : \A j \in bad : k <= j
  IN  IF bad = {} THEN "OK"
      ELSE IF Contains(lines[first], Return) THEN "BAD_INPUT" ELSE "OVERFLOW_LINE"

(* The checks in the order the function makes them.                        *)
WriteError(type, data) ==
  CASE FrameTooLarge(data)                               -> "OVERFLOW_FRAME"
    [] Contains(type, NewLine) \/ Contains(type, Return) -> "BAD_INPUT"
    [] type # << >> /\ LineTooLong(EventPrefix, type)    -> "OVERFLOW_LINE"
    [] DataError(data) # "OK"                            -> DataError(data)
    [] Len(Output(type, data)) > OutCap                  -> "OVERFLOW_BUFFER"
    [] OTHER                                             -> "OK"

(* A refused event leaves nothing in the buffer: *out_len is 0.            *)
WriteEvent(type, data) ==
  IF WriteError(type, data) = "OK" THEN Output(type, data) ELSE << >>

WriteKeepalive ==
  IF (WriterMaxLine > 0 /\ Len(Ping) > WriterMaxLine) \/ Len(Ping) + 2 > OutCap
  THEN << >>
  ELSE Ping \o << NewLine, NewLine >>

=============================================================================
