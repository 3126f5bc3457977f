----------------------------- MODULE MCSseParser -----------------------------
(***************************************************************************)
(* Model checking the event stream parser: the alphabets of chunks.        *)
(***************************************************************************)
EXTENDS SseReference

DataX == DataName \o << COLON, SPACE, 120 >>   \* "data: x"

(* Field names, colons, spaces and line ends in any order.                 *)
FramingChunks ==
  { << >>, << LF >>, << CR >>, << COLON >>, << SPACE >>, << 120 >>,
    DataName, IdName }

(* Whole lines: every field, ended by LF, CR or both, blank lines between. *)
EventChunks ==
  { << >>, << LF >>,
    DataX \o << LF >>, DataName \o << CR >>,
    EventName \o << COLON, 101, LF >>, EventName \o << CR, LF >>,
    IdName \o << COLON, 49, CR, LF >>, IdName \o << COLON, 0, LF >>,
    RetryName \o << COLON, 49, 50, LF >>, RetryName \o << COLON, 49, 50, 48, LF >> }

(* Bytes around every boundary of the UTF-8 table, and the BOM's.          *)
Utf8Chunks ==
  { << >>, << LF >>, << 120 >>, << 128 >>, << 159 >>, << 160 >>, << 187 >>, << 191 >>,
    << 193 >>, << 194 >>, << 224 >>, << 237 >>, << 239 >>, << 240 >>, << 244 >>,
    << 255 >> }

(* Lines and frames of several lengths, one of them growing as it is       *)
(* decoded, and a byte order mark that is none.                            *)
LimitChunks ==
  { << >>, << LF >>, << LF, LF >>, << 120 >>, << 120, 120, 120 >>, << 255 >>,
    << 239, 120 >>,
    DataX, DataName \o << COLON >>,
    EventName \o << COLON >>, IdName \o << COLON, 49 >> }

=============================================================================
