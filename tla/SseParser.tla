------------------------------ MODULE SseParser ------------------------------
(***************************************************************************)
(* The incremental Server-Sent-Events parser of src/src/sse.c.             *)
(*                                                                         *)
(* One sse_feed call hands the parser a chunk; the parser then works       *)
(* through it byte by byte.  A behaviour of this module is a sequence of   *)
(* sse_feed calls: Feed puts the chunk in `input`, every Process step      *)
(* consumes its head (or puts bytes back in front of it, where the C code  *)
(* replays them), and the call has returned when `input` is empty again.   *)
(* Its return value is `lastError`, which the parser keeps.                *)
(*                                                                         *)
(* Bytes are the numbers 0..255.  The callbacks on_frame and on_event      *)
(* answer TRUE or FALSE by nondeterministic choice, and every realloc may  *)
(* fail.                                                                   *)
(***************************************************************************)
EXTENDS Integers, Sequences, FiniteSets

CONSTANTS
  Chunks,       \* the chunks a caller may feed
  MaxLine,      \* max_line_bytes, 0 is unlimited, like the three below
  MaxFrame,     \* max_frame_bytes
  MaxBuffer,    \* max_sse_buffer_bytes
  MaxTotal,     \* max_total_bytes
  FirstCap,     \* capacity of a buffer's first allocation, 64 in the source
  SizeMax,      \* SIZE_MAX, the largest retry value
  FeedBound     \* bound of the model: chunks accepted in one behaviour

Byte == 0 .. 255

ASSUME ChunksAssumption == Chunks \subseteq Seq(Byte)
ASSUME LimitsAssumption ==
  /\ MaxLine \in Nat
  /\ MaxFrame \in Nat
  /\ MaxBuffer \in Nat
  /\ MaxTotal \in Nat
ASSUME CapacityAssumption == 
  FirstCap \in Nat \ {0} /\ SizeMax \in Nat /\ FeedBound \in Nat

VARIABLES
  input,      \* the bytes of the chunk in progress still to be processed
  bomChecked, \* the first bytes of the stream are known (not) to be a BOM
  bomBuf,     \* bytes held back while they may still be a BOM
  pendingCr,  \* the last byte was a CR: an LF next belongs to it
  utf8,       \* the bytes of an unfinished UTF-8 sequence
  line,       \* the line being assembled
  data,       \* the data buffer of the event being assembled
  eventType,  \* its event type
  lastId,     \* last_event_id, which outlives the event
  dataSeen,   \* the event has at least one data field
  retry,      \* the last valid retry value, or NoRetry
  cap,        \* the capacity of each of the four growable buffers
  memUsed,    \* mem_used
  total,      \* total_bytes_seen
  lastError,  \* last_error
  fed,        \* history: all bytes of the accepted chunks
  feeds,      \* history: how many chunks were accepted
  events      \* history: the events handed to on_event

decoder == << bomChecked, bomBuf, pendingCr, utf8 >>
frame   == << data, eventType, lastId, dataSeen, retry >>
memory  == << cap, memUsed >>
history == << total, fed, feeds >>
vars    == << input, decoder, line, frame, memory, history, lastError, events >>

OK     == "OK"
Errors == {"NOMEM", "OVERFLOW_LINE", "OVERFLOW_FRAME", "OVERFLOW_BUFFER",
           "OVERFLOW_TOTAL", "ABORT"}
Buffers == {"line", "data", "event_type", "last_event_id"}
NoRetry == -1

LF    == 10
CR    == 13
SPACE == 32
COLON == 58

BOM         == << 239, 187, 191 >>
BomPrefixes == {<< 239 >>, << 239, 187 >>}
Replacement == << 239, 191, 189 >>
Message     == << 109, 101, 115, 115, 97, 103, 101 >>

DataName  == << 100, 97, 116, 97 >>
EventName == << 101, 118, 101, 110, 116 >>
IdName    == << 105, 100 >>
RetryName == << 114, 101, 116, 114, 121 >>

Smaller(a, b) == IF a < b THEN a ELSE b
Larger(a, b)  == IF a < b THEN b ELSE a

-----------------------------------------------------------------------------
(***************************************************************************)
(* Operators whose names have an underscore (Over_OffByOne) are mistaken   *)
(* versions of the operator before the underscore.  The specification does *)
(* not use them: they show, one each, that a property notices the mistake. *)
(***************************************************************************)

(***************************************************************************)
(* UTF-8 decoding.                                                         *)
(***************************************************************************)

IsContinuation(b) == b \in 128 .. 191

(* utf8_total: how long the sequence a lead byte announces is; 0 for a     *)
(* byte that starts none.                                                  *)
SequenceLength(lead) ==
  CASE lead \in 194 .. 223 -> 2
    [] lead \in 224 .. 239 -> 3
    [] lead \in 240 .. 244 -> 4
    [] OTHER               -> 0

CodePoint(seq) ==
  CASE Len(seq) = 2 -> (seq[1] % 32) * 64 + (seq[2] % 64)
    [] Len(seq) = 3 -> (seq[1] % 16) * 4096 + (seq[2] % 64) * 64 + (seq[3] % 64)
    [] OTHER        -> (seq[1] % 8) * 262144 + (seq[2] % 64) * 4096
                         + (seq[3] % 64) * 64 + (seq[4] % 64)

SmallestOfLength(n) == CASE n = 2 -> 128 [] n = 3 -> 2048 [] OTHER -> 65536

Utf8SequenceValid_AllowsSurrogates(seq) ==
  CodePoint(seq) \in SmallestOfLength(Len(seq)) .. 1114111

(* Neither overlong, nor beyond U+10FFFF, nor a surrogate.                 *)
Utf8SequenceValid(seq) ==
  /\ CodePoint(seq) >= SmallestOfLength(Len(seq))
  /\ CodePoint(seq) <= 1114111
  /\ CodePoint(seq) \notin 55296 .. 57343

-----------------------------------------------------------------------------
(***************************************************************************)
(* Lines: the field name is what precedes the first colon, the value what  *)
(* follows it less one leading space.                                      *)
(***************************************************************************)

(* How many bytes of the line come before any colon.                       *)
NameLength(l) == Cardinality({i \in 1 .. Len(l) : \A j \in 1 .. i : l[j] # COLON})

FieldName(l) == SubSeq(l, 1, NameLength(l))

FieldValue_KeepsSpace(l) == SubSeq(l, NameLength(l) + 2, Len(l))

FieldValue(l) ==
  LET from == NameLength(l) + 2
  IN  IF from <= Len(l) /\ l[from] = SPACE
      THEN SubSeq(l, from + 1, Len(l))
      ELSE SubSeq(l, from, Len(l))

(* The number a sequence of digits stands for.                             *)
Decimal(digits) ==
  LET upTo[i \in 0 .. Len(digits)] ==
        IF i = 0 THEN 0 ELSE upTo[i - 1] * 10 + (digits[i] - 48)
  IN  upTo[Len(digits)]

RetryValid_AcceptsAnything(value) ==
  /\ value # << >>
  /\ value[1] \in 48 .. 57

(* sse_parse_retry_value: its overflow test refuses exactly the values     *)
(* beyond SIZE_MAX.                                                        *)
RetryValid(value) ==
  /\ value # << >>
  /\ \A i \in 1 .. Len(value) : value[i] \in 48 .. 57
  /\ Decimal(value) \in 0 .. SizeMax

-----------------------------------------------------------------------------
(***************************************************************************)
(* Memory.  sse_buf_reserve doubles a buffer's capacity, but never beyond  *)
(* what the other buffers leave of max_sse_buffer_bytes.  c is the         *)
(* buffer's capacity, used is mem_used and needed the bytes it must hold.  *)
(***************************************************************************)

MaxCap_CountsItselfTwice(c, used) == MaxBuffer

MaxCap(c, used) ==
  IF MaxBuffer > used - c THEN MaxBuffer - (used - c) ELSE 0

Room(c, used, needed) ==
  \/ needed <= c
  \/ MaxBuffer = 0
  \/ needed <= MaxCap(c, used)

Doubled(c, needed) == Larger(IF c = 0 THEN FirstCap ELSE 2 * c, needed)

NewCap(c, used, needed) ==
  IF needed <= c THEN c
  ELSE IF MaxBuffer = 0 THEN Doubled(c, needed)
  ELSE Smaller(Doubled(c, needed), MaxCap(c, used))

UsedAfter_OnlyReleases(c, used, needed) == used - c

UsedAfter(c, used, needed) == used - c + NewCap(c, used, needed)

Reserve(b, needed) ==
  /\ cap' = [cap EXCEPT ![b] = NewCap(cap[b], memUsed, needed)]
  /\ memUsed' = UsedAfter(cap[b], memUsed, needed)

Over_OffByOne(limit, n) == limit > 0 /\ n > limit + 1

Over_AtLimit(limit, n) == limit > 0 /\ n >= limit

Over(limit, n) == limit > 0 /\ n > limit

-----------------------------------------------------------------------------
(* A byte was handled without error and the call goes on with rest.        *)
Proceed(rest) ==
  /\ input' = rest
  /\ UNCHANGED lastError

(* sse_set_error in sse_feed: the error sticks and the rest of the chunk   *)
(* is dropped.                                                             *)
Fail(e) ==
  /\ lastError' = e
  /\ input' = << >>

(* sse_line_append: add bytes to the line and go on with rest.             *)
AppendToLine(bytes, rest) ==
  LET n == Len(line) + Len(bytes)
  IN  \/ /\ Over(MaxLine, n)
         /\ Fail("OVERFLOW_LINE")
         /\ UNCHANGED << line, memory >>
      \/ /\ ~Over(MaxLine, n)
         /\ ~Room(cap["line"], memUsed, n)
         /\ Fail("OVERFLOW_BUFFER")
         /\ UNCHANGED << line, memory >>
      \/ /\ ~Over(MaxLine, n)
         /\ Room(cap["line"], memUsed, n)
         /\ n > cap["line"]
         /\ Fail("NOMEM")
         /\ UNCHANGED << line, memory >>
      \/ /\ ~Over(MaxLine, n)
         /\ Room(cap["line"], memUsed, n)
         /\ line' = line \o bytes
         /\ Reserve("line", n)
         /\ Proceed(rest)

-----------------------------------------------------------------------------
Init ==
  /\ input = << >>
  /\ bomChecked = FALSE
  /\ bomBuf = << >>
  /\ pendingCr = FALSE
  /\ utf8 = << >>
  /\ line = << >>
  /\ data = << >>
  /\ eventType = << >>
  /\ lastId = << >>
  /\ dataSeen = FALSE
  /\ retry = NoRetry
  /\ cap = [b \in Buffers |-> 0]
  /\ memUsed = 0
  /\ total = 0
  /\ lastError = OK
  /\ fed = << >>
  /\ feeds = 0
  /\ events = << >>

-----------------------------------------------------------------------------
(***************************************************************************)
(* sse_feed, up to its loop over the bytes.                                *)
(***************************************************************************)

(* A parser in error returns that error again; an empty chunk is no call.  *)
FeedIgnored(chunk) ==
  /\ input = << >>
  /\ lastError # OK \/ chunk = << >>
  /\ UNCHANGED vars

FeedOverTotal(chunk) ==
  /\ input = << >>
  /\ lastError = OK
  /\ chunk # << >>
  /\ MaxTotal > 0
  /\ Len(chunk) > MaxTotal - total
  /\ Fail("OVERFLOW_TOTAL")
  /\ UNCHANGED << decoder, line, frame, memory, history, events >>

FeedAccepted_NotSticky(chunk) ==
  /\ input = << >>
  /\ chunk # << >>
  /\ MaxTotal = 0 \/ Len(chunk) <= MaxTotal - total
  /\ feeds < FeedBound
  /\ total' = total + Len(chunk)
  /\ fed' = fed \o chunk
  /\ feeds' = feeds + 1
  /\ input' = chunk
  /\ UNCHANGED << decoder, line, frame, memory, lastError, events >>

FeedAccepted(chunk) ==
  /\ input = << >>
  /\ lastError = OK
  /\ chunk # << >>
  /\ MaxTotal = 0 \/ Len(chunk) <= MaxTotal - total
  /\ feeds < FeedBound
  /\ total' = total + Len(chunk)
  /\ fed' = fed \o chunk
  /\ feeds' = feeds + 1
  /\ input' = chunk
  /\ UNCHANGED << decoder, line, frame, memory, lastError, events >>

Feed(chunk) ==
  FeedIgnored(chunk) \/ FeedOverTotal(chunk) \/ FeedAccepted(chunk)

-----------------------------------------------------------------------------
(***************************************************************************)
(* sse_process_byte: the byte order mark.  The parser holds the first      *)
(* bytes back while they are a proper prefix of the BOM.                   *)
(***************************************************************************)

HoldBom ==
  /\ ~bomChecked
  /\ Append(bomBuf, Head(input)) \in BomPrefixes
  /\ bomBuf' = Append(bomBuf, Head(input))
  /\ Proceed(Tail(input))
  /\ UNCHANGED << bomChecked, pendingCr, utf8, line, frame, memory, history, events >>

DropBom ==
  /\ ~bomChecked
  /\ Append(bomBuf, Head(input)) = BOM
  /\ bomChecked' = TRUE
  /\ bomBuf' = << >>
  /\ Proceed(Tail(input))
  /\ UNCHANGED << pendingCr, utf8, line, frame, memory, history, events >>

ReplayBom_NotChecked ==
  /\ ~bomChecked
  /\ Append(bomBuf, Head(input)) \notin BomPrefixes \cup {BOM}
  /\ bomBuf' = << >>
  /\ Proceed(bomBuf \o input)
  /\ UNCHANGED << bomChecked, pendingCr, utf8, line, frame, memory, history, events >>

(* No BOM: the bytes held back are processed like any others.              *)
ReplayBom ==
  /\ ~bomChecked
  /\ Append(bomBuf, Head(input)) \notin BomPrefixes \cup {BOM}
  /\ bomChecked' = TRUE
  /\ bomBuf' = << >>
  /\ Proceed(bomBuf \o input)
  /\ UNCHANGED << pendingCr, utf8, line, frame, memory, history, events >>

-----------------------------------------------------------------------------
(***************************************************************************)
(* sse_process_raw_byte, for a byte behind the BOM.                        *)
(***************************************************************************)

IsSecondHalf_NotAcrossChunks(b) == pendingCr /\ b = LF /\ Len(input) > 1

(* The LF of a CR LF pair; the CR has ended the line already.              *)
IsSecondHalf(b) == pendingCr /\ b = LF

SkipLf ==
  /\ bomChecked
  /\ IsSecondHalf(Head(input))
  /\ pendingCr' = FALSE
  /\ Proceed(Tail(input))
  /\ UNCHANGED << bomChecked, bomBuf, utf8, line, frame, memory, history, events >>

(* A byte that does not continue the UTF-8 sequence begun, a line end      *)
(* among them: one U+FFFD stands for the sequence, and the byte is looked  *)
(* at afresh (sse_utf8_flush_incomplete, and the tail of                   *)
(* sse_utf8_feed_byte).                                                    *)
BreakSequence ==
  /\ bomChecked
  /\ utf8 # << >>
  /\ ~IsContinuation(Head(input))
  /\ utf8' = << >>
  /\ pendingCr' = FALSE
  /\ AppendToLine(Replacement, input)
  /\ UNCHANGED << bomChecked, bomBuf, frame, history, events >>

ContinueSequence ==
  /\ bomChecked
  /\ utf8 # << >>
  /\ IsContinuation(Head(input))
  /\ pendingCr' = FALSE
  /\ LET seq == Append(utf8, Head(input))
     IN  \/ /\ Len(seq) < SequenceLength(seq[1])
            /\ utf8' = seq
            /\ Proceed(Tail(input))
            /\ UNCHANGED << line, memory >>
         \/ /\ Len(seq) = SequenceLength(seq[1])
            /\ utf8' = << >>
            /\ AppendToLine(IF Utf8SequenceValid(seq) THEN seq ELSE Replacement,
                            Tail(input))
  /\ UNCHANGED << bomChecked, bomBuf, frame, history, events >>

(* A byte that stands alone: ASCII, the first of a sequence, or neither.   *)
StartByte ==
  /\ bomChecked
  /\ utf8 = << >>
  /\ Head(input) \notin {LF, CR}
  /\ pendingCr' = FALSE
  /\ LET b == Head(input)
     IN  \/ /\ b < 128
            /\ AppendToLine(<< b >>, Tail(input))
            /\ UNCHANGED utf8
         \/ /\ SequenceLength(b) > 0
            /\ utf8' = << b >>
            /\ Proceed(Tail(input))
            /\ UNCHANGED << line, memory >>
         \/ /\ b >= 128
            /\ SequenceLength(b) = 0
            /\ AppendToLine(Replacement, Tail(input))
            /\ UNCHANGED utf8
  /\ UNCHANGED << bomChecked, bomBuf, frame, history, events >>

-----------------------------------------------------------------------------
(***************************************************************************)
(* sse_process_line, at a CR or LF that ends a line.                       *)
(***************************************************************************)

EndsLine(b) ==
  /\ bomChecked
  /\ utf8 = << >>
  /\ b \in {LF, CR}
  /\ ~IsSecondHalf(b)

(* The line is done with; a CR may still be followed by its LF.            *)
LineDone ==
  /\ line' = << >>
  /\ pendingCr' = (Head(input) = CR)
  /\ Proceed(Tail(input))

LineFails(e) ==
  /\ Fail(e)
  /\ pendingCr' = FALSE
  /\ UNCHANGED line

WithoutFinalLf(d) ==
  IF d # << >> /\ d[Len(d)] = LF THEN SubSeq(d, 1, Len(d) - 1) ELSE d

Event_KeepsFinalLf == [type |-> IF eventType = << >> THEN Message ELSE eventType,
                       data |-> data,
                       id   |-> lastId]

Event == [type |-> IF eventType = << >> THEN Message ELSE eventType,
          data |-> WithoutFinalLf(data),
          id   |-> lastId]

(* on_frame answers FALSE: nothing is dispatched.                          *)
FrameAborted ==
  /\ EndsLine(Head(input))
  /\ line = << >>
  /\ LineFails("ABORT")
  /\ UNCHANGED << bomChecked, bomBuf, utf8, frame, memory, history, events >>

(* A blank line without a data field before it only resets the event.      *)
BlankLine ==
  /\ EndsLine(Head(input))
  /\ line = << >>
  /\ ~dataSeen
  /\ data' = << >>
  /\ eventType' = << >>
  /\ LineDone
  /\ UNCHANGED << bomChecked, bomBuf, utf8, lastId, dataSeen, retry, memory,
                  history, events >>

(* on_event answers TRUE ...                                               *)
Dispatch ==
  /\ EndsLine(Head(input))
  /\ line = << >>
  /\ dataSeen
  /\ events' = Append(events, Event)
  /\ data' = << >>
  /\ eventType' = << >>
  /\ dataSeen' = FALSE
  /\ LineDone
  /\ UNCHANGED << bomChecked, bomBuf, utf8, lastId, retry, memory, history >>

(* ... or FALSE: the event has been handed over, but nothing is reset.     *)
DispatchAborted ==
  /\ EndsLine(Head(input))
  /\ line = << >>
  /\ dataSeen
  /\ events' = Append(events, Event)
  /\ data' = WithoutFinalLf(data)
  /\ LineFails("ABORT")
  /\ UNCHANGED << bomChecked, bomBuf, utf8, eventType, lastId, dataSeen, retry,
                  memory, history >>

FieldIs(name) ==
  /\ EndsLine(Head(input))
  /\ line # << >>
  /\ FieldName(line) = name

(* sse_handle_data: the value and an LF, appended one after the other, so  *)
(* that the second allocation can fail after the first.                    *)
DataField ==
  /\ FieldIs(DataName)
  /\ LET value  == FieldValue(line)
         n      == Len(data) + Len(value)
         cap1   == NewCap(cap["data"], memUsed, n)
         used1  == UsedAfter(cap["data"], memUsed, n)
     IN  \/ /\ Over(MaxFrame, n + 1)
            /\ LineFails("OVERFLOW_FRAME")
            /\ UNCHANGED << data, dataSeen, memory >>
         \/ /\ ~Over(MaxFrame, n + 1)
            /\ \/ ~Room(cap["data"], memUsed, n) /\ LineFails("OVERFLOW_BUFFER")
               \/ /\ Room(cap["data"], memUsed, n)
                  /\ n > cap["data"]
                  /\ LineFails("NOMEM")
            /\ UNCHANGED << data, dataSeen, memory >>
         \/ /\ ~Over(MaxFrame, n + 1)
            /\ Room(cap["data"], memUsed, n)
            /\ \/ ~Room(cap1, used1, n + 1) /\ LineFails("OVERFLOW_BUFFER")
               \/ /\ Room(cap1, used1, n + 1)
                  /\ n + 1 > cap1
                  /\ LineFails("NOMEM")
            /\ data' = data \o value
            /\ Reserve("data", n)
            /\ UNCHANGED dataSeen
         \/ /\ ~Over(MaxFrame, n + 1)
            /\ Room(cap["data"], memUsed, n)
            /\ Room(cap1, used1, n + 1)
            /\ data' = data \o value \o << LF >>
            /\ dataSeen' = TRUE
            /\ cap' = [cap EXCEPT !["data"] = NewCap(cap1, used1, n + 1)]
            /\ memUsed' = UsedAfter(cap1, used1, n + 1)
            /\ LineDone
  /\ UNCHANGED << bomChecked, bomBuf, utf8, eventType, lastId, retry, history, events >>

(* sse_buf_set of buffer b to value, next being its primed bytes: the old  *)
(* bytes are gone even when there is no room for the new ones.             *)
SetBuffer(b, next, value) ==
  \/ /\ ~Room(cap[b], memUsed, Len(value))
     /\ next = << >>
     /\ LineFails("OVERFLOW_BUFFER")
     /\ UNCHANGED memory
  \/ /\ Room(cap[b], memUsed, Len(value))
     /\ Len(value) > cap[b]
     /\ next = << >>
     /\ LineFails("NOMEM")
     /\ UNCHANGED memory
  \/ /\ Room(cap[b], memUsed, Len(value))
     /\ next = value
     /\ Reserve(b, Len(value))
     /\ LineDone

EventField ==
  /\ FieldIs(EventName)
  /\ SetBuffer("event_type", eventType', FieldValue(line))
  /\ UNCHANGED << bomChecked, bomBuf, utf8, data, lastId, dataSeen, retry, history,
                  events >>

(* sse_handle_id: an id with a NUL in it is ignored.                       *)
IdField ==
  /\ FieldIs(IdName)
  /\ LET value == FieldValue(line)
     IN  \/ /\ \A i \in 1 .. Len(value) : value[i] # 0
            /\ SetBuffer("last_event_id", lastId', value)
         \/ /\ \E i \in 1 .. Len(value) : value[i] = 0
            /\ LineDone
            /\ UNCHANGED << lastId, memory >>
  /\ UNCHANGED << bomChecked, bomBuf, utf8, data, eventType, dataSeen, retry, history,
                  events >>

RetryField ==
  /\ FieldIs(RetryName)
  /\ retry' = IF RetryValid(FieldValue(line)) THEN Decimal(FieldValue(line)) ELSE retry
  /\ LineDone
  /\ UNCHANGED << bomChecked, bomBuf, utf8, data, eventType, lastId, dataSeen, memory,
                  history, events >>

(* A comment, whose field name is empty, or a field nobody knows.          *)
OtherLine ==
  /\ EndsLine(Head(input))
  /\ line # << >>
  /\ FieldName(line) \notin {DataName, EventName, IdName, RetryName}
  /\ LineDone
  /\ UNCHANGED << bomChecked, bomBuf, utf8, frame, memory, history, events >>

-----------------------------------------------------------------------------
Process ==
  /\ input # << >>
  /\ \/ HoldBom \/ DropBom \/ ReplayBom
     \/ SkipLf \/ BreakSequence \/ ContinueSequence \/ StartByte
     \/ FrameAborted \/ BlankLine \/ Dispatch \/ DispatchAborted
     \/ DataField \/ EventField \/ IdField \/ RetryField \/ OtherLine

Next == Process \/ \E chunk \in Chunks : Feed(chunk)

Spec == Init /\ [][Next]_vars

(* sse_feed is a loop: the processor finishes it.                          *)
FairSpec == Spec /\ WF_vars(Process)

-----------------------------------------------------------------------------
(***************************************************************************)
(* Properties.                                                             *)
(***************************************************************************)

(* Type invariant of the parser's state.                                   *)
TypeOK ==
  /\ input \in Seq(Byte)
  /\ bomChecked \in BOOLEAN
  /\ bomBuf \in BomPrefixes \cup {<< >>}
  /\ pendingCr \in BOOLEAN
  /\ utf8 \in Seq(Byte)
  /\ line \in Seq(Byte)
  /\ data \in Seq(Byte)
  /\ eventType \in Seq(Byte)
  /\ lastId \in Seq(Byte)
  /\ dataSeen \in BOOLEAN
  /\ retry \in Nat \cup {NoRetry}
  /\ cap \in [Buffers -> Nat]
  /\ memUsed \in Nat
  /\ total \in Nat
  /\ fed \in Seq(Byte)
  /\ feeds \in Nat
  /\ lastError \in Errors \cup {OK}

(* mem_used is the sum of the four capacities, so that the subtraction in  *)
(* sse_buf_reserve never wraps, every buffer holds no more bytes than were *)
(* allocated for it, and all four together stay within                     *)
(* max_sse_buffer_bytes.                                                   *)
MemoryAccounted ==
  /\ memUsed = cap["line"] + cap["data"] + cap["event_type"] + cap["last_event_id"]
  /\ Len(line) <= cap["line"]
  /\ Len(data) <= cap["data"]
  /\ Len(eventType) <= cap["event_type"]
  /\ Len(lastId) <= cap["last_event_id"]
  /\ MaxBuffer > 0 => memUsed <= MaxBuffer

(* What the parser keeps of a stream is within the caller's limits, bytes  *)
(* counted after decoding, and the count of bytes seen never passes        *)
(* max_total_bytes, so that the subtraction in sse_feed never wraps.       *)
WithinLimits ==
  /\ MaxLine > 0 => Len(line) <= MaxLine
  /\ MaxFrame > 0 => Len(data) <= MaxFrame
  /\ MaxTotal > 0 => total <= MaxTotal

(* An error is final: sse_feed returns it for good, and a parser in error  *)
(* hands over no event and changes nothing else.                           *)
ErrorIsFinal == [][lastError # OK => UNCHANGED vars]_vars

(* Every sse_feed returns: neither replaying the bytes held for the BOM    *)
(* nor looking at a byte afresh goes on for ever.                          *)
FeedReturns == input # << >> ~> input = << >>

=============================================================================
