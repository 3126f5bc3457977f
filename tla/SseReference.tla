----------------------------- MODULE SseReference -----------------------------
(***************************************************************************)
(* What a whole Server-Sent-Events stream means, defined without looking   *)
(* at the parser: decode the bytes, split the text into lines, the lines   *)
(* into blocks, and read one event off every block.  The invariants at the *)
(* end say that the incremental parser computes just that, whatever chunks *)
(* the stream arrives in.                                                  *)
(***************************************************************************)
EXTENDS SseParser, SequencesExt

(***************************************************************************)
(* Text.  Well-formed UTF-8 is given by the table of the Unicode standard; *)
(* a lead byte with the continuation bytes behind it that is not           *)
(* well-formed, and any other stray byte, reads as one U+FFFD.             *)
(***************************************************************************)
Tails == 128 .. 191

WellFormed(s) ==
  \/ Len(s) = 1 /\ s[1] < 128
  \/ Len(s) = 2 /\ s[1] \in 194 .. 223 /\ s[2] \in Tails
  \/ /\ Len(s) = 3
     /\ s[3] \in Tails
     /\ \/ s[1] = 224 /\ s[2] \in 160 .. 191
        \/ s[1] \in (225 .. 236) \cup {238, 239} /\ s[2] \in Tails
        \/ s[1] = 237 /\ s[2] \in 128 .. 159
  \/ /\ Len(s) = 4
     /\ s[3] \in Tails /\ s[4] \in Tails
     /\ \/ s[1] = 240 /\ s[2] \in 144 .. 191
        \/ s[1] \in 241 .. 243 /\ s[2] \in Tails
        \/ s[1] = 244 /\ s[2] \in 128 .. 143

Claimed(b) == CASE b \in 194 .. 223 -> 2
                [] b \in 224 .. 239 -> 3
                [] b \in 240 .. 244 -> 4
                [] OTHER            -> 1

(* How many bytes from the start of s are read as one.                     *)
GroupLength(s) ==
  CHOOSE n \in 1 .. Claimed(s[1]) :
    /\ n <= Len(s)
    /\ \A i \in 2 .. n : s[i] \in Tails
    /\ n < Claimed(s[1]) /\ n < Len(s) => s[n + 1] \notin Tails

Text[s \in Seq(Byte)] ==
  IF s = << >> THEN << >>
  ELSE LET n     == GroupLength(s)
           group == SubSeq(s, 1, n)
           rest  == SubSeq(s, n + 1, Len(s))
       IN  IF rest = << >> /\ n < Claimed(s[1]) THEN << >>   \* still incomplete
           ELSE (IF WellFormed(group) THEN group ELSE Replacement) \o Text[rest]

AfterBom(s) ==
  IF IsPrefix(BOM, s) THEN SubSeq(s, 4, Len(s))
  ELSE IF IsStrictPrefix(s, BOM) THEN << >>                  \* still undecided
  ELSE s

StreamText(bytes) == Text[AfterBom(bytes)]

(***************************************************************************)
(* Lines: CR LF, CR and LF all end one.  The last line of a text is the    *)
(* one that has not ended.                                                 *)
(***************************************************************************)
LinesOf[t \in Seq(Byte)] ==
  IF t = << >> THEN << << >> >>
  ELSE LET before == Front(t)
           lines  == LinesOf[before]
       IN  IF Last(t) = LF /\ before # << >> /\ Last(before) = CR THEN lines
           ELSE IF Last(t) \in {LF, CR} THEN Append(lines, << >>)
           ELSE Append(Front(lines), Append(Last(lines), Last(t)))

AllLines(bytes)    == LinesOf[StreamText(bytes)]
StreamLines(bytes) == Front(AllLines(bytes))

(***************************************************************************)
(* Fields.                                                                 *)
(***************************************************************************)
HasField(l, name) == l = name \/ IsPrefix(name \o << COLON >>, l)

ValueOf(l, name) ==
  LET rest == SubSeq(l, Len(name) + 2, Len(l))
  IN  IF IsPrefix(<< SPACE >>, rest) THEN Tail(rest) ELSE rest

(* The last value the field has in the lines of these numbers.             *)
LastValue(lines, name, which) ==
  ValueOf(lines[CHOOSE i \in which : \A j \in which : j <= i], name)

Having(lines, name) == {i \in DOMAIN lines : HasField(lines[i], name)}

HasData(lines) == Having(lines, DataName) # {}

StreamId(lines) ==
  LET ids == {i \in Having(lines, IdName) :
                \A k \in DOMAIN ValueOf(lines[i], IdName) : ValueOf(lines[i], IdName)[k] # 0}
  IN  IF ids = {} THEN << >> ELSE LastValue(lines, IdName, ids)

Number[v \in Seq(48 .. 57)] ==
  IF v = << >> THEN 0 ELSE 10 * Number[Front(v)] + (Last(v) - 48)

IsRetry(v) == v # << >> /\ v \in Seq(48 .. 57) /\ Number[v] <= SizeMax

StreamRetry(lines) ==
  LET valid == {i \in Having(lines, RetryName) : IsRetry(ValueOf(lines[i], RetryName))}
  IN  IF valid = {} THEN NoRetry ELSE Number[LastValue(lines, RetryName, valid)]

(***************************************************************************)
(* Events: a block is the lines from one blank line to the next.           *)
(***************************************************************************)
Blanks(lines) == {i \in DOMAIN lines : lines[i] = << >>}

OpenBlock(lines) ==
  SubSeq(lines, 1 + (CHOOSE i \in Blanks(lines) \cup {0} : \A j \in Blanks(lines) : j <= i),
         Len(lines))

(* The values of the data fields, an LF between each and the next.         *)
Joined[block \in Seq(Seq(Byte))] ==
  IF block = << >> THEN << >>
  ELSE LET before == Front(block)
           value  == ValueOf(Last(block), DataName)
       IN  IF ~HasField(Last(block), DataName) THEN Joined[before]
           ELSE IF ~HasData(before) THEN value
           ELSE Joined[before] \o << LF >> \o value

EventType(block) ==
  IF Having(block, EventName) = {} THEN << >>
  ELSE LastValue(block, EventName, Having(block, EventName))

BlockEvent(block, id) ==
  [type |-> IF EventType(block) = << >> THEN Message ELSE EventType(block),
   data |-> Joined[block],
   id   |-> id]

EventsOf[lines \in Seq(Seq(Byte))] ==
  IF lines = << >> THEN << >>
  ELSE LET before == Front(lines)
       IN  IF Last(lines) = << >> /\ HasData(OpenBlock(before))
           THEN Append(EventsOf[before], BlockEvent(OpenBlock(before), StreamId(before)))
           ELSE EventsOf[before]

StreamEvents(bytes) == EventsOf[StreamLines(bytes)]

-----------------------------------------------------------------------------
Returned == input = << >>

(* However a stream is cut into chunks, the events handed over are those   *)
(* of the stream, in order: all of them when sse_feed returned SSE_OK, and *)
(* a prefix of them when it failed, so that a failing or aborted stream    *)
(* never shows an event that was not sent.                                 *)
EventsAreTheStreams ==
  Returned => /\ lastError = OK => events = StreamEvents(fed)
              /\ IsPrefix(events, StreamEvents(fed))

(* Between two calls the parser holds exactly the unfinished part of the   *)
(* stream: its last line, decoded, its last event id and its retry value,  *)
(* whatever UTF-8 sequence, CR LF pair or byte order mark the chunks cut.  *)
KeepsTheRest ==
  Returned /\ lastError = OK =>
    /\ line = Last(AllLines(fed))
    /\ lastId = StreamId(StreamLines(fed))
    /\ retry = StreamRetry(StreamLines(fed))

(* The frame of an unfinished block: its data values, each with an LF.     *)
OpenData(lines) ==
  IF HasData(OpenBlock(lines)) THEN Joined[OpenBlock(lines)] \o << LF >> ELSE << >>

Exceeds(limit, n) == limit > 0 /\ n > limit

(* The limits bite exactly when the stream exceeds them: a stream that is  *)
(* accepted has no line longer than max_line_bytes and no frame larger     *)
(* than max_frame_bytes, a stream refused for one of these has one.        *)
LimitsAreExact ==
  LET lines     == AllLines(fed)
      LongLine  == \E i \in DOMAIN lines : Exceeds(MaxLine, Len(lines[i]))
      LargeData == \E i \in 0 .. Len(lines) - 1 :
                     Exceeds(MaxFrame, Len(OpenData(SubSeq(lines, 1, i))))
  IN  Returned =>
        /\ lastError = OK => ~LongLine /\ ~LargeData
        /\ lastError = "OVERFLOW_LINE" => LongLine
        /\ lastError = "OVERFLOW_FRAME" => LargeData

=============================================================================
