--------------------------- MODULE SseParserProofs ---------------------------
(***************************************************************************)
(* Theorems about the event stream parser, for every set of chunks and all *)
(* limits.  The first part shows that its accounts balance and that it     *)
(* stays within its limits (Inv).  The second part shows that it computes  *)
(* what SseReference says a stream means (StreamInv): that the recursive   *)
(* functions there satisfy their equations, what one byte more makes of a  *)
(* text and one line more of its events, and then, action by action, that  *)
(* the parser follows.  The third part puts the writer at the other end:   *)
(* the lines of what it has sent mean the events that were written         *)
(* (OnWire), and what the parser was fed is the first part of that.        *)
(***************************************************************************)
EXTENDS SseRoundTrip, SequenceTheorems, FiniteSetTheorems, WellFoundedInduction, TLAPS

(* Stretches of a byte sequence are byte sequences.                        *)
LEMMA Bytes ==
  ASSUME NEW s \in Seq(Byte)
  PROVE  /\ \A m, n \in Int : m >= 1 /\ n <= Len(s) => SubSeq(s, m, n) \in Seq(Byte)
         /\ s # << >> => Head(s) \in Byte /\ Tail(s) \in Seq(Byte)
BY SubSeqProperties

(* The bytes of a field's value are bytes of its line.                     *)
LEMMA FieldValueType ==
  ASSUME NEW l \in Seq(Byte)
  PROVE  FieldValue(l) \in Seq(Byte)
<1> DEFINE P == {i \in 1 .. Len(l) : \A j \in 1 .. i : l[j] # COLON}
<1>1. NameLength(l) \in Nat
  <2>1. IsFiniteSet(1 .. Len(l))
    BY FS_Interval
  <2>2. IsFiniteSet(P)
    BY <2>1, FS_Subset
  <2>3. QED
    BY <2>2, FS_CardinalityType DEF NameLength
<1>2. QED
  BY <1>1, Bytes DEF FieldValue

(* What is left of the data when its last LF is dropped is no longer than  *)
(* the data.                                                               *)
LEMMA WithoutFinalLfType ==
  ASSUME NEW d \in Seq(Byte)
  PROVE  /\ WithoutFinalLf(d) \in Seq(Byte)
         /\ Len(WithoutFinalLf(d)) <= Len(d)
BY DEF WithoutFinalLf

(* sse_buf_reserve: a buffer that has room ends up large enough and never  *)
(* smaller than it was, and the sum of all capacities changes by the same  *)
(* amount and stays within the limit.                                      *)
LEMMA Reservation ==
  ASSUME NEW c \in Nat, NEW used \in Nat, NEW needed \in Nat,
         c <= used,
         MaxBuffer > 0 => used <= MaxBuffer,
         Room(c, used, needed)
  PROVE  /\ NewCap(c, used, needed) \in Nat
         /\ NewCap(c, used, needed) >= needed
         /\ NewCap(c, used, needed) >= c
         /\ UsedAfter(c, used, needed) \in Nat
         /\ UsedAfter(c, used, needed) = used - c + NewCap(c, used, needed)
         /\ NewCap(c, used, needed) <= UsedAfter(c, used, needed)
         /\ MaxBuffer > 0 => UsedAfter(c, used, needed) <= MaxBuffer
BY LimitsAssumption, CapacityAssumption
   DEF Room, NewCap, UsedAfter, Doubled, MaxCap, Larger, Smaller

(***************************************************************************)
(* The invariant that is inductive: the subtractions in sse_buf_reserve    *)
(* and sse_feed are only safe because the accounts balance and the total   *)
(* is within its limit, and a parser in error has dropped its chunk.       *)
(***************************************************************************)
Inv ==
  /\ TypeOK
  /\ MemoryAccounted
  /\ WithinLimits
  /\ lastError # OK => input = << >>

(* A new parser satisfies the invariant.                                   *)
LEMMA InitInv == Init => Inv
<1> SUFFICES ASSUME Init PROVE Inv
  OBVIOUS
<1>1. cap = [b \in Buffers |-> 0] /\ Buffers = {"line", "data", "event_type", "last_event_id"}
  BY DEF Init, Buffers
<1>2. << >> \in Seq(Byte)
  OBVIOUS
<1>3. cap \in [Buffers -> Nat]
  BY <1>1
<1>4. TypeOK
  BY <1>2, <1>3 DEF Init, TypeOK
<1>5. MemoryAccounted /\ WithinLimits
  BY <1>1, LimitsAssumption DEF Init, MemoryAccounted, WithinLimits, Over
<1>6. QED
  BY <1>4, <1>5 DEF Init, Inv

(* The accounts still balance after a buffer was made large enough.        *)
LEMMA ReserveBalances ==
  ASSUME TypeOK, MemoryAccounted,
         NEW b \in Buffers, NEW n \in Nat,
         Room(cap[b], memUsed, n), Reserve(b, n)
  PROVE  /\ cap' \in [Buffers -> Nat]
         /\ memUsed' \in Nat
         /\ memUsed' = cap'["line"] + cap'["data"] + cap'["event_type"]
                         + cap'["last_event_id"]
         /\ MaxBuffer > 0 => memUsed' <= MaxBuffer
         /\ cap'[b] >= n
         /\ \A x \in Buffers \ {b} : cap'[x] = cap[x]
<1>1. cap[b] \in Nat /\ memUsed \in Nat /\ cap[b] <= memUsed
  <2>1. cap \in [Buffers -> Nat] /\ Buffers = {"line", "data", "event_type", "last_event_id"}
    BY DEF TypeOK, Buffers
  <2>2. /\ cap["line"] \in Nat /\ cap["data"] \in Nat
        /\ cap["event_type"] \in Nat /\ cap["last_event_id"] \in Nat
    BY <2>1
  <2>3. memUsed = cap["line"] + cap["data"] + cap["event_type"] + cap["last_event_id"]
    BY DEF MemoryAccounted
  <2>4. b \in {"line", "data", "event_type", "last_event_id"}
    BY <2>1
  <2> QED
    BY <2>2, <2>3, <2>4
<1> DEFINE new == NewCap(cap[b], memUsed, n)
<1>2. /\ new \in Nat
      /\ new >= n
      /\ UsedAfter(cap[b], memUsed, n) \in Nat
      /\ UsedAfter(cap[b], memUsed, n) = memUsed - cap[b] + new
      /\ MaxBuffer > 0 => UsedAfter(cap[b], memUsed, n) <= MaxBuffer
  BY <1>1, Reservation DEF MemoryAccounted
<1>3. cap' = [cap EXCEPT ![b] = new] /\ memUsed' = memUsed - cap[b] + new
  BY <1>2 DEF Reserve
<1> HIDE DEF new
<1>4. /\ cap' \in [Buffers -> Nat]
      /\ cap'[b] = new
      /\ \A x \in Buffers \ {b} : cap'[x] = cap[x]
  BY <1>2, <1>3 DEF TypeOK
<1>5. memUsed' = cap'["line"] + cap'["data"] + cap'["event_type"] + cap'["last_event_id"]
  <2>1. \A x \in Buffers : cap[x] \in Nat
    BY DEF TypeOK
  <2>2. memUsed = cap["line"] + cap["data"] + cap["event_type"] + cap["last_event_id"]
    BY DEF MemoryAccounted
  <2>3. \/ b = "line" \/ b = "data" \/ b = "event_type" \/ b = "last_event_id"
    BY DEF Buffers
  <2>4. CASE b = "line"
    BY <1>2, <1>3, <1>4, <2>1, <2>2, <2>4 DEF Buffers
  <2>5. CASE b = "data"
    BY <1>2, <1>3, <1>4, <2>1, <2>2, <2>5 DEF Buffers
  <2>6. CASE b = "event_type"
    BY <1>2, <1>3, <1>4, <2>1, <2>2, <2>6 DEF Buffers
  <2>7. CASE b = "last_event_id"
    BY <1>2, <1>3, <1>4, <2>1, <2>2, <2>7 DEF Buffers
  <2>8. QED
    BY <2>3, <2>4, <2>5, <2>6, <2>7
<1>6. QED
  BY <1>2, <1>3, <1>4, <1>5 DEF Reserve

(* sse_line_append keeps the line within its limit and the accounts in     *)
(* balance, and goes on only without error.                                *)
LEMMA AppendToLineStep ==
  ASSUME Inv, lastError = OK,
         NEW bytes \in Seq(Byte), NEW rest \in Seq(Byte),
         AppendToLine(bytes, rest)
  PROVE  /\ line' \in Seq(Byte)
         /\ cap' \in [Buffers -> Nat]
         /\ memUsed' \in Nat
         /\ memUsed' = cap'["line"] + cap'["data"] + cap'["event_type"]
                         + cap'["last_event_id"]
         /\ MaxBuffer > 0 => memUsed' <= MaxBuffer
         /\ Len(line') <= cap'["line"]
         /\ \A x \in Buffers \ {"line"} : cap'[x] = cap[x]
         /\ MaxLine > 0 => Len(line') <= MaxLine
         /\ input' \in Seq(Byte)
         /\ lastError' \in Errors \cup {OK}
         /\ lastError' # OK => input' = << >>
<1> DEFINE n == Len(line) + Len(bytes)
<1>0. n \in Nat /\ "line" \in Buffers
  BY DEF Inv, TypeOK, Buffers
<1>1. CASE \E e \in Errors : Fail(e) /\ UNCHANGED << line, memory >>
  <2>1. /\ line' = line /\ cap' = cap /\ memUsed' = memUsed
        /\ input' = << >> /\ lastError' \in Errors
    BY <1>1 DEF Fail, memory
  <2>2. /\ line \in Seq(Byte) /\ cap \in [Buffers -> Nat] /\ memUsed \in Nat
    BY DEF Inv, TypeOK
  <2>3. /\ memUsed = cap["line"] + cap["data"] + cap["event_type"] + cap["last_event_id"]
        /\ MaxBuffer > 0 => memUsed <= MaxBuffer
        /\ Len(line) <= cap["line"]
        /\ MaxLine > 0 => Len(line) <= MaxLine
    BY DEF Inv, MemoryAccounted, WithinLimits
  <2> QED
    BY <2>1, <2>2, <2>3
<1>2. CASE /\ ~Over(MaxLine, n)
           /\ Room(cap["line"], memUsed, n)
           /\ line' = line \o bytes
           /\ Reserve("line", n)
           /\ Proceed(rest)
  <2>1. line' \in Seq(Byte) /\ Len(line') = n
    BY <1>2 DEF Inv, TypeOK
  <2> HIDE DEF n
  <2>2. /\ cap' \in [Buffers -> Nat]
        /\ memUsed' \in Nat
        /\ memUsed' = cap'["line"] + cap'["data"] + cap'["event_type"]
                        + cap'["last_event_id"]
        /\ MaxBuffer > 0 => memUsed' <= MaxBuffer
        /\ cap'["line"] >= n
        /\ \A x \in Buffers \ {"line"} : cap'[x] = cap[x]
    BY <1>0, <1>2, ReserveBalances DEF Inv
  <2>3. MaxLine > 0 => Len(line') <= MaxLine
    BY <1>0, <1>2, <2>1, LimitsAssumption DEF Over
  <2>4. QED
    BY <1>0, <1>2, <2>1, <2>2, <2>3 DEF Proceed, Errors, OK, Buffers
<1>3. QED
  BY <1>1, <1>2 DEF AppendToLine, Errors

(* A byte that only moves the decoder on, or adds to the line.             *)
LEMMA DecoderStep ==
  ASSUME Inv, lastError = OK,
         bomChecked' \in BOOLEAN,
         bomBuf' \in BomPrefixes \cup {<< >>},
         pendingCr' \in BOOLEAN,
         utf8' \in Seq(Byte),
         UNCHANGED << frame, history >>,
         \/ /\ \E rest \in Seq(Byte) : Proceed(rest)
            /\ UNCHANGED << line, memory >>
         \/ \E bytes, rest \in Seq(Byte) : AppendToLine(bytes, rest)
  PROVE  Inv'
<1>1. /\ line' \in Seq(Byte)
      /\ cap' \in [Buffers -> Nat]
      /\ memUsed' \in Nat
      /\ memUsed' = cap'["line"] + cap'["data"] + cap'["event_type"]
                      + cap'["last_event_id"]
      /\ MaxBuffer > 0 => memUsed' <= MaxBuffer
      /\ Len(line') <= cap'["line"]
      /\ \A x \in Buffers \ {"line"} : cap'[x] = cap[x]
      /\ MaxLine > 0 => Len(line') <= MaxLine
      /\ input' \in Seq(Byte)
      /\ lastError' \in Errors \cup {OK}
      /\ lastError' # OK => input' = << >>
  <2>1. CASE /\ \E rest \in Seq(Byte) : Proceed(rest)
             /\ UNCHANGED << line, memory >>
    BY <2>1 DEF Proceed, memory, Inv, TypeOK, MemoryAccounted, WithinLimits
  <2>2. CASE \E bytes, rest \in Seq(Byte) : AppendToLine(bytes, rest)
    BY <2>2, AppendToLineStep
  <2>3. QED
    BY <2>1, <2>2
<1>2. TypeOK'
  BY <1>1 DEF Inv, TypeOK, frame, history
<1>3. MemoryAccounted'
  BY <1>1 DEF Inv, MemoryAccounted, frame, Buffers
<1>4. WithinLimits'
  BY <1>1 DEF Inv, WithinLimits, frame, history
<1>5. QED
  BY <1>1, <1>2, <1>3, <1>4 DEF Inv

(* The end of a line: it is emptied, or kept by a parser that fails.       *)
LEMMA LineEnd ==
  ASSUME Inv, lastError = OK, input # << >>,
         LineDone \/ \E e \in Errors : LineFails(e)
  PROVE  /\ line' \in Seq(Byte)
         /\ Len(line') <= Len(line)
         /\ MaxLine > 0 => Len(line') <= MaxLine
         /\ pendingCr' \in BOOLEAN
         /\ input' \in Seq(Byte)
         /\ lastError' \in Errors \cup {OK}
         /\ lastError' # OK => input' = << >>
<1>1. CASE LineDone
  <2>1. pendingCr' \in BOOLEAN
    BY <1>1, Zenon DEF LineDone
  <2>2. line' = << >> /\ input' = Tail(input) /\ lastError' = OK
    BY <1>1 DEF LineDone, Proceed
  <2>3. Tail(input) \in Seq(Byte)
    BY Bytes DEF Inv, TypeOK
  <2>4. line' \in Seq(Byte) /\ Len(line') = 0 /\ Len(line) \in Nat
    BY <2>2 DEF Inv, TypeOK
  <2>5. QED
    BY <2>1, <2>2, <2>3, <2>4, LimitsAssumption DEF Over
<1>2. CASE \E e \in Errors : LineFails(e)
  <2>1. line' = line /\ pendingCr' = FALSE /\ input' = << >> /\ lastError' \in Errors
    BY <1>2, Zenon DEF LineFails, Fail
  <2>2. line \in Seq(Byte) /\ Len(line) \in Nat /\ (MaxLine > 0 => Len(line) <= MaxLine)
    BY DEF Inv, TypeOK, WithinLimits
  <2>3. pendingCr' \in BOOLEAN
    BY <2>1, Zenon
  <2>4. << >> \in Seq(Byte)
    OBVIOUS
  <2>5. QED
    BY <2>1, <2>2, <2>3, <2>4
<1>3. QED
  BY <1>1, <1>2

(* A line that changes neither the data nor the accounts.                  *)
LEMMA PlainLine ==
  ASSUME Inv, lastError = OK, input # << >>,
         LineDone \/ \E e \in Errors : LineFails(e),
         UNCHANGED << bomChecked, bomBuf, utf8, memory, history >>,
         data' \in Seq(Byte), Len(data') <= Len(data),
         eventType' \in Seq(Byte), Len(eventType') <= Len(eventType),
         lastId' = lastId,
         dataSeen' \in BOOLEAN,
         retry' \in Nat \cup {NoRetry}
  PROVE  Inv'
<1>1. TypeOK'
  BY LineEnd DEF Inv, TypeOK, memory, history
<1>2. MemoryAccounted'
  <2>1. /\ Len(line') \in Nat /\ Len(data') \in Nat /\ Len(eventType') \in Nat
        /\ Len(line) \in Nat /\ Len(data) \in Nat /\ Len(eventType) \in Nat
        /\ cap["line"] \in Nat /\ cap["data"] \in Nat /\ cap["event_type"] \in Nat
    BY LineEnd DEF Inv, TypeOK, Buffers
  <2>2. QED
    BY <2>1, LineEnd DEF Inv, MemoryAccounted, memory
<1>3. WithinLimits'
  BY LineEnd, LimitsAssumption DEF Inv, TypeOK, WithinLimits, Over, history
<1>4. QED
  BY <1>1, <1>2, <1>3, LineEnd DEF Inv

(* sse_buf_set: the buffer holds the new value, or nothing.                *)
LEMMA SetBufferStep ==
  ASSUME Inv, lastError = OK,
         NEW b \in Buffers, NEW next, NEW value \in Seq(Byte),
         SetBuffer(b, next, value)
  PROVE  /\ LineDone \/ \E e \in Errors : LineFails(e)
         /\ next \in Seq(Byte)
         /\ cap' \in [Buffers -> Nat]
         /\ memUsed' \in Nat
         /\ memUsed' = cap'["line"] + cap'["data"] + cap'["event_type"]
                         + cap'["last_event_id"]
         /\ MaxBuffer > 0 => memUsed' <= MaxBuffer
         /\ Len(next) <= cap'[b]
         /\ \A x \in Buffers \ {b} : cap'[x] = cap[x]
<1>1. CASE /\ \E e \in Errors : LineFails(e)
           /\ next = << >>
           /\ UNCHANGED memory
  <2>1. cap \in [Buffers -> Nat] /\ memUsed \in Nat
    BY DEF Inv, TypeOK
  <2>2. cap[b] \in Nat /\ Len(next) = 0 /\ next \in Seq(Byte)
    BY <1>1, <2>1
  <2>3. cap' = cap /\ memUsed' = memUsed
    BY <1>1 DEF memory
  <2>4. /\ memUsed = cap["line"] + cap["data"] + cap["event_type"] + cap["last_event_id"]
        /\ MaxBuffer > 0 => memUsed <= MaxBuffer
    BY DEF Inv, MemoryAccounted
  <2>5. QED
    BY <1>1, <2>1, <2>2, <2>3, <2>4
<1>2. CASE /\ Room(cap[b], memUsed, Len(value))
           /\ next = value
           /\ Reserve(b, Len(value))
           /\ LineDone
  BY <1>2, ReserveBalances DEF Inv
<1>3. QED
  BY <1>1, <1>2 DEF SetBuffer, Errors

(* sse_handle_data, with its two allocations.                              *)
LEMMA DataFieldStep ==
  ASSUME Inv, lastError = OK, input # << >>, DataField
  PROVE  Inv'
<1> DEFINE value == FieldValue(line)
           n     == Len(data) + Len(value)
           cap1  == NewCap(cap["data"], memUsed, n)
           used1 == UsedAfter(cap["data"], memUsed, n)
<1>1. value \in Seq(Byte) /\ n \in Nat /\ Len(data) \in Nat /\ "data" \in Buffers
  BY FieldValueType DEF Inv, TypeOK, Buffers
<1>2. cap["data"] \in Nat /\ memUsed \in Nat /\ cap["data"] <= memUsed
  BY DEF Inv, TypeOK, MemoryAccounted, Buffers
<1>3. UNCHANGED << bomChecked, bomBuf, utf8, eventType, lastId, retry, history, events >>
  BY DEF DataField
<1>4. \/ /\ \E e \in Errors : LineFails(e)
         /\ UNCHANGED << data, dataSeen, memory >>
      \/ /\ ~Over(MaxFrame, n + 1)
         /\ Room(cap["data"], memUsed, n)
         /\ \E e \in Errors : LineFails(e)
         /\ data' = data \o value
         /\ Reserve("data", n)
         /\ UNCHANGED dataSeen
      \/ /\ ~Over(MaxFrame, n + 1)
         /\ Room(cap["data"], memUsed, n)
         /\ Room(cap1, used1, n + 1)
         /\ data' = data \o value \o << LF >>
         /\ dataSeen' = TRUE
         /\ cap' = [cap EXCEPT !["data"] = NewCap(cap1, used1, n + 1)]
         /\ memUsed' = UsedAfter(cap1, used1, n + 1)
         /\ LineDone
  BY Zenon DEF DataField, Errors
<1>5. CASE /\ \E e \in Errors : LineFails(e)
           /\ UNCHANGED << data, dataSeen, memory >>
  BY <1>1, <1>3, <1>5, PlainLine DEF Inv, TypeOK
<1>6. ASSUME data' \in Seq(Byte), dataSeen' \in BOOLEAN, MaxFrame > 0 => Len(data') <= MaxFrame,
             Len(data') <= cap'["data"],
             cap' \in [Buffers -> Nat],
             memUsed' \in Nat,
             memUsed' = cap'["line"] + cap'["data"] + cap'["event_type"]
                          + cap'["last_event_id"],
             MaxBuffer > 0 => memUsed' <= MaxBuffer,
             \A x \in Buffers \ {"data"} : cap'[x] = cap[x],
             LineDone \/ \E e \in Errors : LineFails(e)
      PROVE  Inv'
  <2>1. TypeOK'
    BY <1>3, <1>6, LineEnd DEF Inv, TypeOK, history
  <2>2. MemoryAccounted'
    <3>1. /\ cap'["line"] = cap["line"]
          /\ cap'["event_type"] = cap["event_type"]
          /\ cap'["last_event_id"] = cap["last_event_id"]
      BY <1>6 DEF Buffers
    <3>2. cap["line"] \in Nat /\ Len(line) \in Nat /\ line' \in Seq(Byte)
      BY <1>6, LineEnd DEF Inv, TypeOK, Buffers
    <3>3. Len(line') \in Nat /\ Len(line') <= cap'["line"]
      BY <3>1, <3>2, <1>6, LineEnd DEF Inv, MemoryAccounted
    <3>4. QED
      BY <3>1, <3>3, <1>3, <1>6 DEF Inv, MemoryAccounted
  <2>3. WithinLimits'
    BY <1>3, <1>6, LineEnd DEF Inv, WithinLimits, history
  <2>4. QED
    BY <2>1, <2>2, <2>3, LineEnd, <1>6 DEF Inv
<1>7. CASE /\ ~Over(MaxFrame, n + 1)
           /\ Room(cap["data"], memUsed, n)
           /\ \E e \in Errors : LineFails(e)
           /\ data' = data \o value
           /\ Reserve("data", n)
           /\ UNCHANGED dataSeen
  <2>1. data' \in Seq(Byte) /\ Len(data') = n
    BY <1>1, <1>7 DEF Inv, TypeOK
  <2>2. MaxFrame > 0 => n <= MaxFrame
    BY <1>1, <1>7, LimitsAssumption DEF Over
  <2>3. dataSeen' \in BOOLEAN
    BY <1>7 DEF Inv, TypeOK
  <2> HIDE DEF n
  <2>4. QED
    BY <1>1, <1>6, <1>7, <2>1, <2>2, <2>3, ReserveBalances DEF Inv
<1>8. CASE /\ ~Over(MaxFrame, n + 1)
           /\ Room(cap["data"], memUsed, n)
           /\ Room(cap1, used1, n + 1)
           /\ data' = data \o value \o << LF >>
           /\ dataSeen' = TRUE
           /\ cap' = [cap EXCEPT !["data"] = NewCap(cap1, used1, n + 1)]
           /\ memUsed' = UsedAfter(cap1, used1, n + 1)
           /\ LineDone
  <2>1. data' \in Seq(Byte) /\ Len(data') = n + 1
    BY <1>1, <1>8 DEF Inv, TypeOK, LF, Byte
  <2> DEFINE cap2 == NewCap(cap1, used1, n + 1)
  <2> HIDE DEF n
  <2>2. /\ cap1 \in Nat /\ used1 \in Nat
        /\ cap1 <= used1
        /\ used1 = memUsed - cap["data"] + cap1
        /\ MaxBuffer > 0 => used1 <= MaxBuffer
    BY <1>1, <1>2, <1>8, Reservation DEF Inv, MemoryAccounted
  <2> HIDE DEF cap1, used1
  <2>3. /\ cap2 \in Nat /\ cap2 >= n + 1
        /\ memUsed' \in Nat
        /\ memUsed' = used1 - cap1 + cap2
        /\ MaxBuffer > 0 => memUsed' <= MaxBuffer
    BY <1>1, <1>8, <2>2, Reservation
  <2> HIDE DEF cap2
  <2>4. /\ cap' = [cap EXCEPT !["data"] = cap2]
        /\ cap' \in [Buffers -> Nat]
        /\ cap'["data"] = cap2
        /\ \A x \in Buffers \ {"data"} : cap'[x] = cap[x]
    BY <1>1, <1>8, <2>3 DEF Inv, TypeOK, cap2
  <2>5. memUsed' = cap'["line"] + cap'["data"] + cap'["event_type"] + cap'["last_event_id"]
    <3>1. /\ cap["line"] \in Nat /\ cap["event_type"] \in Nat
          /\ cap["last_event_id"] \in Nat
      BY DEF Inv, TypeOK, Buffers
    <3>2. /\ cap'["line"] = cap["line"]
          /\ cap'["event_type"] = cap["event_type"]
          /\ cap'["last_event_id"] = cap["last_event_id"]
      BY <2>4 DEF Buffers
    <3>3. memUsed = cap["line"] + cap["data"] + cap["event_type"] + cap["last_event_id"]
      BY DEF Inv, MemoryAccounted
    <3>4. memUsed' = memUsed - cap["data"] + cap2
      BY <1>2, <2>2, <2>3
    <3>5. cap'["data"] = cap2 /\ cap2 \in Nat
      BY <2>3, <2>4
    <3>6. QED
      BY <1>2, <3>1, <3>2, <3>3, <3>4, <3>5, SMTT(60)
  <2>6. MaxFrame > 0 => n + 1 <= MaxFrame
    BY <1>1, <1>8, LimitsAssumption DEF Over
  <2>7. QED
    BY <1>6, <1>8, <2>1, <2>3, <2>4, <2>5, <2>6
<1>9. QED
  BY <1>4, <1>5, <1>7, <1>8

(* sse_handle_event and sse_handle_id.                                     *)
LEMMA EventFieldStep ==
  ASSUME Inv, lastError = OK, input # << >>, EventField
  PROVE  Inv'
<1>1. /\ UNCHANGED << bomChecked, bomBuf, utf8, data, lastId, dataSeen, retry, history >>
      /\ SetBuffer("event_type", eventType', FieldValue(line))
  BY DEF EventField
<1>2. /\ LineDone \/ \E e \in Errors : LineFails(e)
      /\ eventType' \in Seq(Byte)
      /\ cap' \in [Buffers -> Nat]
      /\ memUsed' \in Nat
      /\ memUsed' = cap'["line"] + cap'["data"] + cap'["event_type"]
                      + cap'["last_event_id"]
      /\ MaxBuffer > 0 => memUsed' <= MaxBuffer
      /\ Len(eventType') <= cap'["event_type"]
      /\ \A x \in Buffers \ {"event_type"} : cap'[x] = cap[x]
  <2>1. FieldValue(line) \in Seq(Byte) /\ "event_type" \in Buffers
    BY FieldValueType DEF Inv, TypeOK, Buffers
  <2>2. QED
    BY <1>1, <2>1, SetBufferStep
<1>3. TypeOK'
  BY <1>1, <1>2, LineEnd DEF Inv, TypeOK, history
<1>4. MemoryAccounted'
  <2>1. /\ cap'["line"] = cap["line"]
        /\ cap'["data"] = cap["data"]
        /\ cap'["last_event_id"] = cap["last_event_id"]
    BY <1>2 DEF Buffers
  <2>2. cap["line"] \in Nat /\ Len(line) \in Nat /\ line' \in Seq(Byte)
    BY <1>2, LineEnd DEF Inv, TypeOK, Buffers
  <2>3. Len(line') \in Nat /\ Len(line') <= cap'["line"]
    BY <1>2, <2>1, <2>2, LineEnd DEF Inv, MemoryAccounted
  <2>4. QED
    BY <1>1, <1>2, <2>1, <2>3 DEF Inv, MemoryAccounted
<1>5. WithinLimits'
  BY <1>1, <1>2, LineEnd DEF Inv, WithinLimits, history
<1>6. QED
  BY <1>2, <1>3, <1>4, <1>5, LineEnd DEF Inv

(* An id field sets the last event id or leaves it.                        *)
LEMMA IdFieldStep ==
  ASSUME Inv, lastError = OK, input # << >>, IdField
  PROVE  Inv'
<1>1. UNCHANGED << bomChecked, bomBuf, utf8, data, eventType, dataSeen, retry, history >>
  BY DEF IdField
<1>2. CASE LineDone /\ UNCHANGED << lastId, memory >>
  BY <1>1, <1>2, PlainLine DEF Inv, TypeOK
<1>3. CASE SetBuffer("last_event_id", lastId', FieldValue(line))
  <2>1. FieldValue(line) \in Seq(Byte) /\ "last_event_id" \in Buffers
    BY FieldValueType DEF Inv, TypeOK, Buffers
  <2>2. /\ LineDone \/ \E e \in Errors : LineFails(e)
        /\ lastId' \in Seq(Byte)
        /\ cap' \in [Buffers -> Nat]
        /\ memUsed' \in Nat
        /\ memUsed' = cap'["line"] + cap'["data"] + cap'["event_type"]
                        + cap'["last_event_id"]
        /\ MaxBuffer > 0 => memUsed' <= MaxBuffer
        /\ Len(lastId') <= cap'["last_event_id"]
        /\ \A x \in Buffers \ {"last_event_id"} : cap'[x] = cap[x]
    BY <1>3, <2>1, SetBufferStep
  <2>3. TypeOK'
    BY <1>1, <2>2, LineEnd DEF Inv, TypeOK, history
  <2>4. MemoryAccounted'
    <3>1. /\ cap'["line"] = cap["line"]
          /\ cap'["data"] = cap["data"]
          /\ cap'["event_type"] = cap["event_type"]
      BY <2>2 DEF Buffers
    <3>2. cap["line"] \in Nat /\ Len(line) \in Nat /\ line' \in Seq(Byte)
      BY <2>2, LineEnd DEF Inv, TypeOK, Buffers
    <3>3. Len(line') \in Nat /\ Len(line') <= cap'["line"]
      BY <2>2, <3>1, <3>2, LineEnd DEF Inv, MemoryAccounted
    <3>4. QED
      BY <1>1, <2>2, <3>1, <3>3 DEF Inv, MemoryAccounted
  <2>5. WithinLimits'
    BY <1>1, <2>2, LineEnd DEF Inv, WithinLimits, history
  <2>6. QED
    BY <2>2, <2>3, <2>4, <2>5, LineEnd DEF Inv
<1>4. QED
  BY <1>2, <1>3 DEF IdField

(* sse_feed up to its loop.                                                *)
LEMMA FeedStep ==
  ASSUME Inv, NEW chunk \in Seq(Byte), Feed(chunk)
  PROVE  Inv'
<1>1. chunk \in Seq(Byte) /\ Len(chunk) \in Nat
  BY LenProperties
<1>2. CASE FeedIgnored(chunk)
  BY <1>2 DEF FeedIgnored, Inv, TypeOK, MemoryAccounted, WithinLimits, vars, decoder,
              frame, memory, history
<1>3. CASE FeedOverTotal(chunk)
  <2>1. /\ UNCHANGED << decoder, line, frame, memory, history >>
        /\ input' = << >>
        /\ lastError' \in Errors
    BY <1>3 DEF FeedOverTotal, Fail, Errors
  <2>2. << >> \in Seq(Byte)
    OBVIOUS
  <2>3. TypeOK'
    BY <2>1, <2>2 DEF Inv, TypeOK, decoder, frame, memory, history
  <2>4. QED
    BY <2>1, <2>3 DEF Inv, MemoryAccounted, WithinLimits, decoder, frame, memory, history
<1>4. CASE FeedAccepted(chunk)
  <2>1. /\ UNCHANGED << decoder, line, frame, memory, lastError >>
        /\ input' = chunk
        /\ total' = total + Len(chunk)
        /\ MaxTotal = 0 \/ Len(chunk) <= MaxTotal - total
        /\ fed' = fed \o chunk
        /\ feeds' = feeds + 1
        /\ lastError = OK
    BY <1>4 DEF FeedAccepted
  <2>2. /\ fed' \in Seq(Byte) /\ feeds' \in Nat /\ total' \in Nat
        /\ MaxTotal > 0 => total' <= MaxTotal
    BY <1>1, <2>1, LimitsAssumption DEF Inv, TypeOK
  <2>3. TypeOK'
    BY <1>1, <2>1, <2>2 DEF Inv, TypeOK, decoder, frame, memory
  <2>4. MemoryAccounted' /\ WithinLimits'
    BY <2>1, <2>2 DEF Inv, MemoryAccounted, WithinLimits, frame, memory
  <2>5. QED
    BY <2>1, <2>3, <2>4 DEF Inv
<1>5. QED
  BY <1>2, <1>3, <1>4 DEF Feed

(* sse_process_byte.                                                       *)
LEMMA ProcessStep ==
  ASSUME Inv, Process
  PROVE  Inv'
<1>1. input # << >> /\ lastError = OK
  BY DEF Process, Inv
<1>2. /\ input \in Seq(Byte)
      /\ Head(input) \in Byte
      /\ Tail(input) \in Seq(Byte)
      /\ Len(data) \in Nat /\ Len(eventType) \in Nat
      /\ << >> \in Seq(Byte)
  BY <1>1, Bytes DEF Inv, TypeOK
<1>3. Replacement \in Seq(Byte)
  BY DEF Replacement, Byte
<1>4. CASE HoldBom
  <2>1. bomBuf' \in BomPrefixes \cup {<< >>}
    BY <1>4, Zenon DEF HoldBom
  <2>2. QED
    BY <1>1, <1>2, <1>4, <2>1, DecoderStep DEF HoldBom, Inv, TypeOK
<1>5. CASE DropBom
  BY <1>1, <1>2, <1>5, DecoderStep DEF DropBom, Inv, TypeOK
<1>6. CASE ReplayBom
  <2>1. bomBuf \in Seq(Byte)
    <3>1. << 239 >> \in Seq(Byte) /\ << 239, 187 >> \in Seq(Byte)
      BY DEF Byte
    <3>2. QED
      BY <1>2, <3>1, ZenonT(60) DEF Inv, TypeOK, BomPrefixes
  <2>2. bomBuf \o input \in Seq(Byte)
    BY <1>2, <2>1
  <2>3. QED
    BY <1>1, <1>2, <1>6, <2>2, DecoderStep DEF ReplayBom, Inv, TypeOK
<1>7. CASE SkipLf
  BY <1>1, <1>2, <1>7, DecoderStep DEF SkipLf, Inv, TypeOK
<1>8. CASE BreakSequence
  BY <1>1, <1>2, <1>3, <1>8, DecoderStep DEF BreakSequence, Inv, TypeOK
<1>9. CASE ContinueSequence
  <2>1. Append(utf8, Head(input)) \in Seq(Byte)
    BY <1>2 DEF Inv, TypeOK
  <2>2. QED
    BY <1>1, <1>2, <1>3, <1>9, <2>1, DecoderStep DEF ContinueSequence, Inv, TypeOK
<1>10. CASE StartByte
  <2>1. << Head(input) >> \in Seq(Byte)
    BY <1>2
  <2>2. QED
    BY <1>1, <1>2, <1>3, <1>10, <2>1, DecoderStep DEF StartByte, Inv, TypeOK
<1>11. CASE FrameAborted
  BY <1>1, <1>2, <1>11, PlainLine DEF FrameAborted, Inv, TypeOK, frame, Errors
<1>12. CASE BlankLine
  BY <1>1, <1>2, <1>12, PlainLine DEF BlankLine, Inv, TypeOK
<1>13. CASE Dispatch
  <2>1. /\ UNCHANGED << bomChecked, bomBuf, utf8, lastId, retry, memory, history >>
        /\ data' = << >> /\ eventType' = << >>
        /\ LineDone
    BY <1>13 DEF Dispatch
  <2>2. dataSeen' \in BOOLEAN
    BY <1>13, Zenon DEF Dispatch
  <2>3. QED
    BY <1>1, <1>2, <2>1, <2>2, PlainLine DEF Inv, TypeOK
<1>14. CASE DispatchAborted
  BY <1>1, <1>2, <1>14, PlainLine, WithoutFinalLfType
     DEF DispatchAborted, Inv, TypeOK, Errors
<1>15. CASE DataField
  BY <1>1, <1>15, DataFieldStep
<1>16. CASE EventField
  BY <1>1, <1>16, EventFieldStep
<1>17. CASE IdField
  BY <1>1, <1>17, IdFieldStep
<1>18. CASE RetryField
  <2>1. retry' \in Nat \cup {NoRetry}
    BY <1>18, CapacityAssumption DEF RetryField, RetryValid, Inv, TypeOK
  <2>2. QED
    BY <1>1, <1>2, <1>18, <2>1, PlainLine DEF RetryField, Inv, TypeOK
<1>19. CASE OtherLine
  BY <1>1, <1>2, <1>19, PlainLine DEF OtherLine, Inv, TypeOK, frame
<1>20. QED
  BY <1>4, <1>5, <1>6, <1>7, <1>8, <1>9, <1>10, <1>11, <1>12, <1>13, <1>14, <1>15,
     <1>16, <1>17, <1>18, <1>19 DEF Process

(* Every step keeps it.                                                    *)
LEMMA NextInv == Inv /\ [Next]_vars => Inv'
<1> SUFFICES ASSUME Inv, [Next]_vars PROVE Inv'
  OBVIOUS
<1>1. CASE UNCHANGED vars
  BY <1>1 DEF Inv, TypeOK, MemoryAccounted, WithinLimits, vars, decoder, frame, memory,
              history
<1>2. CASE Next
  BY <1>2, FeedStep, ProcessStep, ChunksAssumption DEF Next
<1>3. QED
  BY <1>1, <1>2

(* The invariant holds in every reachable state.                           *)
THEOREM Invariance == Spec => []Inv
BY InitInv, NextInv, PTL DEF Spec

(***************************************************************************)
(* The theorems.                                                           *)
(***************************************************************************)

(* The parser's state has its type in every reachable state.               *)
THEOREM TypeCorrect == Spec => []TypeOK
<1>1. Inv => TypeOK
  BY DEF Inv
<1>2. QED
  BY <1>1, Invariance, PTL

(* sse_buf_reserve's accounts always balance: mem_used is the sum of the   *)
(* capacities, no buffer overruns its own, and all of them together stay   *)
(* within max_sse_buffer_bytes, also when an allocation fails half-way.    *)
THEOREM MemoryAlwaysAccounted == Spec => []MemoryAccounted
<1>1. Inv => MemoryAccounted
  BY DEF Inv
<1>2. QED
  BY <1>1, Invariance, PTL

(* No line, frame or stream the parser keeps exceeds its limit.            *)
THEOREM LimitsHold == Spec => []WithinLimits
<1>1. Inv => WithinLimits
  BY DEF Inv
<1>2. QED
  BY <1>1, Invariance, PTL

(* Once sse_feed has failed, nothing of the parser ever changes again.     *)
THEOREM ErrorsAreFinal == Spec => ErrorIsFinal
<1>1. Inv /\ [Next]_vars => [lastError # OK => UNCHANGED vars]_vars
  <2> SUFFICES ASSUME Inv, Next, lastError # OK PROVE UNCHANGED vars
    OBVIOUS
  <2>1. ~Process
    BY DEF Process, Inv
  <2>2. PICK chunk \in Chunks : Feed(chunk)
    BY <2>1 DEF Next
  <2>3. QED
    BY <2>2 DEF Feed, FeedIgnored, FeedOverTotal, FeedAccepted
<1>2. QED
  BY <1>1, Invariance, PTL DEF Spec, ErrorIsFinal

-----------------------------------------------------------------------------
(***************************************************************************)
(* Recursion on sequences: a function of all sequences that is defined     *)
(* from its values for shorter ones exists, and what holds of a sequence   *)
(* whenever it holds of all shorter ones holds of all.                     *)
(***************************************************************************)

Less == {p \in Nat \X Nat : p[1] < p[2]}

(* The numbers are well-founded, so that a claim that fails has a least    *)
(* number it fails for.                                                    *)
LEMMA LessWF == IsWellFoundedOn(Less, Nat)
<1>1. OpToRel(<, Nat) = Less
  BY DEF OpToRel, Less
<1> QED
  BY <1>1, NatLessThanWellFounded

(* Induction over the numbers, the claim given as the set of those it      *)
(* holds for.                                                              *)
LEMMA ByNumber ==
  ASSUME NEW T, 0 \in T, \A n \in Nat : n \in T => n + 1 \in T
  PROVE  \A n \in Nat : n \in T
<1> DEFINE outside == {n \in Nat : n \notin T}
<1>1. CASE outside = {}
  BY <1>1
<1>2. CASE outside # {}
  <2>1. outside \in SUBSET Nat
    OBVIOUS
  <2>2. PICK x \in outside : \A y \in outside : ~ (<< y, x >> \in Less)
    BY <1>2, <2>1, LessWF, WFMin
  <2>3. x \in Nat /\ x # 0 /\ x - 1 \in Nat /\ x = (x - 1) + 1
    BY <2>2
  <2>4. << x - 1, x >> \in Less
    BY <2>3 DEF Less
  <2>5. x - 1 \in T
    BY <2>2, <2>3, <2>4
  <2>6. QED
    BY <2>2, <2>3, <2>5
<1>3. QED
  BY <1>1, <1>2

(* Induction over the length of a sequence, the claim given as a set.      *)
LEMMA ByLength ==
  ASSUME NEW S, NEW T,
         \A s \in Seq(S) : (\A r \in Seq(S) : Len(r) < Len(s) => r \in T) => s \in T
  PROVE  \A s \in Seq(S) : s \in T
<1> DEFINE lengths == {Len(s) : s \in {r \in Seq(S) : r \notin T}}
<1>1. \A s \in Seq(S) : Len(s) \in Nat
  BY LenProperties
<1>2. CASE lengths = {}
  <2>1. \A s \in Seq(S) : s \notin T => Len(s) \in lengths
    OBVIOUS
  <2> HIDE DEF lengths
  <2>2. QED
    BY <1>2, <2>1
<1>3. CASE lengths # {}
  <2>1. lengths \in SUBSET Nat
    BY <1>1
  <2>2. PICK x \in lengths : \A y \in lengths : ~ (<< y, x >> \in Less)
    BY <1>3, <2>1, LessWF, WFMin
  <2>3. PICK s \in Seq(S) : s \notin T /\ x = Len(s)
    BY <2>2
  <2>4. ASSUME NEW r \in Seq(S), Len(r) < Len(s) PROVE r \in T
    <3>1. << Len(r), x >> \in Less
      BY <1>1, <2>3, <2>4 DEF Less
    <3>2. QED
      BY <2>2, <3>1
  <2>5. QED
    BY <2>3, <2>4
<1>4. QED
  BY <1>2, <1>3

(* def says what a function is for s if it is g for what is shorter.       *)
UsesShorter(def, S, V) ==
  /\ def \in [Seq(S) -> [[Seq(S) -> V] -> V]]
  /\ \A s \in Seq(S) : \A g, h \in [Seq(S) -> V] :
       (\A r \in Seq(S) : Len(r) < Len(s) => g[r] = h[r]) => def[s][g] = def[s][h]
Solves(f, def, S, V) == f \in [Seq(S) -> V] /\ \A s \in Seq(S) : f[s] = def[s][f]

(* A definition that looks at shorter sequences only has a solution.       *)
LEMMA Recursion ==
  ASSUME NEW S, NEW V, NEW v \in V, NEW def, UsesShorter(def, S, V)
  PROVE  \E f : Solves(f, def, S, V)
<1> DEFINE F == [Seq(S) -> V]
           Goes(n, g) == \A s \in Seq(S) : Len(s) < n => g[s] = def[s][g]
           T == {n \in Nat : \E g \in F : Goes(n, g)}
<1>1. \A s \in Seq(S) : Len(s) \in Nat
  BY LenProperties
<1> USE DEF UsesShorter
<1>2. \A s \in Seq(S) : \A g \in F : def[s][g] \in V
  OBVIOUS
<1>3. 0 \in T
  <2>1. [s \in Seq(S) |-> v] \in F
    OBVIOUS
  <2>2. Goes(0, [s \in Seq(S) |-> v])
    BY <1>1
  <2>3. QED
    BY <2>1, <2>2
<1>4. ASSUME NEW n \in Nat, n \in T PROVE n + 1 \in T
  <2>1. PICK g \in F : Goes(n, g)
    BY <1>4
  <2> DEFINE h == [s \in Seq(S) |-> def[s][g]]
  <2>2. h \in F
    BY <1>2
  <2>3. \A s \in Seq(S) : h[s] = def[s][g]
    OBVIOUS
  <2> HIDE DEF h
  <2>4. ASSUME NEW s \in Seq(S), Len(s) < n + 1 PROVE h[s] = def[s][h]
    <3>1. ASSUME NEW r \in Seq(S), Len(r) < Len(s) PROVE g[r] = h[r]
      <4>1. Len(r) < n
        BY <1>1, <2>4, <3>1
      <4>2. QED
        BY <2>1, <2>3, <4>1
    <3>2. def[s][g] = def[s][h]
      BY <2>2, <3>1
    <3>3. QED
      BY <2>3, <3>2
  <2>5. QED
    BY <2>2, <2>4
<1> HIDE DEF T
<1>5. \A n \in Nat : n \in T
  BY <1>3, <1>4, ByNumber
<1>6. ASSUME NEW n \in Nat, NEW m \in Nat, NEW g \in F, NEW h \in F, Goes(n, g), Goes(m, h),
             NEW s \in Seq(S), Len(s) < n, Len(s) < m
      PROVE  g[s] = h[s]
  <2> DEFINE U == {r \in Seq(S) : Len(r) < n /\ Len(r) < m => g[r] = h[r]}
  <2>1. ASSUME NEW r \in Seq(S), \A q \in Seq(S) : Len(q) < Len(r) => q \in U
        PROVE  r \in U
    <3>1. CASE Len(r) < n /\ Len(r) < m
      <4>1. ASSUME NEW q \in Seq(S), Len(q) < Len(r) PROVE g[q] = h[q]
        <5>1. Len(q) < n /\ Len(q) < m
          BY <1>1, <3>1, <4>1
        <5>2. q \in U
          BY <2>1, <4>1
        <5>3. QED
          BY <5>1, <5>2
      <4>2. def[r][g] = def[r][h]
        BY <4>1
      <4>3. QED
        BY <1>6, <3>1, <4>2
    <3>2. QED
      BY <3>1
  <2> HIDE DEF U
  <2>2. \A r \in Seq(S) : r \in U
    BY <2>1, ByLength
  <2>3. QED
    BY <1>6, <2>2 DEF U
<1> DEFINE one(n) == CHOOSE g \in F : Goes(n, g)
           f == [s \in Seq(S) |-> one(Len(s) + 1)[s]]
<1>7. \A n \in Nat : one(n) \in F /\ Goes(n, one(n))
  BY <1>5 DEF T
<1> HIDE DEF one
<1>8. \A s \in Seq(S) : f[s] = one(Len(s) + 1)[s] /\ Len(s) + 1 \in Nat
  BY <1>1
<1>9. f \in F
  BY <1>7, <1>8
<1> HIDE DEF f
<1>10. ASSUME NEW s \in Seq(S) PROVE f[s] = def[s][f]
  <2> DEFINE g == one(Len(s) + 1)
  <2>1. g \in F /\ Goes(Len(s) + 1, g) /\ f[s] = g[s] /\ Len(s) < Len(s) + 1
    BY <1>1, <1>7, <1>8
  <2>2. ASSUME NEW r \in Seq(S), Len(r) < Len(s) PROVE g[r] = f[r]
    <3> DEFINE h == one(Len(r) + 1)
    <3>1. h \in F /\ Goes(Len(r) + 1, h) /\ f[r] = h[r]
      BY <1>7, <1>8
    <3>2. Len(r) < Len(r) + 1 /\ Len(r) < Len(s) + 1 /\ Len(r) + 1 \in Nat /\ Len(s) + 1 \in Nat
      BY <1>1, <2>2
    <3> HIDE DEF g, h
    <3>3. QED
      BY <1>6, <2>1, <3>1, <3>2, ZenonT(60)
  <2> HIDE DEF g
  <2>3. def[s][g] = def[s][f]
    BY <1>9, <2>1, <2>2
  <2>4. QED
    BY <2>1, <2>3
<1>11. QED
  BY <1>9, <1>10 DEF Solves

(* The front of a sequence is shorter, and that of one with an element     *)
(* appended is the sequence.                                               *)
LEMMA Fronts ==
  ASSUME NEW S
  PROVE  /\ \A s \in Seq(S) : s # << >> =>
              /\ Front(s) \in Seq(S) /\ Len(Front(s)) < Len(s) /\ Last(s) \in S
              /\ s = Append(Front(s), Last(s))
         /\ \A s \in Seq(S) : \A e \in S :
              /\ Append(s, e) \in Seq(S) /\ Append(s, e) # << >>
              /\ Front(Append(s, e)) = s /\ Last(Append(s, e)) = e
<1>1. ASSUME NEW s \in Seq(S), NEW e \in S
      PROVE  /\ Append(s, e) \in Seq(S) /\ Append(s, e) # << >>
             /\ Front(Append(s, e)) = s /\ Last(Append(s, e)) = e
  <2> DEFINE t == Append(s, e)
             u == SubSeq(t, 1, Len(s))
  <2>1. /\ t \in Seq(S) /\ t # << >> /\ Len(t) = Len(s) + 1 /\ Len(s) \in Nat
        /\ \A i \in 1 .. Len(s) : t[i] = s[i]
        /\ t[Len(s) + 1] = e
    BY AppendProperties, LenProperties
  <2> HIDE DEF t
  <2>2. \A i \in 1 .. Len(s) : t[i] \in S
    BY <2>1
  <2>3. u \in Seq(S) /\ Len(u) = Len(s) /\ \A i \in 1 .. Len(s) : u[i] = t[i]
    BY <2>1, <2>2, SubSeqProperties
  <2> HIDE DEF u
  <2>4. u = s
    BY <2>1, <2>3, SeqEqual
  <2>5. Front(t) = u /\ Last(t) = e
    BY <2>1 DEF Front, Last, u
  <2>6. QED
    BY <2>1, <2>4, <2>5 DEF t
<1>2. ASSUME NEW s \in Seq(S), s # << >>
      PROVE  /\ Front(s) \in Seq(S) /\ Len(Front(s)) < Len(s) /\ Last(s) \in S
             /\ s = Append(Front(s), Last(s))
  <2>1. PICK r \in Seq(S), e \in S : s = Append(r, e)
    BY <1>2, SequenceEmptyOrAppend
  <2>2. Front(s) = r /\ Last(s) = e
    BY <1>1, <2>1
  <2>3. Len(s) = Len(r) + 1 /\ Len(r) \in Nat
    BY <2>1, AppendProperties, LenProperties
  <2>4. QED
    BY <2>1, <2>2, <2>3
<1>3. QED
  BY <1>1, <1>2

(* So there is a function defined by its value for the front.              *)
GoesOn(f, S, V, base, step) ==
  /\ f \in [Seq(S) -> V]
  /\ f[<< >>] = base
  /\ \A s \in Seq(S) : s # << >> => f[s] = step[s][f[Front(s)]]

(* A definition by the last element and the sequence before it has a       *)
(* solution.                                                               *)
LEMMA FrontRecursion ==
  ASSUME NEW S, NEW V, NEW base \in V, NEW step, step \in [Seq(S) -> [V -> V]]
  PROVE  \E f : GoesOn(f, S, V, base, step)
<1> DEFINE F == [Seq(S) -> V]
           def == [s \in Seq(S) |-> [g \in F |-> IF s = << >> THEN base ELSE step[s][g[Front(s)]]]]
<1>1. \A s \in Seq(S) : s # << >> => Front(s) \in Seq(S) /\ Len(Front(s)) < Len(s)
  BY Fronts
<1>2. def \in [Seq(S) -> [F -> V]]
  BY <1>1
<1>3. \A s \in Seq(S) : \A g \in F :
        def[s][g] = IF s = << >> THEN base ELSE step[s][g[Front(s)]]
  OBVIOUS
<1> HIDE DEF def, F
<1>4. \A s \in Seq(S) : \A g, h \in F :
        (\A r \in Seq(S) : Len(r) < Len(s) => g[r] = h[r]) => def[s][g] = def[s][h]
  <2> TAKE s \in Seq(S)
  <2> TAKE g, h \in F
  <2> HAVE \A r \in Seq(S) : Len(r) < Len(s) => g[r] = h[r]
  <2>1. CASE s = << >>
    BY <1>3, <2>1
  <2>2. CASE s # << >>
    <3>1. g[Front(s)] = h[Front(s)]
      BY <1>1, <2>2
    <3>2. def[s][g] = step[s][g[Front(s)]] /\ def[s][h] = step[s][h[Front(s)]]
      BY <1>3, <2>2
    <3>3. QED
      BY <3>1, <3>2
  <2>3. QED
    BY <2>1, <2>2
<1>5. PICK f \in F : \A s \in Seq(S) : f[s] = def[s][f]
  <2>1. \E f \in [Seq(S) -> V] : \A s \in Seq(S) : f[s] = def[s][f]
    <3>1. def \in [Seq(S) -> [[Seq(S) -> V] -> V]]
      BY <1>2 DEF F
    <3>2. \A s \in Seq(S) : \A g, h \in [Seq(S) -> V] :
            (\A r \in Seq(S) : Len(r) < Len(s) => g[r] = h[r]) => def[s][g] = def[s][h]
      BY <1>4 DEF F
    <3>3. QED
      <4>1. UsesShorter(def, S, V)
        BY <3>1, <3>2 DEF UsesShorter
      <4>2. \E f : Solves(f, def, S, V)
        BY <4>1, Recursion
      <4>3. QED
        BY <4>2 DEF Solves
  <2>2. QED
    BY <2>1 DEF F
<1>6. << >> \in Seq(S)
  BY EmptySeq
<1>7. f[<< >>] = base
  BY <1>3, <1>5, <1>6
<1>8. ASSUME NEW s \in Seq(S), s # << >> PROVE f[s] = step[s][f[Front(s)]]
  <2>1. def[s][f] = step[s][f[Front(s)]]
    BY <1>3, <1>5, <1>8
  <2>2. QED
    BY <1>5, <2>1
<1>9. QED
  BY <1>5, <1>7, <1>8 DEF F, GoesOn

(* What has the right start and the right steps is that function.          *)
LEMMA SameFunction ==
  ASSUME NEW S, NEW V, NEW base, NEW step, NEW f, GoesOn(f, S, V, base, step),
         NEW g, g[<< >>] = base,
         \A s \in Seq(S) : s # << >> /\ g[Front(s)] \in V => g[s] = step[s][g[Front(s)]]
  PROVE  \A s \in Seq(S) : g[s] = f[s] /\ g[s] \in V
<1> DEFINE T == {s \in Seq(S) : g[s] = f[s]}
<1>1. ASSUME NEW s \in Seq(S), \A r \in Seq(S) : Len(r) < Len(s) => r \in T
      PROVE  g[s] = f[s]
  <2>1. CASE s = << >>
    BY <2>1 DEF GoesOn
  <2>2. CASE s # << >>
    <3>1. Front(s) \in Seq(S) /\ Len(Front(s)) < Len(s)
      BY <2>2, Fronts
    <3>2. g[Front(s)] = f[Front(s)] /\ f[Front(s)] \in V
      BY <1>1, <3>1 DEF GoesOn
    <3>3. QED
      BY <2>2, <3>2 DEF GoesOn
  <2>3. QED
    BY <2>1, <2>2
<1>2. \A s \in Seq(S) : (\A r \in Seq(S) : Len(r) < Len(s) => r \in T) => s \in T
  BY <1>1
<1> HIDE DEF T
<1>3. \A s \in Seq(S) : s \in T
  BY <1>2, ByLength
<1>4. QED
  BY <1>3 DEF T, GoesOn

-----------------------------------------------------------------------------
(***************************************************************************)
(* The recursive functions of the reference are what their equations say.  *)
(***************************************************************************)

Texts == Seq(Byte)

LinesStep(t, lines) ==
  IF Last(t) = LF /\ Front(t) # << >> /\ Last(Front(t)) = CR THEN lines
  ELSE IF Last(t) \in {LF, CR} THEN Append(lines, << >>)
  ELSE Append(Front(lines), Append(Last(lines), Last(t)))

(* LinesOf is defined by its equation: a CHOOSE of which it is not said    *)
(* that there is something to choose.                                      *)
LEMMA LinesEquation ==
  /\ LinesOf[<< >>] = << << >> >>
  /\ \A t \in Seq(Byte) :
       /\ LinesOf[t] \in Seq(Seq(Byte)) \ {<< >>}
       /\ t # << >> => LinesOf[t] = LinesStep(t, LinesOf[Front(t)])
<1> DEFINE S == Byte
           V == Seq(Seq(Byte)) \ {<< >>}
           base == << << >> >>
           Val(g, t) == IF t = << >> THEN base ELSE LinesStep(t, g[Front(t)])
           Is(g) == g = [t \in Seq(S) |-> Val(g, t)]
           step == [t \in Seq(S) |-> [x \in V |-> IF t = << >> THEN x ELSE LinesStep(t, x)]]
<1>1. base \in V
  <2>1. << >> \in Seq(Byte)
    BY EmptySeq
  <2>2. QED
    BY <2>1
<1>2. ASSUME NEW t \in Seq(S), t # << >>, NEW x \in V PROVE LinesStep(t, x) \in V
  <2>1. Last(t) \in Byte /\ Front(x) \in Seq(Seq(Byte)) /\ Last(x) \in Seq(Byte)
    BY <1>2, Fronts
  <2>2. Append(Last(x), Last(t)) \in Seq(Byte) /\ << >> \in Seq(Byte)
    BY <2>1, EmptySeq, AppendProperties
  <2>3. Append(x, << >>) \in V /\ Append(Front(x), Append(Last(x), Last(t))) \in V
    <3> DEFINE W == Seq(Byte)
    <3>1. \A s \in Seq(W) : \A e \in W : Append(s, e) \in Seq(W) /\ Append(s, e) # << >>
      <4> HIDE DEF W
      <4>1. QED
        BY Fronts
    <3>2. x \in Seq(W) /\ Front(x) \in Seq(W) /\ << >> \in W
          /\ Append(Last(x), Last(t)) \in W
      BY <2>1, <2>2
    <3> HIDE DEF W
    <3>3. Append(x, << >>) \in Seq(W) \ {<< >>}
          /\ Append(Front(x), Append(Last(x), Last(t))) \in Seq(W) \ {<< >>}
      BY <3>1, <3>2
    <3>4. QED
      BY <3>3 DEF W
  <2>4. QED
    BY <2>3 DEF LinesStep
<1>3. step \in [Seq(S) -> [V -> V]]
  BY <1>2
<1>4. \A t \in Seq(S) : \A x \in V : t # << >> => step[t][x] = LinesStep(t, x)
  OBVIOUS
<1>5. LinesOf = CHOOSE g : Is(g)
  BY DEF LinesOf, LinesStep
<1> HIDE DEF V, base, step
<1>6. PICK f : GoesOn(f, S, V, base, step)
  BY <1>1, <1>3, FrontRecursion
<1>7. << >> \in Seq(S) /\ \A t \in Seq(S) : t # << >> => Front(t) \in Seq(S)
  BY EmptySeq, Fronts
<1>8. Is(f)
  <2>1. \A t \in Seq(S) : f[t] = Val(f, t)
    BY <1>4, <1>6, <1>7 DEF GoesOn
  <2>2. f = [t \in Seq(S) |-> f[t]]
    BY <1>6 DEF GoesOn
  <2> HIDE DEF Val
  <2>3. QED
    BY <2>1, <2>2
<1>9. Is(LinesOf)
  <2> HIDE DEF Val
  <2>1. QED
    BY <1>5, <1>8
<1>10. \A t \in Seq(S) : LinesOf[t] = Val(LinesOf, t)
  <2> HIDE DEF Val
  <2>1. QED
    BY <1>9
<1>11. LinesOf[<< >>] = base
  BY <1>7, <1>10
<1>12. \A t \in Seq(S) : t # << >> => LinesOf[t] = LinesStep(t, LinesOf[Front(t)])
  BY <1>10
<1>13. \A t \in Seq(S) : LinesOf[t] \in V
  <2>1. \A t \in Seq(S) : t # << >> /\ LinesOf[Front(t)] \in V =>
          LinesOf[t] = step[t][LinesOf[Front(t)]]
    BY <1>4, <1>12
  <2>2. QED
    BY <1>6, <1>11, <2>1, SameFunction
<1>14. QED
  BY <1>11, <1>12, <1>13 DEF V, base

(* The bytes of a field's value are bytes of its line.                     *)
LEMMA ValueType ==
  ASSUME NEW l \in Seq(Byte), NEW name, Len(name) \in Nat
  PROVE  ValueOf(l, name) \in Seq(Byte)
<1> DEFINE rest == SubSeq(l, Len(name) + 2, Len(l))
<1>1. rest \in Seq(Byte)
  BY Bytes
<1>2. CASE IsPrefix(<< SPACE >>, rest)
  <2>1. Len(rest) >= 1
    BY <1>2 DEF IsPrefix
  <2> HIDE DEF rest
  <2>2. rest # << >>
    BY <2>1
  <2>3. Tail(rest) \in Seq(Byte)
    BY <1>1, <2>2, HeadTailProperties
  <2>4. QED
    BY <1>2, <2>3 DEF ValueOf, rest
<1>3. CASE ~IsPrefix(<< SPACE >>, rest)
  BY <1>1, <1>3 DEF ValueOf
<1>4. QED
  BY <1>2, <1>3

(* How long the four names are.                                            *)
LEMMA NameLengths ==
  Len(DataName) = 4 /\ Len(EventName) = 5 /\ Len(IdName) = 2 /\ Len(RetryName) = 5
  BY DEF DataName, EventName, IdName, RetryName

JoinedStep(block, joined) ==
  IF ~HasField(Last(block), DataName) THEN joined
  ELSE IF ~HasData(Front(block)) THEN ValueOf(Last(block), DataName)
  ELSE joined \o << LF >> \o ValueOf(Last(block), DataName)

(* Joined satisfies its equation.                                          *)
LEMMA JoinedEquation ==
  /\ Joined[<< >>] = << >>
  /\ \A block \in Seq(Seq(Byte)) :
       /\ Joined[block] \in Seq(Byte)
       /\ block # << >> => Joined[block] = JoinedStep(block, Joined[Front(block)])
<1> DEFINE S == Seq(Byte)
           V == Seq(Byte)
           base == << >>
           Val(g, t) == IF t = << >> THEN base ELSE JoinedStep(t, g[Front(t)])
           Is(g) == g = [t \in Seq(S) |-> Val(g, t)]
           step == [t \in Seq(S) |-> [x \in V |-> IF t = << >> THEN x ELSE JoinedStep(t, x)]]
<1>1. base \in V
  BY EmptySeq
<1>2. ASSUME NEW t \in Seq(S), t # << >>, NEW x \in V PROVE JoinedStep(t, x) \in V
  <2>1. Last(t) \in S
    <3> HIDE DEF S
    <3>1. QED
      BY <1>2, Fronts
  <2>2. ValueOf(Last(t), DataName) \in Seq(Byte)
    BY <2>1, ValueType, NameLengths
  <2>3. << LF >> \in Seq(Byte)
    BY DEF LF, Byte
  <2>4. x \o << LF >> \in Seq(Byte)
    BY <2>3, ConcatProperties
  <2>5. x \o << LF >> \o ValueOf(Last(t), DataName) \in Seq(Byte)
    BY <2>2, <2>4, ConcatProperties
  <2>6. QED
    BY <2>2, <2>5 DEF JoinedStep
<1>3. step \in [Seq(S) -> [V -> V]]
  BY <1>2
<1>4. \A t \in Seq(S) : \A x \in V : t # << >> => step[t][x] = JoinedStep(t, x)
  OBVIOUS
<1>5. Joined = CHOOSE g : Is(g)
  BY DEF Joined, JoinedStep
<1> HIDE DEF S, V, base, step
<1>6. PICK f : GoesOn(f, S, V, base, step)
  BY <1>1, <1>3, FrontRecursion
<1>7. << >> \in Seq(S) /\ \A t \in Seq(S) : t # << >> => Front(t) \in Seq(S)
  BY EmptySeq, Fronts
<1>8. Is(f)
  <2>1. \A t \in Seq(S) : f[t] = Val(f, t)
    BY <1>4, <1>6, <1>7 DEF GoesOn
  <2>2. f = [t \in Seq(S) |-> f[t]]
    BY <1>6 DEF GoesOn
  <2> HIDE DEF Val
  <2>3. QED
    BY <2>1, <2>2
<1>9. Is(Joined)
  <2> HIDE DEF Val
  <2>1. QED
    BY <1>5, <1>8
<1>10. \A t \in Seq(S) : Joined[t] = Val(Joined, t)
  <2> HIDE DEF Val
  <2>1. QED
    BY <1>9
<1>11. Joined[<< >>] = base
  BY <1>7, <1>10
<1>12. \A t \in Seq(S) : t # << >> => Joined[t] = JoinedStep(t, Joined[Front(t)])
  BY <1>10
<1>13. \A t \in Seq(S) : Joined[t] \in V
  <2>1. \A t \in Seq(S) : t # << >> /\ Joined[Front(t)] \in V =>
          Joined[t] = step[t][Joined[Front(t)]]
    BY <1>4, <1>12
  <2>2. QED
    BY <1>6, <1>11, <2>1, SameFunction
<1>14. QED
  BY <1>11, <1>12, <1>13 DEF V, S, base

EventOf(lines) == BlockEvent(OpenBlock(lines), StreamId(lines))
Dispatched == {EventOf(lines) : lines \in Seq(Seq(Byte))}

EventsStep(lines, before) ==
  IF Last(lines) = << >> /\ HasData(OpenBlock(Front(lines)))
  THEN Append(before, EventOf(Front(lines)))
  ELSE before

(* EventsOf satisfies its equation.                                        *)
LEMMA EventsEquation ==
  /\ EventsOf[<< >>] = << >>
  /\ \A lines \in Seq(Seq(Byte)) :
       /\ EventsOf[lines] \in Seq(Dispatched)
       /\ lines # << >> => EventsOf[lines] = EventsStep(lines, EventsOf[Front(lines)])
<1> DEFINE S == Seq(Byte)
           V == Seq(Dispatched)
           base == << >>
           Val(g, t) == IF t = << >> THEN base ELSE EventsStep(t, g[Front(t)])
           Is(g) == g = [t \in Seq(S) |-> Val(g, t)]
           step == [t \in Seq(S) |-> [x \in V |-> IF t = << >> THEN x ELSE EventsStep(t, x)]]
<1>1. base \in V
  BY EmptySeq
<1>2. ASSUME NEW t \in Seq(S), t # << >>, NEW x \in V PROVE EventsStep(t, x) \in V
  <2>1. Front(t) \in Seq(S)
    <3> HIDE DEF S
    <3>1. QED
      BY <1>2, Fronts
  <2>2. EventOf(Front(t)) \in Dispatched
    BY <2>1 DEF Dispatched
  <2>3. Append(x, EventOf(Front(t))) \in V
    BY <2>2, AppendProperties
  <2>4. QED
    BY <2>3 DEF EventsStep
<1>3. step \in [Seq(S) -> [V -> V]]
  BY <1>2
<1>4. \A t \in Seq(S) : \A x \in V : t # << >> => step[t][x] = EventsStep(t, x)
  OBVIOUS
<1>5. EventsOf = CHOOSE g : Is(g)
  BY DEF EventsOf, EventsStep, EventOf
<1> HIDE DEF S, V, base, step
<1>6. PICK f : GoesOn(f, S, V, base, step)
  BY <1>1, <1>3, FrontRecursion
<1>7. << >> \in Seq(S) /\ \A t \in Seq(S) : t # << >> => Front(t) \in Seq(S)
  BY EmptySeq, Fronts
<1>8. Is(f)
  <2>1. \A t \in Seq(S) : f[t] = Val(f, t)
    BY <1>4, <1>6, <1>7 DEF GoesOn
  <2>2. f = [t \in Seq(S) |-> f[t]]
    BY <1>6 DEF GoesOn
  <2> HIDE DEF Val
  <2>3. QED
    BY <2>1, <2>2
<1>9. Is(EventsOf)
  <2> HIDE DEF Val
  <2>1. QED
    BY <1>5, <1>8
<1>10. \A t \in Seq(S) : EventsOf[t] = Val(EventsOf, t)
  <2> HIDE DEF Val
  <2>1. QED
    BY <1>9
<1>11. EventsOf[<< >>] = base
  BY <1>7, <1>10
<1>12. \A t \in Seq(S) : t # << >> => EventsOf[t] = EventsStep(t, EventsOf[Front(t)])
  BY <1>10
<1>13. \A t \in Seq(S) : EventsOf[t] \in V
  <2>1. \A t \in Seq(S) : t # << >> /\ EventsOf[Front(t)] \in V =>
          EventsOf[t] = step[t][EventsOf[Front(t)]]
    BY <1>4, <1>12
  <2>2. QED
    BY <1>6, <1>11, <2>1, SameFunction
<1>14. QED
  BY <1>11, <1>12, <1>13 DEF V, S, base

Digits == 48 .. 57

(* Number satisfies its equation.                                          *)
LEMMA NumberEquation ==
  /\ Number[<< >>] = 0
  /\ \A v \in Seq(Digits) :
       /\ Number[v] \in Nat
       /\ v # << >> => Number[v] = 10 * Number[Front(v)] + (Last(v) - 48)
<1> DEFINE S == Digits
           V == Nat
           base == 0
           Val(g, t) == IF t = << >> THEN base ELSE 10 * g[Front(t)] + (Last(t) - 48)
           Is(g) == g = [t \in Seq(S) |-> Val(g, t)]
           step == [t \in Seq(S) |-> [x \in V |-> IF t = << >> THEN x ELSE 10 * x + (Last(t) - 48)]]
<1>1. base \in V
  OBVIOUS
<1>2. ASSUME NEW t \in Seq(S), t # << >>, NEW x \in V PROVE 10 * x + (Last(t) - 48) \in V
  <2>1. Last(t) \in 48 .. 57
    BY <1>2, Fronts DEF Digits
  <2>2. QED
    BY <2>1
<1>3. step \in [Seq(S) -> [V -> V]]
  BY <1>2
<1>4. \A t \in Seq(S) : \A x \in V : t # << >> => step[t][x] = 10 * x + (Last(t) - 48)
  OBVIOUS
<1>5. Number = CHOOSE g : Is(g)
  BY DEF Number, Digits
<1> HIDE DEF S, V, base, step
<1>6. PICK f : GoesOn(f, S, V, base, step)
  BY <1>1, <1>3, FrontRecursion
<1>7. << >> \in Seq(S) /\ \A t \in Seq(S) : t # << >> => Front(t) \in Seq(S)
  BY EmptySeq, Fronts
<1>8. Is(f)
  <2>1. \A t \in Seq(S) : f[t] = Val(f, t)
    BY <1>4, <1>6, <1>7 DEF GoesOn
  <2>2. f = [t \in Seq(S) |-> f[t]]
    BY <1>6 DEF GoesOn
  <2> HIDE DEF Val
  <2>3. QED
    BY <2>1, <2>2
<1>9. Is(Number)
  <2> HIDE DEF Val
  <2>1. QED
    BY <1>5, <1>8
<1>10. \A t \in Seq(S) : Number[t] = Val(Number, t)
  <2> HIDE DEF Val
  <2>1. QED
    BY <1>9
<1>11. Number[<< >>] = base
  BY <1>7, <1>10
<1>12. \A t \in Seq(S) : t # << >> => Number[t] = 10 * Number[Front(t)] + (Last(t) - 48)
  BY <1>10
<1>13. \A t \in Seq(S) : Number[t] \in V
  <2>1. \A t \in Seq(S) : t # << >> /\ Number[Front(t)] \in V =>
          Number[t] = step[t][Number[Front(t)]]
    BY <1>4, <1>12
  <2>2. QED
    BY <1>6, <1>11, <2>1, SameFunction
<1>14. QED
  BY <1>11, <1>12, <1>13 DEF V, S, base

(* A group of bytes ends before a byte that does not continue it.          *)
Groups(s, n) ==
  /\ n <= Len(s)
  /\ \A i \in 2 .. n : s[i] \in Tails
  /\ n < Claimed(s[1]) /\ n < Len(s) => s[n + 1] \notin Tails

(* GroupLength chooses a length there is.                                  *)
LEMMA GroupExists ==
  ASSUME NEW s \in Seq(Byte), s # << >>
  PROVE  GroupLength(s) \in 1 .. Claimed(s[1]) /\ Groups(s, GroupLength(s))
<1>1. Len(s) \in Nat /\ Len(s) >= 1
  BY EmptySeq
<1>2. Claimed(s[1]) \in 1 .. 4
  BY DEF Claimed
<1>3. \E n \in 1 .. Claimed(s[1]) : Groups(s, n)
  <2> DEFINE c == Claimed(s[1])
             Ends(n) == ~(n < c /\ n < Len(s) /\ s[n + 1] \in Tails)
  <2> HIDE DEF c
  <2>1. CASE Ends(1)
    BY <1>1, <1>2, <2>1 DEF Groups, c
  <2>2. CASE ~Ends(1) /\ Ends(2)
    BY <1>1, <1>2, <2>2 DEF Groups, c
  <2>3. CASE ~Ends(1) /\ ~Ends(2) /\ Ends(3)
    <3>1. 3 \in 1 .. c /\ 3 <= Len(s) /\ s[2] \in Tails /\ s[3] \in Tails
      BY <1>1, <1>2, <2>3 DEF c
    <3>2. Groups(s, 3)
      BY <2>3, <3>1 DEF Groups, c
    <3>3. QED
      BY <3>1, <3>2 DEF c
  <2>4. CASE ~Ends(1) /\ ~Ends(2) /\ ~Ends(3)
    <3>1. 4 \in 1 .. c /\ c = 4 /\ 4 <= Len(s)
          /\ s[2] \in Tails /\ s[3] \in Tails /\ s[4] \in Tails
      BY <1>1, <1>2, <2>4 DEF c
    <3>2. Groups(s, 4)
      BY <3>1 DEF Groups, c
    <3>3. QED
      BY <3>1, <3>2 DEF c
  <2>5. QED
    BY <2>1, <2>2, <2>3, <2>4
<1>4. GroupLength(s) = CHOOSE n \in 1 .. Claimed(s[1]) : Groups(s, n)
  BY DEF GroupLength, Groups
<1>5. QED
  BY <1>3, <1>4

Group(s) == SubSeq(s, 1, GroupLength(s))
Behind(s) == SubSeq(s, GroupLength(s) + 1, Len(s))
Character(group) == IF WellFormed(group) THEN group ELSE Replacement

TextStep(s, text) ==
  IF Behind(s) = << >> /\ GroupLength(s) < Claimed(s[1]) THEN << >>
  ELSE Character(Group(s)) \o text

(* A group is not empty, so that what is behind it is shorter.             *)
LEMMA BehindIsShorter ==
  ASSUME NEW s \in Seq(Byte), s # << >>
  PROVE  /\ Group(s) \in Seq(Byte) /\ Len(Group(s)) = GroupLength(s)
         /\ Behind(s) \in Seq(Byte) /\ Len(Behind(s)) < Len(s)
<1>1. Len(s) \in Nat /\ GroupLength(s) \in 1 .. Len(s)
  <2>1. Claimed(s[1]) \in 1 .. 4
    BY DEF Claimed
  <2>2. QED
    BY <2>1, GroupExists, LenProperties DEF Groups
<1> DEFINE n == GroupLength(s)
<1> HIDE DEF n
<1>2. \A i \in 1 .. Len(s) : s[i] \in Byte
  BY ElementOfSeq
<1>3. SubSeq(s, 1, n) \in Seq(Byte) /\ Len(SubSeq(s, 1, n)) = n
  <2>1. \A i \in 1 .. n : s[i] \in Byte
    BY <1>1, <1>2 DEF n
  <2>2. QED
    BY <1>1, <2>1, SubSeqProperties DEF n
<1>4. SubSeq(s, n + 1, Len(s)) \in Seq(Byte) /\ Len(SubSeq(s, n + 1, Len(s))) < Len(s)
  <2> DEFINE m == n + 1
  <2>1. m \in Int /\ m >= 2 /\ \A i \in m .. Len(s) : s[i] \in Byte
    BY <1>1, <1>2 DEF n
  <2> HIDE DEF m
  <2>2. /\ SubSeq(s, m, Len(s)) \in Seq(Byte)
        /\ Len(SubSeq(s, m, Len(s))) = IF m <= Len(s) THEN Len(s) - m + 1 ELSE 0
    BY <1>1, <2>1, SubSeqProperties
  <2>3. QED
    BY <1>1, <2>1, <2>2 DEF m
<1>5. QED
  BY <1>3, <1>4 DEF Group, Behind, n

(* Text satisfies its equation.                                            *)
LEMMA TextEquation ==
  /\ Text[<< >>] = << >>
  /\ \A s \in Seq(Byte) :
       /\ Text[s] \in Seq(Byte)
       /\ s # << >> => Text[s] = TextStep(s, Text[Behind(s)])
<1> DEFINE S == Byte
           V == Seq(Byte)
           Val(g, s) == IF s = << >> THEN << >> ELSE TextStep(s, g[Behind(s)])
           Is(g) == g = [s \in Seq(S) |-> Val(g, s)]
           def == [s \in Seq(S) |-> [g \in [Seq(S) -> V] |-> Val(g, s)]]
<1>1. << >> \in V
  BY EmptySeq
<1>2. ASSUME NEW s \in Seq(S), s # << >>, NEW x \in V PROVE TextStep(s, x) \in V
  <2>1. Character(Group(s)) \in V
    <3>1. Replacement \in V
      BY DEF Replacement, Byte
    <3>2. QED
      BY <1>2, <3>1, BehindIsShorter DEF Character
  <2>2. Character(Group(s)) \o x \in V
    BY <2>1, ConcatProperties
  <2>3. QED
    BY <1>1, <2>2 DEF TextStep
<1>3. \A s \in Seq(S) : s # << >> => Behind(s) \in Seq(S) /\ Len(Behind(s)) < Len(s)
  BY BehindIsShorter
<1>4. Text = CHOOSE g : Is(g)
  BY DEF Text, TextStep, Behind, Group, Character
<1>5. def \in [Seq(S) -> [[Seq(S) -> V] -> V]]
  BY <1>1, <1>2, <1>3
<1>6. \A s \in Seq(S) : \A g \in [Seq(S) -> V] : def[s][g] = Val(g, s)
  OBVIOUS
<1> HIDE DEF def, S, V
<1>7. ASSUME NEW s \in Seq(S), NEW g, NEW h,
             \A r \in Seq(S) : Len(r) < Len(s) => g[r] = h[r]
      PROVE  Val(g, s) = Val(h, s)
  BY <1>3, <1>7
<1>8. UsesShorter(def, S, V)
  <2>1. ASSUME NEW s \in Seq(S), NEW g \in [Seq(S) -> V], NEW h \in [Seq(S) -> V],
               \A r \in Seq(S) : Len(r) < Len(s) => g[r] = h[r]
        PROVE  def[s][g] = def[s][h]
    <3>1. Val(g, s) = Val(h, s)
      BY <1>7, <2>1
    <3> HIDE DEF Val
    <3>2. QED
      BY <1>6, <3>1
  <2>2. QED
    BY <1>5, <2>1 DEF UsesShorter
<1>9. PICK f : Solves(f, def, S, V)
  BY <1>1, <1>8, Recursion
<1>10. Is(f)
  <2> HIDE DEF Val
  <2>1. \A s \in Seq(S) : f[s] = Val(f, s)
    BY <1>6, <1>9 DEF Solves
  <2>2. f = [s \in Seq(S) |-> f[s]]
    BY <1>9 DEF Solves
  <2>3. QED
    BY <2>1, <2>2
<1>11. Is(Text)
  <2> HIDE DEF Val
  <2>1. QED
    BY <1>4, <1>10
<1>12. \A s \in Seq(S) : Text[s] = Val(Text, s)
  <2> HIDE DEF Val
  <2>1. QED
    BY <1>11
<1>13. \A s \in Seq(S) : Text[s] \in V
  <2> DEFINE T == {s \in Seq(S) : Text[s] \in V}
  <2>1. ASSUME NEW s \in Seq(S), \A r \in Seq(S) : Len(r) < Len(s) => r \in T
        PROVE  s \in T
    BY <1>1, <1>2, <1>3, <1>12, <2>1 DEF S
  <2> HIDE DEF T
  <2>2. \A s \in Seq(S) : s \in T
    BY <2>1, ByLength
  <2>3. QED
    BY <2>2 DEF T
<1>14. << >> \in Seq(S)
  BY EmptySeq
<1>15. QED
  BY <1>12, <1>13, <1>14 DEF V, S

-----------------------------------------------------------------------------
(***************************************************************************)
(* Decoding.  What the parser holds in utf8 is the beginning of a group,   *)
(* and what it makes of the group is what the standard's table says.       *)
(***************************************************************************)

(* Bytes that are read as one are the first group of any text they begin.  *)
LEMMA FirstGroup ==
  ASSUME NEW g \in Seq(Byte), NEW y \in Seq(Byte), g # << >>, Len(g) <= Claimed(g[1]),
         \A i \in 2 .. Len(g) : g[i] \in Tails,
         Len(g) = Claimed(g[1]) \/ y = << >> \/ y[1] \notin Tails
  PROVE  /\ g \o y \in Seq(Byte) /\ g \o y # << >> /\ (g \o y)[1] = g[1]
         /\ GroupLength(g \o y) = Len(g) /\ Group(g \o y) = g /\ Behind(g \o y) = y
<1> DEFINE s == g \o y
           m == Len(g)
           n == GroupLength(s)
<1>1. m \in Nat /\ m >= 1 /\ Len(y) \in Nat
  BY EmptySeq
<1>2. /\ s \in Seq(Byte) /\ Len(s) = m + Len(y)
      /\ \A i \in 1 .. m : s[i] = g[i]
      /\ \A i \in 1 .. Len(y) : s[m + i] = y[i]
  <2>1. /\ s \in Seq(Byte) /\ Len(s) = Len(g) + Len(y)
        /\ \A i \in 1 .. Len(g) + Len(y) : s[i] = IF i <= Len(g) THEN g[i] ELSE y[i - Len(g)]
    BY ConcatProperties, Zenon
  <2> HIDE DEF s
  <2>2. \A i \in 1 .. Len(y) : m + i \in 1 .. m + Len(y) /\ ~(m + i <= m) /\ (m + i) - m = i
    BY <1>1
  <2>3. QED
    BY <1>1, <2>1, <2>2
<1> HIDE DEF s
<1>3. s[1] = g[1] /\ s # << >>
  BY <1>1, <1>2
<1>4. n \in 1 .. Claimed(g[1]) /\ Groups(s, n)
  BY <1>2, <1>3, GroupExists
<1>5. Claimed(g[1]) \in 1 .. 4
  BY DEF Claimed
<1> HIDE DEF n
<1>6. n = m
  <2>1. ~(n < m)
    <3> SUFFICES ASSUME n < m PROVE FALSE
      OBVIOUS
    <3>1. n + 1 \in 2 .. m /\ n + 1 \in 1 .. m
      BY <1>1, <1>4, <1>5
    <3>2. s[n + 1] \in Tails
      BY <1>2, <3>1
    <3>3. QED
      BY <1>1, <1>2, <1>3, <1>4, <1>5, <3>2 DEF Groups
  <2>2. ~(m < n)
    <3> SUFFICES ASSUME m < n PROVE FALSE
      OBVIOUS
    <3>1. n <= Len(s) /\ s[m + 1] \in Tails
      BY <1>1, <1>4, <1>5 DEF Groups
    <3>2. Len(y) >= 1 /\ y # << >>
      BY <1>1, <1>2, <1>4, <1>5, <3>1
    <3>3. s[m + 1] = y[1]
      BY <1>2, <3>2
    <3>4. QED
      BY <1>1, <1>4, <1>5, <3>1, <3>2, <3>3
  <2>3. QED
    BY <1>1, <1>4, <1>5, <2>1, <2>2
<1>7. SubSeq(s, 1, m) = g
  <2>1. \A i \in 1 .. m : s[i] \in Byte
    BY <1>2, ElementOfSeq
  <2>2. /\ SubSeq(s, 1, m) \in Seq(Byte) /\ Len(SubSeq(s, 1, m)) = m
        /\ \A i \in 1 .. m : SubSeq(s, 1, m)[i] = s[i]
    BY <1>1, <2>1, SubSeqProperties
  <2> DEFINE r == SubSeq(s, 1, m)
  <2> HIDE DEF r
  <2>3. r = g
    BY <1>2, <2>2, SeqEqual DEF r
  <2>4. QED
    BY <2>3 DEF r
<1>8. SubSeq(s, m + 1, Len(s)) = y
  <2> DEFINE k == m + 1
             r == SubSeq(s, k, Len(s))
  <2>1. \A i \in k .. Len(s) : s[i] \in Byte
    BY <1>1, <1>2, ElementOfSeq
  <2>2. k \in Int /\ Len(s) \in Int /\ Len(s) - k + 1 = Len(y)
        /\ (IF k <= Len(s) THEN Len(s) - k + 1 ELSE 0) = Len(y)
    BY <1>1, <1>2
  <2> HIDE DEF k
  <2>3. r \in Seq(Byte) /\ Len(r) = Len(y) /\ \A i \in 1 .. Len(y) : r[i] = s[k + i - 1]
    BY <2>1, <2>2, SubSeqProperties
  <2>4. \A i \in 1 .. Len(y) : k + i - 1 = m + i
    BY <1>1 DEF k
  <2> HIDE DEF r
  <2>5. r = y
    <3>1. \A i \in 1 .. Len(y) : r[i] = y[i]
      <4> TAKE i \in 1 .. Len(y)
      <4>1. r[i] = s[k + i - 1]
        BY <2>3
      <4>2. k + i - 1 = m + i
        BY <2>4
      <4>3. s[m + i] = y[i]
        BY <1>2
      <4>4. QED
        BY <4>1, <4>2, <4>3
    <3>2. QED
      BY <2>3, <3>1, SeqEqual
  <2>6. QED
    BY <2>5 DEF r, k
<1>9. QED
  BY <1>2, <1>3, <1>6, <1>7, <1>8 DEF s, m, n, Group, Behind

(* SequenceLength of the parser and Claimed of the table agree.            *)
LEMMA Claims ==
  ASSUME NEW b \in Byte
  PROVE  /\ Claimed(b) = IF SequenceLength(b) = 0 THEN 1 ELSE SequenceLength(b)
         /\ SequenceLength(b) \in {0, 2, 3, 4}
         /\ SequenceLength(b) > 0 => b >= 194
         /\ IsContinuation(b) <=> b \in Tails
  BY SMT DEF Claimed, SequenceLength, IsContinuation, Tails, Byte

(* Which lead bytes announce which length.                                 *)
LEMMA Lengths ==
  ASSUME NEW b \in Byte
  PROVE  /\ SequenceLength(b) = 2 <=> b \in 194 .. 223
         /\ SequenceLength(b) = 3 <=> b \in 224 .. 239
         /\ SequenceLength(b) = 4 <=> b \in 240 .. 244
  BY SMT DEF SequenceLength, Byte

(* The smallest code points of each length.                                *)
LEMMA Smallest ==
  SmallestOfLength(2) = 128 /\ SmallestOfLength(3) = 2048 /\ SmallestOfLength(4) = 65536
<1>1. SmallestOfLength(2) = 128
  BY SMT DEF SmallestOfLength
<1>2. SmallestOfLength(3) = 2048
  BY SMT DEF SmallestOfLength
<1>3. SmallestOfLength(4) = 65536
  BY SMT DEF SmallestOfLength
<1>4. QED
  BY SMT, <1>1, <1>2, <1>3

(* What is left of a byte when its leading ones are masked out.            *)
LEMMA Remainders32 == ASSUME NEW b \in 192 .. 223 PROVE b % 32 = b - 192
  BY SMT

LEMMA Remainders16 == ASSUME NEW b \in 224 .. 239 PROVE b % 16 = b - 224
  BY SMT

LEMMA Remainders8 == ASSUME NEW b \in 240 .. 247 PROVE b % 8 = b - 240
  BY SMT

LEMMA Remainders64 == ASSUME NEW b \in 128 .. 191 PROVE b % 64 = b - 128
  BY SMT

(* utf8_sequence_valid is the table.                                       *)
LEMMA ValidIsWellFormed ==
  ASSUME NEW s \in Seq(Byte), s # << >>, Len(s) = SequenceLength(s[1]), Len(s) > 0,
         \A i \in 2 .. Len(s) : s[i] \in Tails
  PROVE  Utf8SequenceValid(s) <=> WellFormed(s)
<1>2. s[1] \in Byte /\ Len(s) \in {2, 3, 4}
  <2>1. s[1] \in Byte
    BY ElementOfSeq, EmptySeq
  <2>2. SequenceLength(s[1]) \in {0, 2, 3, 4}
    BY <2>1, Claims
  <2>3. QED
    BY <2>1, <2>2
<1> DEFINE a == s[1]
           b == s[2]
           c == s[3]
           d == s[4]
<1>1. Byte = 0 .. 255
  BY DEF Byte
<1>3. CASE Len(s) = 2
  <2>1. a \in 194 .. 223 /\ b \in 128 .. 191
    <3>1. s[1] \in 194 .. 223
      <4>1. SequenceLength(s[1]) = 2
        BY <1>3
      <4>2. SequenceLength(s[1]) = 2 <=> s[1] \in 194 .. 223
        BY <1>2, Lengths
      <4>3. QED
        BY <4>1, <4>2
    <3>2. s[2] \in Tails
      BY <1>3
    <3>3. QED
      BY <3>1, <3>2 DEF Tails
  <2>2. CodePoint(s) = (a - 192) * 64 + (b - 128) /\ SmallestOfLength(Len(s)) = 128
    <3>1. a % 32 = a - 192 /\ b % 64 = b - 128
      <4> HIDE DEF a, b, c, d
      <4>1. a \in 192 .. 223
        BY SMT, <2>1
      <4>2. a % 32 = a - 192
        BY <4>1, Remainders32
      <4>3. b % 64 = b - 128
        BY <2>1, Remainders64
      <4>4. QED
        BY <4>2, <4>3
    <3>2. CodePoint(s) = (a % 32) * 64 + (b % 64)
      BY SMT, <1>3 DEF CodePoint
    <3>3. QED
      BY SMT, <1>3, <3>1, <3>2, Smallest
  <2> HIDE DEF a, b
  <2>3. Utf8SequenceValid(s)
    BY SMT, <2>1, <2>2 DEF Utf8SequenceValid
  <2>4. WellFormed(s)
    BY SMT, <1>3, <2>1 DEF WellFormed, Tails, a, b
  <2>5. QED
    BY SMT, <2>3, <2>4
<1>4. CASE Len(s) = 3
  <2>1. a \in 224 .. 239 /\ b \in 128 .. 191 /\ c \in 128 .. 191
    <3>1. s[1] \in 224 .. 239
      <4>1. SequenceLength(s[1]) = 3
        BY <1>4
      <4>2. SequenceLength(s[1]) = 3 <=> s[1] \in 224 .. 239
        BY <1>2, Lengths
      <4>3. QED
        BY <4>1, <4>2
    <3>2. s[2] \in Tails /\ s[3] \in Tails
      BY <1>4
    <3>3. QED
      BY <3>1, <3>2 DEF Tails
  <2>2. /\ CodePoint(s) = (a - 224) * 4096 + (b - 128) * 64 + (c - 128)
        /\ SmallestOfLength(Len(s)) = 2048
    <3>1. a % 16 = a - 224 /\ b % 64 = b - 128 /\ c % 64 = c - 128
      <4> HIDE DEF a, b, c, d
      <4>1. a \in 224 .. 239
        BY SMT, <2>1
      <4>2. a % 16 = a - 224
        BY <4>1, Remainders16
      <4>3. b % 64 = b - 128
        BY <2>1, Remainders64
      <4>4. c % 64 = c - 128
        BY <2>1, Remainders64
      <4>5. QED
        BY <4>2, <4>3, <4>4
    <3>2. CodePoint(s) = (a % 16) * 4096 + (b % 64) * 64 + (c % 64)
      BY SMT, <1>4 DEF CodePoint
    <3>3. QED
      BY SMT, <1>4, <3>1, <3>2, Smallest
  <2> HIDE DEF a, b, c
  <2>3. Utf8SequenceValid(s) <=>
          \/ a = 224 /\ b \in 160 .. 191
          \/ a \in (225 .. 236) \cup {238, 239}
          \/ a = 237 /\ b \in 128 .. 159
    BY <2>1, <2>2, SMTT(60) DEF Utf8SequenceValid
  <2>4. WellFormed(s) <=>
          \/ a = 224 /\ b \in 160 .. 191
          \/ a \in (225 .. 236) \cup {238, 239}
          \/ a = 237 /\ b \in 128 .. 159
    BY SMT, <1>4, <2>1 DEF WellFormed, Tails, a, b, c
  <2>5. QED
    BY SMT, <2>3, <2>4
<1>5. CASE Len(s) = 4
  <2>1. a \in 240 .. 244 /\ b \in 128 .. 191 /\ c \in 128 .. 191 /\ d \in 128 .. 191
    <3>1. s[1] \in 240 .. 244
      <4>1. SequenceLength(s[1]) = 4
        BY <1>5
      <4>2. SequenceLength(s[1]) = 4 <=> s[1] \in 240 .. 244
        BY <1>2, Lengths
      <4>3. QED
        BY <4>1, <4>2
    <3>2. s[2] \in Tails /\ s[3] \in Tails /\ s[4] \in Tails
      BY <1>5
    <3>3. QED
      BY <3>1, <3>2 DEF Tails
  <2>2. /\ CodePoint(s) = (a - 240) * 262144 + (b - 128) * 4096 + (c - 128) * 64 + (d - 128)
        /\ SmallestOfLength(Len(s)) = 65536
    <3>1. a % 8 = a - 240 /\ b % 64 = b - 128 /\ c % 64 = c - 128 /\ d % 64 = d - 128
      <4> HIDE DEF a, b, c, d
      <4>1. a \in 240 .. 247
        BY SMT, <2>1
      <4>2. a % 8 = a - 240
        BY <4>1, Remainders8
      <4>3. b % 64 = b - 128
        BY <2>1, Remainders64
      <4>4. c % 64 = c - 128
        BY <2>1, Remainders64
      <4>5. d % 64 = d - 128
        BY <2>1, Remainders64
      <4>6. QED
        BY <4>2, <4>3, <4>4, <4>5
    <3>2. CodePoint(s) = (a % 8) * 262144 + (b % 64) * 4096 + (c % 64) * 64 + (d % 64)
      BY SMT, <1>5 DEF CodePoint
    <3>3. QED
      BY SMT, <1>5, <3>1, <3>2, Smallest
  <2> HIDE DEF a, b, c, d
  <2>3. Utf8SequenceValid(s) <=>
          \/ a = 240 /\ b \in 144 .. 191
          \/ a \in 241 .. 243
          \/ a = 244 /\ b \in 128 .. 143
    BY <2>1, <2>2, SMTT(60) DEF Utf8SequenceValid
  <2>4. WellFormed(s) <=>
          \/ a = 240 /\ b \in 144 .. 191
          \/ a \in 241 .. 243
          \/ a = 244 /\ b \in 128 .. 143
    BY SMT, <1>5, <2>1 DEF WellFormed, Tails, a, b, c, d
  <2>5. QED
    BY SMT, <2>3, <2>4
<1>6. QED
  BY <1>2, <1>3, <1>4, <1>5

(* An unfinished sequence.                                                 *)
Unfinished(u) ==
  /\ u \in Seq(Byte) /\ u # << >>
  /\ Len(u) < SequenceLength(u[1])
  /\ \A i \in 2 .. Len(u) : IsContinuation(u[i])

(* An unfinished sequence announces more bytes than it has.                *)
LEMMA UnfinishedGroup ==
  ASSUME NEW u, Unfinished(u)
  PROVE  /\ u \in Seq(Byte) /\ u # << >> /\ u[1] \in Byte /\ Len(u) \in 1 .. 3
         /\ Claimed(u[1]) = SequenceLength(u[1]) /\ SequenceLength(u[1]) \in {2, 3, 4}
         /\ \A i \in 2 .. Len(u) : u[i] \in Tails
         /\ ~WellFormed(u)
<1>1. u \in Seq(Byte) /\ u # << >> /\ u[1] \in Byte /\ Len(u) \in Nat /\ Len(u) >= 1
  BY EmptySeq, ElementOfSeq DEF Unfinished
<1>2. Len(u) < SequenceLength(u[1]) /\ SequenceLength(u[1]) \in {2, 3, 4}
      /\ Claimed(u[1]) = SequenceLength(u[1]) /\ u[1] >= 194
  BY <1>1, Claims DEF Unfinished
<1>3. \A i \in 2 .. Len(u) : u[i] \in Tails
  BY <1>1 DEF Unfinished, IsContinuation, Tails
<1>4. ~WellFormed(u)
  <2>1. ~(u[1] < 128)
    <3> DEFINE b == u[1]
    <3>1. b \in 0 .. 255 /\ b >= 194
      BY <1>1, <1>2 DEF Byte
    <3> HIDE DEF b
    <3>2. ~(b < 128)
      BY <3>1
    <3>3. QED
      BY <3>2 DEF b
  <2>2. SequenceLength(u[1]) = 3 => u[1] \in 224 .. 239
    BY <1>1, Lengths
  <2>3. SequenceLength(u[1]) = 4 => u[1] \in 240 .. 244
    BY <1>1, Lengths
  <2>4. Len(u) = 2 => u[1] \notin 194 .. 223
    <3>1. SequenceLength(u[1]) = 2 <=> u[1] \in 194 .. 223
      BY <1>1, Lengths
    <3>2. QED
      BY <1>2, <3>1
  <2>5. Len(u) = 3 => u[1] \in 240 .. 244
    BY SMT, <1>1, <1>2, <2>3
  <2>6. Len(u) < 4
    BY SMT, <1>1, <1>2
  <2>7. QED
    BY <1>1, <2>1, <2>4, <2>5, <2>6, SMTT(60) DEF WellFormed
<1>5. Len(u) \in 1 .. 3
  <2> DEFINE m == Len(u)
             n == SequenceLength(u[1])
  <2>1. m \in Nat /\ m >= 1 /\ n \in {2, 3, 4} /\ m < n
    BY <1>1, <1>2
  <2> HIDE DEF m, n
  <2>2. m \in 1 .. 3
    BY <2>1
  <2>3. QED
    BY <2>2 DEF m
<1>6. QED
  BY <1>1, <1>2, <1>3, <1>4, <1>5

(* An unfinished sequence is no text yet.                                  *)
LEMMA TextOfNothing ==
  ASSUME NEW u, u = << >> \/ Unfinished(u)
  PROVE  Text[u] = << >>
<1>1. CASE u = << >>
  BY <1>1, TextEquation
<1>2. CASE Unfinished(u)
  <2>1. << >> \in Seq(Byte) /\ u \o << >> = u
    BY <1>2, EmptySeq, UnfinishedGroup, ConcatEmptySeq
  <2>2. GroupLength(u) = Len(u) /\ Behind(u) = << >> /\ u \in Seq(Byte) /\ u # << >>
    <3>1. /\ u \in Seq(Byte) /\ u # << >> /\ Len(u) <= Claimed(u[1])
          /\ \A i \in 2 .. Len(u) : u[i] \in Tails
      <4>1. Len(u) <= Claimed(u[1])
        BY <1>2, UnfinishedGroup DEF Unfinished
      <4>2. QED
        BY <1>2, <4>1, UnfinishedGroup
    <3> DEFINE y == << >>
    <3>2. y \in Seq(Byte) /\ y = << >>
      BY <2>1
    <3> HIDE DEF y
    <3>3. GroupLength(u \o y) = Len(u) /\ Behind(u \o y) = y
      BY <3>1, <3>2, FirstGroup
    <3>4. QED
      BY <2>1, <3>1, <3>2, <3>3
  <2>3. GroupLength(u) < Claimed(u[1])
    <3>1. Len(u) < SequenceLength(u[1])
      BY <1>2 DEF Unfinished
    <3>2. Claimed(u[1]) = SequenceLength(u[1])
      BY <1>2, UnfinishedGroup
    <3>3. QED
      BY <2>2, <3>1, <3>2
  <2>4. QED
    BY <2>2, <2>3, TextEquation DEF TextStep
<1>3. QED
  BY <1>1, <1>2

(* An unfinished sequence before a byte that does not continue it is one   *)
(* U+FFFD.                                                                 *)
LEMMA TextBroken ==
  ASSUME NEW u, Unfinished(u), NEW y \in Seq(Byte), y # << >>, ~IsContinuation(y[1])
  PROVE  Text[u \o y] = Replacement \o Text[y]
<1>1. y[1] \notin Tails
  BY DEF IsContinuation, Tails
<1>2. /\ u \o y \in Seq(Byte) /\ u \o y # << >>
      /\ GroupLength(u \o y) = Len(u) /\ Group(u \o y) = u /\ Behind(u \o y) = y
  <2>1. u \in Seq(Byte) /\ u # << >> /\ \A i \in 2 .. Len(u) : u[i] \in Tails
    BY UnfinishedGroup
  <2>2. Len(u) <= Claimed(u[1])
    BY UnfinishedGroup DEF Unfinished
  <2>3. QED
    BY <1>1, <2>1, <2>2, FirstGroup
<1>3. Text[u \o y] = TextStep(u \o y, Text[y])
  BY <1>2, TextEquation
<1>4. Character(u) = Replacement
  BY UnfinishedGroup DEF Character
<1>5. QED
  BY <1>2, <1>3, <1>4 DEF TextStep

(* A finished sequence is itself when it is valid, and one U+FFFD          *)
(* otherwise.                                                              *)
LEMMA TextFinished ==
  ASSUME NEW u \in Seq(Byte), u # << >>, Len(u) = SequenceLength(u[1]),
         \A i \in 2 .. Len(u) : IsContinuation(u[i]),
         NEW y \in Seq(Byte)
  PROVE  Text[u \o y] = (IF Utf8SequenceValid(u) THEN u ELSE Replacement) \o Text[y]
<1>1. u[1] \in Byte /\ Len(u) > 0
  BY EmptySeq, ElementOfSeq
<1>2. Claimed(u[1]) = Len(u)
  BY <1>1, Claims
<1>3. \A i \in 2 .. Len(u) : u[i] \in Tails
  BY DEF IsContinuation, Tails
<1>4. /\ u \o y \in Seq(Byte) /\ u \o y # << >> /\ (u \o y)[1] = u[1]
      /\ GroupLength(u \o y) = Len(u) /\ Group(u \o y) = u /\ Behind(u \o y) = y
  BY <1>1, <1>2, <1>3, FirstGroup
<1>5. Text[u \o y] = TextStep(u \o y, Text[y])
  BY <1>4, TextEquation
<1>6. ~(GroupLength(u \o y) < Claimed((u \o y)[1]))
  BY <1>1, <1>2, <1>4
<1>7. Text[u \o y] = Character(u) \o Text[y]
  BY <1>4, <1>5, <1>6 DEF TextStep
<1>8. QED
  BY <1>1, <1>3, <1>7, ValidIsWellFormed DEF Character

(* A byte that announces no sequence is itself or one U+FFFD.              *)
LEMMA TextOfByte ==
  ASSUME NEW b \in Byte, SequenceLength(b) = 0, NEW y \in Seq(Byte)
  PROVE  Text[<< b >> \o y] = (IF b < 128 THEN << b >> ELSE Replacement) \o Text[y]
<1> DEFINE u == << b >>
<1>1. u \in Seq(Byte) /\ u # << >> /\ Len(u) = 1 /\ u[1] = b /\ Claimed(b) = 1
  BY Claims
<1>2. WellFormed(u) <=> b < 128
  BY <1>1 DEF WellFormed
<1> HIDE DEF u
<1>3. /\ u \o y \in Seq(Byte) /\ u \o y # << >> /\ (u \o y)[1] = u[1]
      /\ GroupLength(u \o y) = Len(u) /\ Group(u \o y) = u /\ Behind(u \o y) = y
  <2>1. Len(u) <= Claimed(u[1]) /\ Len(u) = Claimed(u[1])
    BY <1>1
  <2>2. \A i \in 2 .. Len(u) : u[i] \in Tails
    BY <1>1
  <2>3. QED
    BY <1>1, <2>1, <2>2, FirstGroup
<1>4. Text[u \o y] = TextStep(u \o y, Text[y])
  BY <1>3, TextEquation
<1>5. Text[u \o y] = Character(u) \o Text[y]
  BY <1>1, <1>3, <1>4 DEF TextStep
<1>6. Character(u) = IF b < 128 THEN u ELSE Replacement
  BY <1>2 DEF Character
<1>7. QED
  BY <1>5, <1>6 DEF u

-----------------------------------------------------------------------------
(***************************************************************************)
(* Lines.  What more bytes make of the lines there are.                    *)
(***************************************************************************)

(* Induction over a sequence that grows by one element at a time.          *)
LEMMA ByAppend ==
  ASSUME NEW S, NEW T, << >> \in T, \A s \in Seq(S) : s \in T => \A e \in S : Append(s, e) \in T
  PROVE  \A s \in Seq(S) : s \in T
<1>1. ASSUME NEW s \in Seq(S), \A r \in Seq(S) : Len(r) < Len(s) => r \in T
      PROVE  s \in T
  <2>1. CASE s = << >>
    BY <2>1
  <2>2. CASE s # << >>
    <3>1. Front(s) \in Seq(S) /\ Len(Front(s)) < Len(s) /\ Last(s) \in S
          /\ s = Append(Front(s), Last(s))
      BY <2>2, Fronts
    <3>2. Front(s) \in T
      BY <1>1, <3>1
    <3>3. QED
      BY <3>1, <3>2
  <2>3. QED
    BY <2>1, <2>2
<1>2. QED
  BY <1>1, ByLength

(* There is always a last line, the one that has not ended.                *)
LEMMA LinesType ==
  ASSUME NEW t \in Seq(Byte)
  PROVE  /\ LinesOf[t] \in Seq(Texts) /\ LinesOf[t] # << >>
         /\ Front(LinesOf[t]) \in Seq(Texts) /\ Last(LinesOf[t]) \in Texts
         /\ LinesOf[t] = Append(Front(LinesOf[t]), Last(LinesOf[t]))
<1>1. LinesOf[t] \in Seq(Texts) /\ LinesOf[t] # << >>
  BY LinesEquation DEF Texts
<1>2. QED
  BY <1>1, Fronts

(* What one byte more does to the lines.                                   *)
LEMMA LinesOfByte ==
  ASSUME NEW t \in Seq(Byte), NEW b \in Byte, NEW L \in Seq(Texts), NEW l \in Texts,
         LinesOf[t] = Append(L, l)
  PROVE  LinesOf[Append(t, b)] =
           IF b = LF /\ t # << >> /\ Last(t) = CR THEN Append(L, l)
           ELSE IF b \in {LF, CR} THEN Append(Append(L, l), << >>)
           ELSE Append(L, Append(l, b))
<1> DEFINE s == Append(t, b)
<1>1. s \in Seq(Byte) /\ s # << >> /\ Front(s) = t /\ Last(s) = b
  BY Fronts
<1> HIDE DEF s
<1>2. LinesOf[s] = LinesStep(s, Append(L, l))
  BY <1>1, LinesEquation
<1>3. Front(Append(L, l)) = L /\ Last(Append(L, l)) = l
  BY Fronts
<1> DEFINE all == Append(L, l)
<1> HIDE DEF all
<1>4. QED
  BY <1>1, <1>2, <1>3 DEF LinesStep, s, all

(* Bytes that end no line make the last one longer.                        *)
LEMMA LinesOfPlain ==
  ASSUME NEW t \in Seq(Byte), NEW L \in Seq(Texts), NEW l \in Texts, LinesOf[t] = Append(L, l),
         NEW bytes \in Seq(Byte), \A i \in 1 .. Len(bytes) : bytes[i] \notin {LF, CR}
  PROVE  LinesOf[t \o bytes] = Append(L, l \o bytes)
<1> DEFINE Plain(x) == \A i \in 1 .. Len(x) : x[i] \notin {LF, CR}
           T == {x \in Seq(Byte) : Plain(x) => LinesOf[t \o x] = Append(L, l \o x)}
<1>1. << >> \in T
  <2>1. << >> \in Seq(Byte) /\ t \o << >> = t /\ l \o << >> = l
    BY EmptySeq, ConcatEmptySeq DEF Texts
  <2>2. QED
    BY <2>1
<1>2. ASSUME NEW x \in Seq(Byte), x \in T, NEW e \in Byte PROVE Append(x, e) \in T
  <2> DEFINE y == Append(x, e)
  <2>1. y \in Seq(Byte) /\ Len(y) = Len(x) + 1 /\ Len(x) \in Nat
        /\ (\A i \in 1 .. Len(x) : y[i] = x[i]) /\ y[Len(x) + 1] = e
    BY AppendProperties, LenProperties
  <2>2. t \o y = Append(t \o x, e) /\ l \o y = Append(l \o x, e) /\ t \o x \in Seq(Byte)
        /\ l \o x \in Texts
    <3>1. /\ y = x \o << e >> /\ << e >> \in Seq(Byte)
      BY AppendIsConcat
    <3>2. \A a \in Seq(Byte) : a \o y = Append(a \o x, e) /\ a \o x \in Seq(Byte)
      <4> TAKE a \in Seq(Byte)
      <4>1. a \o x \in Seq(Byte)
        BY ConcatProperties
      <4>2. a \o (x \o << e >>) = (a \o x) \o << e >>
        BY <3>1, ConcatAssociative
      <4>3. (a \o x) \o << e >> = Append(a \o x, e)
        BY <4>1, AppendIsConcat
      <4>4. QED
        BY <3>1, <4>1, <4>2, <4>3
    <3>3. QED
      BY <3>2 DEF Texts
  <2> HIDE DEF y
  <2>3. ASSUME Plain(y) PROVE LinesOf[t \o y] = Append(L, l \o y)
    <3>1. Plain(x)
      <4> TAKE i \in 1 .. Len(x)
      <4>1. i \in 1 .. Len(y) /\ y[i] = x[i]
        BY <2>1
      <4>2. QED
        BY <2>3, <4>1
    <3>2. e \notin {LF, CR}
      <4>1. Len(x) + 1 \in 1 .. Len(y)
        BY <2>1
      <4>2. QED
        BY <2>1, <2>3, <4>1
    <3>3. LinesOf[t \o x] = Append(L, l \o x)
      BY <1>2, <3>1
    <3> DEFINE tx == t \o x
               lx == l \o x
    <3>4. tx \in Seq(Byte) /\ lx \in Texts /\ LinesOf[tx] = Append(L, lx)
      BY <2>2, <3>3
    <3> HIDE DEF tx, lx
    <3>5. LinesOf[Append(tx, e)] = Append(L, Append(lx, e))
      <4>1. LinesOf[Append(tx, e)] =
              IF e = LF /\ tx # << >> /\ Last(tx) = CR THEN Append(L, lx)
              ELSE IF e \in {LF, CR} THEN Append(Append(L, lx), << >>)
              ELSE Append(L, Append(lx, e))
        BY <3>4, LinesOfByte
      <4>2. e # LF /\ e # CR
        BY <3>2
      <4>3. QED
        BY <4>1, <4>2
    <3>6. QED
      BY <2>2, <3>5 DEF tx, lx
  <2>4. QED
    BY <2>1, <2>3 DEF y
<1> HIDE DEF T
<1>3. bytes \in T
  BY <1>1, <1>2, ByAppend
<1>4. QED
  BY <1>3 DEF T

(* More bytes end more lines and lengthen the last, and leave alone those  *)
(* that have ended.                                                        *)
Grown(A, B) ==
  /\ Len(A) >= 1 /\ Len(A) <= Len(B)
  /\ \A i \in 1 .. Len(A) - 1 : B[i] = A[i]
  /\ Len(A[Len(A)]) <= Len(B[Len(A)])

(* A text one byte longer has grown lines.                                 *)
LEMMA GrownByByte ==
  ASSUME NEW t \in Seq(Byte), NEW b \in Byte
  PROVE  Grown(LinesOf[t], LinesOf[Append(t, b)])
<1> DEFINE L == Front(LinesOf[t])
           l == Last(LinesOf[t])
           A == Append(L, l)
           n == Len(L)
<1>1. L \in Seq(Texts) /\ l \in Texts /\ LinesOf[t] = A
  BY LinesType
<1> HIDE DEF L, l
<1>2. n \in Nat /\ A \in Seq(Texts) /\ Len(A) = n + 1 /\ A[n + 1] = l
      /\ \A i \in 1 .. n : A[i] = L[i]
  BY <1>1, AppendProperties, LenProperties
<1>3. Len(l) \in Nat /\ << >> \in Texts /\ Append(l, b) \in Texts /\ Len(Append(l, b)) = Len(l) + 1
  BY <1>1, AppendProperties, LenProperties, EmptySeq DEF Texts
<1> HIDE DEF A, n
<1>4. Grown(A, A)
  BY <1>2, <1>3 DEF Grown
<1>5. Grown(A, Append(A, << >>))
  <2> DEFINE B == Append(A, << >>)
  <2>1. Len(B) = Len(A) + 1 /\ \A i \in 1 .. Len(A) : B[i] = A[i]
    BY <1>2, <1>3, AppendProperties
  <2> HIDE DEF B
  <2>2. QED
    BY <1>2, <1>3, <2>1 DEF Grown, B
<1>6. Grown(A, Append(L, Append(l, b)))
  <2> DEFINE k == Append(l, b)
             B == Append(L, k)
  <2>1. k \in Texts /\ Len(k) = Len(l) + 1
    BY <1>3
  <2> HIDE DEF k
  <2>2. Len(B) = n + 1 /\ B[n + 1] = k /\ \A i \in 1 .. n : B[i] = L[i]
    BY <1>1, <2>1, AppendProperties DEF n
  <2> HIDE DEF B
  <2>3. QED
    BY <1>2, <1>3, <2>1, <2>2 DEF Grown, B, k
<1>7. LinesOf[Append(t, b)] \in {A, Append(A, << >>), Append(L, Append(l, b))}
  BY <1>1, LinesOfByte, ZenonT(60) DEF A
<1>8. QED
  BY <1>1, <1>4, <1>5, <1>6, <1>7

(* Growing twice is growing.                                               *)
LEMMA GrownTransitive ==
  ASSUME NEW A \in Seq(Texts), NEW B \in Seq(Texts), NEW C \in Seq(Texts), Grown(A, B), Grown(B, C)
  PROVE  Grown(A, C)
<1> DEFINE m == Len(A)
           n == Len(B)
           k == Len(C)
           size(s) == Len(s)
<1>1. m \in Nat /\ n \in Nat /\ k \in Nat /\ 1 <= m /\ m <= n /\ n <= k
  BY LenProperties DEF Grown
<1>2. /\ \A i \in 1 .. m - 1 : B[i] = A[i]
      /\ \A i \in 1 .. n - 1 : C[i] = B[i]
      /\ Len(A[m]) <= Len(B[m]) /\ Len(B[n]) <= Len(C[n])
  BY DEF Grown
<1>3. Len(A[m]) \in Nat /\ Len(B[m]) \in Nat /\ Len(C[m]) \in Nat
  <2>1. m \in 1 .. Len(A) /\ m \in 1 .. Len(B) /\ m \in 1 .. Len(C)
    BY <1>1
  <2>2. A[m] \in Texts /\ B[m] \in Texts /\ C[m] \in Texts
    BY <2>1, ElementOfSeq
  <2>3. QED
    BY <2>2, LenProperties DEF Texts
<1> HIDE DEF m, n, k
<1>4. \A i \in 1 .. m - 1 : C[i] = A[i]
  <2> TAKE i \in 1 .. m - 1
  <2>1. i \in 1 .. n - 1
    BY <1>1
  <2>2. QED
    BY <1>2, <2>1
<1>5. Len(A[m]) <= Len(C[m])
  <2>1. CASE m = n
    <3>1. Len(B[m]) <= Len(C[m])
      BY <1>2, <2>1
    <3>2. QED
      BY <1>2, <1>3, <3>1
  <2>2. CASE m # n
    <3>1. m \in 1 .. n - 1
      BY <1>1, <2>2
    <3>2. C[m] = B[m]
      BY <1>2, <3>1
    <3>3. QED
      BY <1>2, <3>2
  <2>3. QED
    BY <2>1, <2>2
<1>6. QED
  <2>1. m >= 1 /\ m <= k
    BY <1>1
  <2>2. QED
    BY <1>4, <1>5, <2>1 DEF Grown, m, k

(* Lines only ever grow: whatever follows, ended lines stay and the last   *)
(* one gets no shorter.                                                    *)
LEMMA LinesGrow ==
  ASSUME NEW t \in Seq(Byte), NEW x \in Seq(Byte)
  PROVE  Grown(LinesOf[t], LinesOf[t \o x])
<1> DEFINE T == {y \in Seq(Byte) : Grown(LinesOf[t], LinesOf[t \o y])}
<1>1. << >> \in T
  <2>1. << >> \in Seq(Byte) /\ t \o << >> = t
    BY EmptySeq, ConcatEmptySeq
  <2> DEFINE A == LinesOf[t]
  <2>2. A \in Seq(Texts) /\ A # << >>
    BY LinesType
  <2> HIDE DEF A
  <2>3. Len(A) \in Nat /\ Len(A) >= 1 /\ Len(A) \in 1 .. Len(A)
    BY <2>2, EmptySeq
  <2>4. A[Len(A)] \in Texts
    BY <2>2, <2>3, ElementOfSeq
  <2>5. Len(A[Len(A)]) \in Nat
    BY <2>4, LenProperties DEF Texts
  <2>6. Grown(A, A)
    BY <2>3, <2>5 DEF Grown
  <2>7. QED
    BY <2>1, <2>6 DEF A
<1>2. ASSUME NEW y \in Seq(Byte), y \in T, NEW e \in Byte PROVE Append(y, e) \in T
  <2>1. Append(y, e) \in Seq(Byte) /\ t \o y \in Seq(Byte)
    BY AppendProperties, ConcatProperties
  <2>2. t \o Append(y, e) = Append(t \o y, e)
    <3>1. Append(y, e) = y \o << e >> /\ << e >> \in Seq(Byte)
      BY AppendIsConcat
    <3>2. t \o (y \o << e >>) = (t \o y) \o << e >>
      BY <3>1, ConcatAssociative
    <3>3. (t \o y) \o << e >> = Append(t \o y, e)
      BY <2>1, AppendIsConcat
    <3>4. QED
      BY <3>1, <3>2, <3>3
  <2> DEFINE ty == t \o y
  <2>3. ty \in Seq(Byte) /\ Grown(LinesOf[t], LinesOf[ty])
    BY <1>2, <2>1
  <2> HIDE DEF ty
  <2>4. Grown(LinesOf[ty], LinesOf[Append(ty, e)]) /\ Append(ty, e) \in Seq(Byte)
    BY <2>3, GrownByByte, AppendProperties
  <2>5. LinesOf[t] \in Seq(Texts) /\ LinesOf[ty] \in Seq(Texts)
        /\ LinesOf[Append(ty, e)] \in Seq(Texts)
    BY <2>3, <2>4, LinesType
  <2>6. Grown(LinesOf[t], LinesOf[Append(ty, e)])
    BY <2>3, <2>4, <2>5, GrownTransitive
  <2>7. QED
    BY <2>1, <2>2, <2>6 DEF ty
<1> HIDE DEF T
<1>3. x \in T
  BY <1>1, <1>2, ByAppend
<1>4. QED
  BY <1>3 DEF T

-----------------------------------------------------------------------------
(***************************************************************************)
(* Fields.  sse_process_line finds the field the reference finds, and its  *)
(* value.                                                                  *)
(***************************************************************************)

(* A set of numbers up to n that is not empty has a greatest one.          *)
LEMMA Greatest ==
  ASSUME NEW n \in Nat, NEW W \in SUBSET (0 .. n), W # {}
  PROVE  \E i \in W : \A j \in W : j <= i
<1> DEFINE Has(V) == \E i \in V : \A j \in V : j <= i
           T == {m \in Nat : \A V \in SUBSET (0 .. m) : V # {} => Has(V)}
<1>1. 0 \in T
  <2>1. ASSUME NEW V \in SUBSET (0 .. 0), V # {} PROVE Has(V)
    <3>1. PICK i \in V : TRUE
      BY <2>1
    <3>2. \A j \in V : j = 0
      BY <2>1
    <3>3. \A j \in V : j <= i
      BY <3>1, <3>2
    <3>4. QED
      BY <3>1, <3>3
  <2>2. QED
    BY <2>1
<1>2. ASSUME NEW m \in Nat, m \in T PROVE m + 1 \in T
  <2>1. ASSUME NEW V \in SUBSET (0 .. m + 1), V # {} PROVE Has(V)
    <3>1. CASE m + 1 \in V
      <4>1. \A j \in V : j <= m + 1
        BY <2>1
      <4>2. QED
        BY <3>1, <4>1
    <3>2. CASE m + 1 \notin V
      <4>1. V \in SUBSET (0 .. m)
        BY <2>1, <3>2
      <4> HIDE DEF Has
      <4>2. QED
        BY <1>2, <2>1, <4>1
    <3>3. QED
      BY <3>1, <3>2
  <2> HIDE DEF Has
  <2>2. QED
    BY <2>1
<1> HIDE DEF T
<1>3. n \in T
  BY <1>1, <1>2, ByNumber
<1>4. QED
  BY <1>3 DEF T

(* The name of a field ends at the first colon or with the line.           *)
LEMMA NameSpan ==
  ASSUME NEW l \in Seq(Byte)
  PROVE  /\ NameLength(l) \in 0 .. Len(l)
         /\ \A j \in 1 .. NameLength(l) : l[j] # COLON
         /\ NameLength(l) < Len(l) => l[NameLength(l) + 1] = COLON
<1> DEFINE Ends(k, m) == (k < m => l[k + 1] = COLON) /\ \A j \in 1 .. k : l[j] # COLON
           T == {m \in Nat : \E k \in 0 .. m : Ends(k, m)}
           N == Len(l)
<1>1. N \in Nat
  BY LenProperties
<1>2. 0 \in T
  <2>1. Ends(0, 0) /\ 0 \in 0 .. 0
    OBVIOUS
  <2>2. QED
    BY <2>1
<1>3. ASSUME NEW m \in Nat, m \in T PROVE m + 1 \in T
  <2>1. PICK k \in 0 .. m : Ends(k, m)
    BY <1>3
  <2>2. CASE k < m \/ l[m + 1] = COLON
    <3>1. k = m \/ k < m
      BY <2>1
    <3>2. k \in 0 .. m + 1
      BY <2>1
    <3>3. l[k + 1] = COLON
      BY <2>1, <2>2, <3>1
    <3>4. Ends(k, m + 1)
      BY <2>1, <3>3
    <3>5. QED
      BY <3>2, <3>4
  <2>3. CASE ~(k < m) /\ l[m + 1] # COLON
    <3>1. k = m
      BY <2>1, <2>3
    <3>2. \A j \in 1 .. m + 1 : j \in 1 .. m \/ j = m + 1
      OBVIOUS
    <3>3. \A j \in 1 .. m + 1 : l[j] # COLON
      BY <2>1, <2>3, <3>1, <3>2
    <3>4. Ends(m + 1, m + 1) /\ m + 1 \in 0 .. m + 1
      BY <3>3
    <3>5. QED
      BY <3>4
  <2>4. QED
    BY <2>2, <2>3
<1> HIDE DEF T
<1>4. N \in T
  BY <1>1, <1>2, <1>3, ByNumber
<1>5. PICK k \in 0 .. N : Ends(k, N)
  BY <1>4 DEF T
<1> DEFINE P == {i \in 1 .. N : \A j \in 1 .. i : l[j] # COLON}
<1> HIDE DEF N
<1>6. P = 1 .. k
  <2>1. ASSUME NEW i \in 1 .. k PROVE i \in P
    <3>1. i \in 1 .. N /\ \A j \in 1 .. i : j \in 1 .. k
      BY <1>1, <1>5
    <3>2. QED
      BY <1>5, <3>1
  <2>2. ASSUME NEW i \in P PROVE i \in 1 .. k
    <3>1. SUFFICES ASSUME k < i PROVE FALSE
      BY <1>1, <1>5
    <3>2. k + 1 \in 1 .. i /\ k < N
      BY <1>1, <1>5, <2>2, <3>1
    <3>3. l[k + 1] # COLON
      BY <2>2, <3>2
    <3>4. QED
      BY <1>5, <3>2, <3>3
  <2>3. QED
    BY <2>1, <2>2
<1>7. Cardinality(1 .. k) = k
  BY <1>5, FS_Interval
<1>8. NameLength(l) = k
  BY <1>6, <1>7 DEF NameLength, N
<1>9. QED
  BY <1>5, <1>8 DEF N

(* What IsPrefix says of single elements.                                  *)
LEMMA PrefixMeans ==
  ASSUME NEW S, NEW s \in Seq(S), NEW t \in Seq(S)
  PROVE  IsPrefix(s, t) <=> Len(s) <= Len(t) /\ \A i \in 1 .. Len(s) : s[i] = t[i]
<1>1. Len(s) \in Nat /\ Len(t) \in Nat
  BY LenProperties
<1>2. CASE ~(Len(s) <= Len(t))
  BY <1>2 DEF IsPrefix
<1>3. CASE Len(s) <= Len(t)
  <2> DEFINE n == Len(s)
             a == SubSeq(s, 1, n)
             b == SubSeq(t, 1, n)
  <2>1. (\A i \in 1 .. n : s[i] \in S) /\ \A i \in 1 .. n : t[i] \in S
    <3>1. \A i \in 1 .. n : i \in 1 .. Len(s) /\ i \in 1 .. Len(t)
      BY <1>1, <1>3
    <3>2. QED
      BY <3>1, ElementOfSeq
  <2>2. 1 \in Int /\ n \in Int /\ n - 1 + 1 = n /\ (IF 1 <= n THEN n - 1 + 1 ELSE 0) = n
    BY <1>1
  <2> HIDE DEF n
  <2>3. a \in Seq(S) /\ Len(a) = n /\ \A i \in 1 .. n : a[i] = s[1 + i - 1]
    BY <2>1, <2>2, SubSeqProperties
  <2>4. b \in Seq(S) /\ Len(b) = n /\ \A i \in 1 .. n : b[i] = t[1 + i - 1]
    BY <2>1, <2>2, SubSeqProperties
  <2>5. \A i \in 1 .. n : 1 + i - 1 = i
    BY <2>2
  <2>6. (\A i \in 1 .. n : a[i] = s[i]) /\ \A i \in 1 .. n : b[i] = t[i]
    BY <2>3, <2>4, <2>5
  <2> HIDE DEF a, b
  <2>7. a = b <=> \A i \in 1 .. n : s[i] = t[i]
    <3>1. ASSUME a = b PROVE \A i \in 1 .. n : s[i] = t[i]
      BY <2>6, <3>1
    <3>2. ASSUME \A i \in 1 .. n : s[i] = t[i] PROVE a = b
      <4>1. \A i \in 1 .. Len(a) : a[i] = b[i]
        BY <2>3, <2>6, <3>2
      <4>2. QED
        BY <2>3, <2>4, <4>1, SeqEqual
    <3>3. QED
      BY <3>1, <3>2
  <2>8. QED
    BY <1>3, <2>7 DEF IsPrefix, n, a, b
<1>4. QED
  BY <1>2, <1>3

(* A line has a field exactly when its bytes before the first colon are    *)
(* the name.                                                               *)
LEMMA Named ==
  ASSUME NEW l \in Seq(Byte), NEW name \in Seq(Byte), \A i \in 1 .. Len(name) : name[i] # COLON
  PROVE  /\ FieldName(l) = name <=> HasField(l, name)
         /\ HasField(l, name) => NameLength(l) = Len(name)
<1> DEFINE n == NameLength(l)
           m == Len(name)
           N == Len(l)
           f == FieldName(l)
           c == name \o << COLON >>
<1>1. N \in Nat /\ m \in Nat /\ n \in 0 .. N /\ (\A j \in 1 .. n : l[j] # COLON)
      /\ (n < N => l[n + 1] = COLON)
  BY NameSpan, LenProperties
<1>2. f \in Seq(Byte) /\ Len(f) = n /\ \A i \in 1 .. n : f[i] = l[i]
  <2>1. \A i \in 1 .. n : l[i] \in Byte
    BY <1>1, ElementOfSeq
  <2>2. 1 \in Int /\ n \in Int /\ n - 1 + 1 = n /\ (IF 1 <= n THEN n - 1 + 1 ELSE 0) = n
    BY <1>1
  <2>3. f = SubSeq(l, 1, n)
    BY DEF FieldName
  <2> HIDE DEF n, f
  <2>4. f \in Seq(Byte) /\ Len(f) = n /\ \A i \in 1 .. n : f[i] = l[1 + i - 1]
    BY <2>1, <2>2, <2>3, SubSeqProperties
  <2>5. \A i \in 1 .. n : 1 + i - 1 = i
    BY <2>2
  <2>6. QED
    BY <2>4, <2>5
<1>3. c \in Seq(Byte) /\ Len(c) = m + 1 /\ (\A i \in 1 .. m : c[i] = name[i]) /\ c[m + 1] = COLON
  <2>1. COLON \in Byte
    BY DEF COLON, Byte
  <2>2. c = Append(name, COLON)
    BY <2>1, AppendIsConcat
  <2>3. QED
    BY <2>1, <2>2, AppendProperties
<1> HIDE DEF n, m, N, f, c
<1>4. IsPrefix(c, l) <=> m + 1 <= N /\ \A i \in 1 .. m + 1 : c[i] = l[i]
  <2>1. c \in Seq(Byte)
    BY <1>3
  <2>2. IsPrefix(c, l) <=> Len(c) <= Len(l) /\ \A i \in 1 .. Len(c) : c[i] = l[i]
    BY <2>1, PrefixMeans
  <2>3. QED
    BY <1>3, <2>2 DEF N
<1>5. HasField(l, name) <=> l = name \/ IsPrefix(c, l)
  BY DEF HasField, c
<1>6. ASSUME f = name PROVE l = name \/ IsPrefix(c, l)
  <2>1. n = m
    BY <1>2, <1>6 DEF m
  <2>2. CASE n = N
    <3>1. \A i \in 1 .. Len(l) : l[i] = name[i]
      BY <1>2, <1>6, <2>2 DEF N
    <3>2. l = name
      BY <2>1, <2>2, <3>1, SeqEqual DEF m, N
    <3>3. QED
      BY <3>2
  <2>3. CASE n # N
    <3>1. n < N /\ l[n + 1] = COLON
      BY <1>1, <2>3
    <3>2. \A i \in 1 .. m + 1 : i \in 1 .. m \/ i = m + 1
      BY <1>1
    <3>3. \A i \in 1 .. m : c[i] = l[i]
      BY <1>2, <1>3, <1>6, <2>1
    <3>4. c[m + 1] = l[m + 1]
      BY <1>3, <2>1, <3>1
    <3>5. \A i \in 1 .. m + 1 : c[i] = l[i]
      BY <3>2, <3>3, <3>4
    <3>6. QED
      BY <1>1, <1>4, <2>1, <3>1, <3>5
  <2>4. QED
    BY <2>2, <2>3
<1>7. ASSUME l = name \/ IsPrefix(c, l) PROVE f = name /\ n = m
  <2>1. m <= N /\ (\A i \in 1 .. m : l[i] = name[i]) /\ (m < N => l[m + 1] = COLON)
    <3>1. CASE l = name
      BY <1>1, <3>1 DEF m, N
    <3>2. CASE IsPrefix(c, l)
      <4>1. m + 1 <= N /\ \A i \in 1 .. m + 1 : c[i] = l[i]
        BY <1>4, <3>2
      <4>2. m + 1 \in 1 .. m + 1 /\ \A i \in 1 .. m : i \in 1 .. m + 1
        BY <1>1
      <4>3. QED
        BY <1>1, <1>3, <4>1, <4>2
    <3>3. QED
      BY <1>7, <3>1, <3>2
  <2>2. ~(n < m)
    <3> SUFFICES ASSUME n < m PROVE FALSE
      OBVIOUS
    <3>1. n + 1 \in 1 .. m /\ n < N
      BY <1>1, <2>1
    <3>2. name[n + 1] # COLON
      BY <3>1 DEF m
    <3>3. QED
      BY <1>1, <2>1, <3>1, <3>2
  <2>3. ~(m < n)
    <3> SUFFICES ASSUME m < n PROVE FALSE
      OBVIOUS
    <3>1. m + 1 \in 1 .. n /\ m < N
      BY <1>1, <2>1
    <3>2. QED
      BY <1>1, <2>1, <3>1
  <2>4. n = m
    BY <1>1, <2>2, <2>3
  <2>5. f = name
    <3>1. Len(f) = Len(name)
      BY <1>2, <2>4 DEF m
    <3>2. \A i \in 1 .. Len(f) : f[i] = name[i]
      BY <1>2, <2>1, <2>4
    <3>3. QED
      BY <1>2, <3>1, <3>2, SeqEqual
  <2>6. QED
    BY <2>4, <2>5
<1>8. QED
  BY <1>5, <1>6, <1>7 DEF n, m, f

(* The value sse_process_line cuts off is the reference's.                 *)
LEMMA SameValue ==
  ASSUME NEW l \in Seq(Byte), NEW name, NameLength(l) = Len(name)
  PROVE  FieldValue(l) = ValueOf(l, name)
<1> DEFINE k == Len(name) + 2
           N == Len(l)
           rest == SubSeq(l, k, N)
<1>1. N \in Nat /\ Len(name) \in Nat /\ k \in Nat /\ k >= 2
  BY NameSpan, LenProperties
<1>2. \A i \in k .. N : l[i] \in Byte
  BY <1>1, ElementOfSeq
<1> HIDE DEF k
<1>3. rest \in Seq(Byte) /\ Len(rest) = (IF k <= N THEN N - k + 1 ELSE 0)
      /\ \A i \in 1 .. N - k + 1 : rest[i] = l[k + i - 1]
  <2>1. k \in Int /\ N \in Int
    BY <1>1
  <2> HIDE DEF N
  <2>2. QED
    BY <1>2, <2>1, SubSeqProperties
<1>4. ValueOf(l, name) = IF IsPrefix(<< SPACE >>, rest) THEN Tail(rest) ELSE rest
  BY DEF ValueOf, k
<1>5. FieldValue(l) = IF k <= N /\ l[k] = SPACE THEN SubSeq(l, k + 1, N) ELSE rest
  BY DEF FieldValue, k
<1>6. IsPrefix(<< SPACE >>, rest) <=> k <= N /\ l[k] = SPACE
  <2> DEFINE s == << SPACE >>
  <2>1. s \in Seq(Byte) /\ Len(s) = 1 /\ s[1] = SPACE
    BY DEF SPACE, Byte
  <2> HIDE DEF s, rest, N
  <2>2. IsPrefix(s, rest) <=> Len(s) <= Len(rest) /\ \A i \in 1 .. Len(s) : s[i] = rest[i]
    BY <1>3, <2>1, PrefixMeans, ZenonT(60)
  <2>3. IsPrefix(s, rest) <=> 1 <= Len(rest) /\ SPACE = rest[1]
    BY <2>1, <2>2
  <2>4. 1 <= Len(rest) <=> k <= N
    BY <1>1, <1>3
  <2>5. k <= N => rest[1] = l[k]
    <3> HAVE k <= N
    <3>1. 1 \in 1 .. N - k + 1 /\ k + 1 - 1 = k
      BY <1>1
    <3>2. QED
      BY <1>3, <3>1
  <2>6. QED
    BY <2>3, <2>4, <2>5 DEF s
<1>7. k <= N => Tail(rest) = SubSeq(l, k + 1, N)
  <2> HAVE k <= N
  <2>1. k \in 1 .. N /\ N \in k .. N
    BY <1>1
  <2>2. QED
    BY <2>1, HeadTailOfSubSeq
<1>8. QED
  BY <1>4, <1>5, <1>6, <1>7

(* The four fields: what the parser finds and what the reference finds.    *)
Fields == {DataName, EventName, IdName, RetryName}

(* The four names have no colon in them and differ.                        *)
LEMMA FieldNames ==
  /\ \A name \in Fields :
       /\ name \in Seq(Byte) /\ name # << >> /\ Len(name) \in Nat
       /\ \A i \in 1 .. Len(name) : name[i] # COLON
  /\ DataName # EventName /\ DataName # IdName /\ DataName # RetryName
  /\ EventName # IdName /\ EventName # RetryName /\ IdName # RetryName
<1>1. /\ DataName \in Seq(Byte) /\ DataName # << >> /\ Len(DataName) \in Nat
      /\ \A i \in 1 .. Len(DataName) : DataName[i] # COLON
  BY DEF DataName, Byte, COLON
<1>2. /\ EventName \in Seq(Byte) /\ EventName # << >> /\ Len(EventName) \in Nat
      /\ \A i \in 1 .. Len(EventName) : EventName[i] # COLON
  BY DEF EventName, Byte, COLON
<1>3. /\ IdName \in Seq(Byte) /\ IdName # << >> /\ Len(IdName) \in Nat
      /\ \A i \in 1 .. Len(IdName) : IdName[i] # COLON
  BY DEF IdName, Byte, COLON
<1>4. /\ RetryName \in Seq(Byte) /\ RetryName # << >> /\ Len(RetryName) \in Nat
      /\ \A i \in 1 .. Len(RetryName) : RetryName[i] # COLON
  BY DEF RetryName, Byte, COLON
<1>5. /\ DataName # EventName /\ DataName # IdName /\ DataName # RetryName
      /\ EventName # IdName /\ IdName # RetryName
  BY NameLengths
<1>6. EventName # RetryName
  <2>1. EventName[1] = 101 /\ RetryName[1] = 114
    BY DEF EventName, RetryName
  <2>2. QED
    BY <2>1
<1>7. QED
  BY <1>1, <1>2, <1>3, <1>4, <1>5, <1>6 DEF Fields

(* For the four names, sse_process_line finds what the reference finds.    *)
LEMMA FieldFound ==
  ASSUME NEW l \in Seq(Byte)
  PROVE  \A name \in Fields :
           /\ FieldName(l) = name <=> HasField(l, name)
           /\ HasField(l, name) => FieldValue(l) = ValueOf(l, name)
<1> TAKE name \in Fields
<1>1. name \in Seq(Byte) /\ \A i \in 1 .. Len(name) : name[i] # COLON
  BY FieldNames
<1>2. QED
  BY <1>1, Named, SameValue

(* A blank line has none of the fields.                                    *)
LEMMA BlankHasNoField ==
  \A name \in Fields : ~HasField(<< >>, name)
<1> TAKE name \in Fields
<1> DEFINE l == << >>
<1>1. l \in Seq(Byte) /\ name \in Seq(Byte) /\ name # << >>
      /\ \A i \in 1 .. Len(name) : name[i] # COLON
  BY FieldNames, EmptySeq
<1>2. Len(l) = 0 /\ l = << >>
  OBVIOUS
<1> HIDE DEF l
<1>3. NameLength(l) = 0
  <2> DEFINE k == NameLength(l)
  <2>1. k \in 0 .. Len(l)
    BY <1>1, NameSpan
  <2> HIDE DEF k
  <2>2. k = 0
    BY <1>2, <2>1
  <2>3. QED
    BY <2>2 DEF k
<1>4. Len(name) # 0
  BY <1>1, EmptySeq
<1>5. ~HasField(l, name)
  BY <1>1, <1>3, <1>4, Named
<1>6. QED
  BY <1>5 DEF l

(***************************************************************************)
(* The digits of a retry value.                                            *)
(***************************************************************************)

(* Sequences of digits, element by element.                                *)
LEMMA SameDigits ==
  ASSUME NEW v \in Seq(Byte)
  PROVE  v \in Seq(Digits) <=> \A i \in 1 .. Len(v) : v[i] \in Digits
<1>1. Len(v) \in Nat /\ v \in [1 .. Len(v) -> Byte]
  BY LenProperties
<1>2. v \in Seq(Digits) => \A i \in 1 .. Len(v) : v[i] \in Digits
  BY ElementOfSeq
<1>3. ASSUME \A i \in 1 .. Len(v) : v[i] \in Digits PROVE v \in Seq(Digits)
  <2>1. v \in [1 .. Len(v) -> Digits]
    BY <1>1, <1>3
  <2>2. QED
    BY <1>1, <2>1, SeqDef
<1>4. QED
  BY <1>2, <1>3

(* sse_parse_retry_value computes the number the digits stand for.         *)
LEMMA DecimalIsNumber ==
  ASSUME NEW v \in Seq(Digits)
  PROVE  Decimal(v) = Number[v]
<1> DEFINE n == Len(v)
           D == 0 .. n
           Val(g, i) == IF i = 0 THEN 0 ELSE g[i - 1] * 10 + (v[i] - 48)
           Is(g) == g = [i \in D |-> Val(g, i)]
           upTo == CHOOSE g : Is(g)
           f == [i \in D |-> Number[SubSeq(v, 1, i)]]
<1>1. n \in Nat
  BY LenProperties
<1>2. Decimal(v) = upTo[n]
  BY DEF Decimal
<1>3. \A i \in D : /\ SubSeq(v, 1, i) \in Seq(Digits)
                   /\ f[i] \in Nat
                   /\ i = 0 => f[i] = 0
                   /\ i # 0 => f[i] = f[i - 1] * 10 + (v[i] - 48)
  <2> TAKE i \in D
  <2> DEFINE s == SubSeq(v, 1, i)
  <2>1. s \in Seq(Digits)
    <3>1. \A j \in 1 .. i : v[j] \in Digits
      BY <1>1, ElementOfSeq
    <3>2. i \in Int
      BY <1>1
    <3>3. QED
      BY <3>1, <3>2, SubSeqProperties
  <2>2. f[i] = Number[s]
    OBVIOUS
  <2>3. f[i] \in Nat
    <3> HIDE DEF s
    <3>1. Number[s] \in Nat
      BY <2>1, NumberEquation
    <3>2. QED
      BY <2>2, <3>1
  <2>4. i = 0 => f[i] = 0
    <3> HAVE i = 0
    <3>1. s = << >>
      BY SubSeqEmpty
    <3>2. QED
      BY <2>2, <3>1, NumberEquation
  <2>5. i # 0 => f[i] = f[i - 1] * 10 + (v[i] - 48)
    <3> HAVE i # 0
    <3> DEFINE m == i - 1
               r == SubSeq(v, 1, m)
    <3>1. i \in 1 .. Len(v) /\ 1 \in 1 .. Len(v) /\ i \in 1 .. Len(v) /\ m \in D /\ m \in Nat
      BY <1>1
    <3>2. s = r \o << v[i] >>
      BY <3>1, SubSeqRecursiveSecond
    <3>3. r \in Seq(Digits) /\ v[i] \in Digits
      <4>1. \A j \in 1 .. m : v[j] \in Digits
        BY <1>1, <3>1, ElementOfSeq
      <4>2. m \in Int /\ 1 \in Int
        BY <3>1
      <4> HIDE DEF m
      <4>3. r \in Seq(Digits)
        BY <4>1, <4>2, SubSeqProperties
      <4>4. v[i] \in Digits
        BY <3>1, ElementOfSeq
      <4>5. QED
        BY <4>3, <4>4
    <3>4. f[m] = Number[r]
      BY <3>1
    <3> DEFINE e == v[i]
    <3> HIDE DEF r, s, m, f, e
    <3>5. s = Append(r, e)
      BY <3>2, <3>3, AppendIsConcat DEF e
    <3>6. s # << >> /\ Front(s) = r /\ Last(s) = e
      BY <3>3, <3>5, Fronts DEF e
    <3>7. Number[s] = 10 * Number[r] + (e - 48) /\ Number[r] \in Nat
      BY <2>1, <3>3, <3>6, NumberEquation
    <3>8. e \in 48 .. 57
      BY <3>3 DEF e, Digits
    <3>9. Number[s] = Number[r] * 10 + (e - 48)
      <4> DEFINE x == Number[r]
                 y == Number[s]
      <4>1. x \in Nat /\ y = 10 * x + (e - 48)
        BY <3>7
      <4> HIDE DEF x, y
      <4>2. y = x * 10 + (e - 48)
        BY <3>8, <4>1
      <4>3. QED
        BY <4>2 DEF x, y
    <3>10. QED
      BY <2>2, <3>4, <3>9 DEF m, e
  <2>6. QED
    BY <2>1, <2>3, <2>4, <2>5
<1>4. f = [i \in D |-> f[i]]
  OBVIOUS
<1> HIDE DEF f
<1>5. Is(f)
  <2>1. \A i \in D : f[i] = Val(f, i)
    BY <1>3
  <2> HIDE DEF Val
  <2>2. QED
    BY <1>4, <2>1
<1>6. Is(upTo)
  <2> HIDE DEF Val
  <2>1. QED
    BY <1>5
<1> HIDE DEF upTo
<1>7. \A i \in D : upTo[i] = Val(upTo, i)
  <2> HIDE DEF Val
  <2>1. QED
    BY <1>6
<1> DEFINE T == {i \in Nat : i <= n => upTo[i] = f[i]}
<1>8. 0 \in T
  <2>1. 0 \in D
    BY <1>1
  <2>2. QED
    BY <1>3, <1>7, <2>1
<1>9. ASSUME NEW i \in Nat, i \in T PROVE i + 1 \in T
  <2> SUFFICES ASSUME i + 1 <= n PROVE upTo[i + 1] = f[i + 1]
    OBVIOUS
  <2>1. i + 1 \in D /\ i + 1 # 0 /\ (i + 1) - 1 = i /\ i <= n
    BY <1>1
  <2>2. upTo[i] = f[i]
    BY <1>9, <2>1
  <2> DEFINE k == i + 1
  <2>3. k \in D /\ k # 0 /\ k - 1 = i
    BY <2>1
  <2> HIDE DEF k
  <2>4. upTo[k] = upTo[k - 1] * 10 + (v[k] - 48) /\ f[k] = f[k - 1] * 10 + (v[k] - 48)
    BY <1>3, <1>7, <2>3
  <2>5. QED
    BY <2>2, <2>3, <2>4 DEF k
<1> HIDE DEF T
<1>10. n \in T
  BY <1>1, <1>8, <1>9, ByNumber
<1>11. upTo[n] = f[n]
  BY <1>1, <1>10 DEF T
<1>12. f[n] = Number[v]
  <2>1. SubSeq(v, 1, n) = v /\ n \in D
    BY <1>1, SubSeqFull
  <2>2. QED
    BY <2>1 DEF f
<1>13. QED
  BY <1>2, <1>11, <1>12

(* It accepts exactly the retry values.                                    *)
LEMMA SameRetry ==
  ASSUME NEW v \in Seq(Byte)
  PROVE  /\ RetryValid(v) <=> IsRetry(v)
         /\ IsRetry(v) => Decimal(v) = Number[v]
<1>1. v \in Seq(48 .. 57) <=> \A i \in 1 .. Len(v) : v[i] \in 48 .. 57
  BY SameDigits DEF Digits
<1>2. CASE v \in Seq(48 .. 57)
  <2>1. Decimal(v) = Number[v] /\ Number[v] \in Nat
    BY <1>2, DecimalIsNumber, NumberEquation DEF Digits
  <2> DEFINE d == Decimal(v)
             k == Number[v]
  <2>2. d = k /\ k \in Nat /\ SizeMax \in Nat
    BY <2>1, CapacityAssumption
  <2> HIDE DEF d, k
  <2>3. d \in 0 .. SizeMax <=> k <= SizeMax
    BY <2>2
  <2>4. RetryValid(v) <=> v # << >> /\ d \in 0 .. SizeMax
    BY <1>1, <1>2 DEF RetryValid, d
  <2>5. IsRetry(v) <=> v # << >> /\ k <= SizeMax
    BY <1>2 DEF IsRetry, k
  <2>6. QED
    BY <2>1, <2>3, <2>4, <2>5
<1>3. CASE v \notin Seq(48 .. 57)
  BY <1>1, <1>3 DEF RetryValid, IsRetry
<1>4. QED
  BY <1>2, <1>3

-----------------------------------------------------------------------------
(***************************************************************************)
(* Blocks.  What one more line makes of the open block, of the last id and *)
(* of the retry value, and when it ends an event.                          *)
(***************************************************************************)

(* A sequence of lines with one line more.                                 *)
LEMMA OneMore ==
  ASSUME NEW L \in Seq(Texts), NEW l \in Texts
  PROVE  /\ Append(L, l) \in Seq(Texts) /\ Len(L) \in Nat /\ Len(Append(L, l)) = Len(L) + 1
         /\ DOMAIN L = 1 .. Len(L) /\ DOMAIN Append(L, l) = 1 .. Len(L) + 1
         /\ \A i \in 1 .. Len(L) : Append(L, l)[i] = L[i]
         /\ Append(L, l)[Len(L) + 1] = l
         /\ \A i \in 1 .. Len(L) + 1 : i \in 1 .. Len(L) \/ i = Len(L) + 1
<1> DEFINE M == Append(L, l)
<1>1. M \in Seq(Texts) /\ Len(M) = Len(L) + 1 /\ Len(L) \in Nat
      /\ (\A i \in 1 .. Len(L) : M[i] = L[i]) /\ M[Len(L) + 1] = l
  BY AppendProperties, LenProperties
<1>2. DOMAIN L = 1 .. Len(L) /\ DOMAIN M = 1 .. Len(M)
  BY <1>1, LenProperties
<1> HIDE DEF M
<1>3. \A i \in 1 .. Len(L) + 1 : i \in 1 .. Len(L) \/ i = Len(L) + 1
  BY <1>1
<1>4. QED
  BY <1>1, <1>2, <1>3 DEF M

(* The last value of a field is that of the new line if it has the field.  *)
LEMMA LastValueOfMore ==
  ASSUME NEW L \in Seq(Texts), NEW l \in Texts, NEW name, NEW W \in SUBSET (1 .. Len(L))
  PROVE  /\ W # {} => LastValue(Append(L, l), name, W) = LastValue(L, name, W)
         /\ LastValue(Append(L, l), name, W \cup {Len(L) + 1}) = ValueOf(l, name)
<1> DEFINE n == Len(L)
           M == Append(L, l)
<1>1. n \in Nat /\ (\A i \in 1 .. n : M[i] = L[i]) /\ M[n + 1] = l
  BY OneMore
<1> HIDE DEF n, M
<1>2. W \in SUBSET (1 .. n)
  BY DEF n
<1>3. W # {} => LastValue(M, name, W) = LastValue(L, name, W)
  <2> HAVE W # {}
  <2> DEFINE i == CHOOSE k \in W : \A j \in W : j <= k
  <2>1. \E k \in W : \A j \in W : j <= k
    <3>1. W \in SUBSET (0 .. n)
      BY <1>1, <1>2
    <3>2. QED
      BY <1>1, <3>1, Greatest
  <2>2. i \in W
    BY <2>1
  <2> HIDE DEF i
  <2>3. M[i] = L[i]
    BY <1>1, <1>2, <2>2
  <2>4. QED
    BY <2>3 DEF LastValue, i
<1>4. LastValue(M, name, W \cup {n + 1}) = ValueOf(l, name)
  <2> DEFINE V == W \cup {n + 1}
             i == CHOOSE k \in V : \A j \in V : j <= k
  <2>1. n + 1 \in V /\ \A j \in V : j \in Nat /\ j <= n + 1
    BY <1>1, <1>2
  <2> HIDE DEF V
  <2>2. i \in V /\ \A j \in V : j <= i
    BY <2>1
  <2> HIDE DEF i
  <2>3. i = n + 1
    <3>1. i \in Nat /\ i <= n + 1 /\ n + 1 <= i
      BY <2>1, <2>2
    <3>2. QED
      BY <1>1, <3>1
  <2>4. QED
    BY <1>1, <2>3 DEF LastValue, V, i
<1>5. QED
  BY <1>3, <1>4 DEF n, M

(* Which lines have the field.                                             *)
LEMMA HavingOfMore ==
  ASSUME NEW L \in Seq(Texts), NEW l \in Texts, NEW name
  PROVE  /\ Having(Append(L, l), name) =
              Having(L, name) \cup (IF HasField(l, name) THEN {Len(L) + 1} ELSE {})
         /\ Having(L, name) \in SUBSET (1 .. Len(L))
<1> DEFINE n == Len(L)
           M == Append(L, l)
<1>1. n \in Nat /\ (\A i \in 1 .. n : M[i] = L[i]) /\ M[n + 1] = l
      /\ DOMAIN L = 1 .. n /\ DOMAIN M = 1 .. n + 1
      /\ \A i \in 1 .. n + 1 : i \in 1 .. n \/ i = n + 1
  BY OneMore
<1> HIDE DEF n, M
<1>2. \A i \in 1 .. n : i \in 1 .. n + 1 /\ n + 1 \in 1 .. n + 1
  BY <1>1
<1>3. n + 1 \in 1 .. n + 1 /\ n + 1 \notin 1 .. n
  BY <1>1
<1>4. Having(M, name) = {i \in 1 .. n + 1 : HasField(M[i], name)}
      /\ Having(L, name) = {i \in 1 .. n : HasField(L[i], name)}
  BY <1>1 DEF Having
<1>5. Having(M, name) = Having(L, name) \cup (IF HasField(l, name) THEN {n + 1} ELSE {})
  <2>1. \A i : i \in Having(M, name) <=> i \in 1 .. n + 1 /\ HasField(M[i], name)
    BY <1>4
  <2>2. \A i : i \in Having(L, name) <=> i \in 1 .. n /\ HasField(L[i], name)
    BY <1>4
  <2>3. \A i : i \in 1 .. n + 1 <=> i \in 1 .. n \/ i = n + 1
    BY <1>1, <1>2, <1>3
  <2>4. QED
    BY <1>1, <2>1, <2>2, <2>3
<1>6. QED
  BY <1>4, <1>5 DEF n, M

NoNul(v) == \A k \in DOMAIN v : v[k] # 0

(* The new line's id counts unless there is a NUL in it.                   *)
LEMMA IdOfMore ==
  ASSUME NEW L \in Seq(Texts), NEW l \in Texts
  PROVE  StreamId(Append(L, l)) =
           IF HasField(l, IdName) /\ NoNul(ValueOf(l, IdName)) THEN ValueOf(l, IdName)
           ELSE StreamId(L)
<1> DEFINE n == Len(L)
           M == Append(L, l)
           Ids(lines) == {i \in Having(lines, IdName) :
                            \A k \in DOMAIN ValueOf(lines[i], IdName) :
                              ValueOf(lines[i], IdName)[k] # 0}
           A == Ids(L)
           B == Ids(M)
<1>1. n \in Nat /\ (\A i \in 1 .. n : M[i] = L[i]) /\ M[n + 1] = l /\ n + 1 \notin 1 .. n
  <2>1. n \in Nat /\ (\A i \in 1 .. n : M[i] = L[i]) /\ M[n + 1] = l
    BY OneMore
  <2>2. n + 1 \notin 1 .. n
    BY <2>1
  <2>3. QED
    BY <2>1, <2>2
<1>2. Having(M, IdName) =
        Having(L, IdName) \cup (IF HasField(l, IdName) THEN {n + 1} ELSE {})
      /\ Having(L, IdName) \in SUBSET (1 .. n)
  BY HavingOfMore
<1>3. \A i : i \in A <=> i \in Having(L, IdName) /\ NoNul(ValueOf(L[i], IdName))
  BY DEF NoNul
<1>4. \A i : i \in B <=> i \in Having(M, IdName) /\ NoNul(ValueOf(M[i], IdName))
  BY DEF NoNul
<1>5. StreamId(L) = (IF A = {} THEN << >> ELSE LastValue(L, IdName, A))
      /\ StreamId(M) = (IF B = {} THEN << >> ELSE LastValue(M, IdName, B))
  BY DEF StreamId
<1>6. A \in SUBSET (1 .. Len(L))
  BY <1>2, <1>3
<1> HIDE DEF A, B, M, n
<1>7. B = A \cup (IF HasField(l, IdName) /\ NoNul(ValueOf(l, IdName)) THEN {n + 1} ELSE {})
  <2>1. \A i \in 1 .. n : i \in B <=> i \in A
    BY <1>1, <1>2, <1>3, <1>4
  <2>2. n + 1 \in B <=> HasField(l, IdName) /\ NoNul(ValueOf(l, IdName))
    BY <1>1, <1>2, <1>4
  <2>3. \A i \in B : i \in 1 .. n \/ i = n + 1
    BY <1>2, <1>4
  <2>4. \A i \in A : i \in 1 .. n
    BY <1>2, <1>3
  <2>5. QED
    BY <1>1, <2>1, <2>2, <2>3, <2>4
<1>8. (A # {} => LastValue(M, IdName, A) = LastValue(L, IdName, A))
      /\ LastValue(M, IdName, A \cup {n + 1}) = ValueOf(l, IdName)
  BY <1>6, LastValueOfMore DEF M, n
<1>9. CASE HasField(l, IdName) /\ NoNul(ValueOf(l, IdName))
  BY <1>5, <1>7, <1>8, <1>9 DEF M
<1>10. CASE ~(HasField(l, IdName) /\ NoNul(ValueOf(l, IdName)))
  <2>1. B = A
    BY <1>7, <1>10
  <2>2. QED
    BY <1>5, <1>8, <1>10, <2>1 DEF M
<1>11. QED
  BY <1>9, <1>10

(* The new line's retry value counts if it is valid.                       *)
LEMMA RetryOfMore ==
  ASSUME NEW L \in Seq(Texts), NEW l \in Texts
  PROVE  StreamRetry(Append(L, l)) =
           IF HasField(l, RetryName) /\ IsRetry(ValueOf(l, RetryName))
           THEN Number[ValueOf(l, RetryName)]
           ELSE StreamRetry(L)
<1> DEFINE n == Len(L)
           M == Append(L, l)
           Valid(lines) == {i \in Having(lines, RetryName) : IsRetry(ValueOf(lines[i], RetryName))}
           A == Valid(L)
           B == Valid(M)
<1>1. n \in Nat /\ (\A i \in 1 .. n : M[i] = L[i]) /\ M[n + 1] = l /\ n + 1 \notin 1 .. n
  <2>1. n \in Nat /\ (\A i \in 1 .. n : M[i] = L[i]) /\ M[n + 1] = l
    BY OneMore
  <2>2. n + 1 \notin 1 .. n
    BY <2>1
  <2>3. QED
    BY <2>1, <2>2
<1>2. Having(M, RetryName) =
        Having(L, RetryName) \cup (IF HasField(l, RetryName) THEN {n + 1} ELSE {})
      /\ Having(L, RetryName) \in SUBSET (1 .. n)
  BY HavingOfMore
<1>3. \A i : i \in A <=> i \in Having(L, RetryName) /\ IsRetry(ValueOf(L[i], RetryName))
  OBVIOUS
<1>4. \A i : i \in B <=> i \in Having(M, RetryName) /\ IsRetry(ValueOf(M[i], RetryName))
  OBVIOUS
<1>5. StreamRetry(L) = (IF A = {} THEN NoRetry ELSE Number[LastValue(L, RetryName, A)])
      /\ StreamRetry(M) = (IF B = {} THEN NoRetry ELSE Number[LastValue(M, RetryName, B)])
  BY DEF StreamRetry
<1>6. A \in SUBSET (1 .. Len(L))
  BY <1>2, <1>3
<1> HIDE DEF A, B, M, n
<1>7. B = A \cup (IF HasField(l, RetryName) /\ IsRetry(ValueOf(l, RetryName)) THEN {n + 1} ELSE {})
  <2>1. \A i \in 1 .. n : i \in B <=> i \in A
    BY <1>1, <1>2, <1>3, <1>4
  <2>2. n + 1 \in B <=> HasField(l, RetryName) /\ IsRetry(ValueOf(l, RetryName))
    BY <1>1, <1>2, <1>4
  <2>3. \A i \in B : i \in 1 .. n \/ i = n + 1
    BY <1>2, <1>4
  <2>4. \A i \in A : i \in 1 .. n
    BY <1>2, <1>3
  <2>5. QED
    BY <1>1, <2>1, <2>2, <2>3, <2>4
<1>8. (A # {} => LastValue(M, RetryName, A) = LastValue(L, RetryName, A))
      /\ LastValue(M, RetryName, A \cup {n + 1}) = ValueOf(l, RetryName)
  BY <1>6, LastValueOfMore DEF M, n
<1>9. CASE HasField(l, RetryName) /\ IsRetry(ValueOf(l, RetryName))
  BY <1>5, <1>7, <1>8, <1>9 DEF M
<1>10. CASE ~(HasField(l, RetryName) /\ IsRetry(ValueOf(l, RetryName)))
  <2>1. B = A
    BY <1>7, <1>10
  <2>2. QED
    BY <1>5, <1>8, <1>10, <2>1 DEF M
<1>11. QED
  BY <1>9, <1>10

(* What one line more adds to a block.                                     *)
LEMMA BlockOfMore ==
  ASSUME NEW B \in Seq(Texts), NEW l \in Texts
  PROVE  /\ EventType(Append(B, l)) =
              IF HasField(l, EventName) THEN ValueOf(l, EventName) ELSE EventType(B)
         /\ HasData(Append(B, l)) <=> HasData(B) \/ HasField(l, DataName)
         /\ Joined[Append(B, l)] =
              IF ~HasField(l, DataName) THEN Joined[B]
              ELSE IF ~HasData(B) THEN ValueOf(l, DataName)
              ELSE Joined[B] \o << LF >> \o ValueOf(l, DataName)
<1> DEFINE n == Len(B)
           M == Append(B, l)
           A == Having(B, EventName)
<1>1. Having(M, EventName) = A \cup (IF HasField(l, EventName) THEN {n + 1} ELSE {})
      /\ A \in SUBSET (1 .. Len(B))
  BY HavingOfMore
<1>2. (A # {} => LastValue(M, EventName, A) = LastValue(B, EventName, A))
      /\ LastValue(M, EventName, A \cup {n + 1}) = ValueOf(l, EventName)
  BY <1>1, LastValueOfMore, ZenonT(60)
<1>3. EventType(M) = IF HasField(l, EventName) THEN ValueOf(l, EventName) ELSE EventType(B)
  <2>1. EventType(M) = (IF Having(M, EventName) = {} THEN << >>
                        ELSE LastValue(M, EventName, Having(M, EventName)))
        /\ EventType(B) = IF A = {} THEN << >> ELSE LastValue(B, EventName, A)
    BY DEF EventType
  <2> HIDE DEF M, A, n
  <2>2. CASE HasField(l, EventName)
    BY <1>1, <1>2, <2>1, <2>2
  <2>3. CASE ~HasField(l, EventName)
    <3>1. Having(M, EventName) = A
      BY <1>1, <2>3
    <3>2. QED
      BY <1>2, <2>1, <2>3, <3>1
  <2>4. QED
    BY <2>2, <2>3
<1>4. HasData(M) <=> HasData(B) \/ HasField(l, DataName)
  <2>1. Having(M, DataName) =
          Having(B, DataName) \cup (IF HasField(l, DataName) THEN {n + 1} ELSE {})
    BY HavingOfMore
  <2> HIDE DEF M, n
  <2>2. QED
    BY <2>1 DEF HasData
<1>5. Joined[M] = IF ~HasField(l, DataName) THEN Joined[B]
                  ELSE IF ~HasData(B) THEN ValueOf(l, DataName)
                  ELSE Joined[B] \o << LF >> \o ValueOf(l, DataName)
  <2>1. M \in Seq(Texts) /\ M # << >> /\ Front(M) = B /\ Last(M) = l
    BY Fronts
  <2> HIDE DEF M
  <2>2. Joined[M] = JoinedStep(M, Joined[Front(M)])
    BY <2>1, JoinedEquation DEF Texts
  <2>3. QED
    BY <2>1, <2>2 DEF JoinedStep
<1>6. QED
  BY <1>3, <1>4, <1>5

(* A block without lines.                                                  *)
LEMMA EmptyBlock ==
  /\ EventType(<< >>) = << >> /\ ~HasData(<< >>) /\ StreamId(<< >>) = << >>
  /\ StreamRetry(<< >>) = NoRetry
<1>1. \A name : Having(<< >>, name) = {}
  BY DEF Having
<1>2. QED
  BY <1>1 DEF EventType, HasData, StreamId, StreamRetry

(* A blank line closes the block, any other line joins it.                 *)
LEMMA OpenBlockOfMore ==
  ASSUME NEW L \in Seq(Texts), NEW l \in Texts
  PROVE  /\ OpenBlock(L) \in Seq(Texts)
         /\ OpenBlock(Append(L, l)) = IF l = << >> THEN << >> ELSE Append(OpenBlock(L), l)
<1> DEFINE n == Len(L)
           M == Append(L, l)
           Top(W) == CHOOSE i \in W \cup {0} : \A j \in W : j <= i
           A == Blanks(L)
           B == Blanks(M)
<1>1. /\ n \in Nat /\ (\A i \in 1 .. n : M[i] = L[i]) /\ M[n + 1] = l
      /\ DOMAIN L = 1 .. n /\ DOMAIN M = 1 .. n + 1
      /\ \A i \in 1 .. n + 1 : i \in 1 .. n \/ i = n + 1
      /\ M \in Seq(Texts) /\ Len(M) = n + 1
  BY OneMore
<1>2. OpenBlock(L) = SubSeq(L, 1 + Top(A), n) /\ OpenBlock(M) = SubSeq(M, 1 + Top(B), n + 1)
  <2>1. OpenBlock(L) = SubSeq(L, 1 + Top(A), n)
    BY DEF OpenBlock
  <2>2. OpenBlock(M) = SubSeq(M, 1 + Top(B), Len(M))
    BY DEF OpenBlock
  <2> HIDE DEF Top, M, A, B, n
  <2>3. QED
    BY <1>1, <2>1, <2>2
<1>3. (\A i : i \in A <=> i \in 1 .. n /\ L[i] = << >>)
      /\ \A i : i \in B <=> i \in 1 .. n + 1 /\ M[i] = << >>
  BY <1>1 DEF Blanks
<1> HIDE DEF n, M, A, B
<1>4. A \cup {0} \in SUBSET (0 .. n) /\ A \cup {0} # {}
  BY <1>1, <1>3
<1> DEFINE m == Top(A)
<1>5. m \in 0 .. n
  <2>1. \E i \in A \cup {0} : \A j \in A \cup {0} : j <= i
    BY <1>1, <1>4, Greatest
  <2>2. Top(A) \in A \cup {0}
    BY <2>1
  <2>3. QED
    BY <1>4, <2>2
<1>6. \A i \in 1 + m .. n : i \in 1 .. n /\ L[i] \in Texts
  BY <1>1, <1>5, ElementOfSeq DEF n
<1>7. OpenBlock(L) \in Seq(Texts) /\ Len(OpenBlock(L)) = n - m
      /\ \A i \in 1 .. n - m : OpenBlock(L)[i] = L[m + i]
  <2> DEFINE k == 1 + m
             O == SubSeq(L, k, n)
  <2>1. k \in Int /\ n \in Int /\ n - k + 1 = n - m
        /\ (IF k <= n THEN n - k + 1 ELSE 0) = n - m
    BY <1>1, <1>5
  <2>2. \A i \in 1 .. n - m : k + i - 1 = m + i
    BY <1>1, <1>5
  <2>3. \A i \in k .. n : L[i] \in Texts
    BY <1>6
  <2> HIDE DEF k, m
  <2>4. O \in Seq(Texts) /\ Len(O) = n - m /\ \A i \in 1 .. n - m : O[i] = L[k + i - 1]
    BY <2>1, <2>3, SubSeqProperties
  <2> HIDE DEF O
  <2>5. \A i \in 1 .. n - m : O[i] = L[m + i]
    BY <2>2, <2>4
  <2>6. OpenBlock(L) = O
    BY <1>2 DEF O, k, m
  <2>7. QED
    BY <2>4, <2>5, <2>6
<1>8. CASE l = << >>
  <2>1. n + 1 \in B /\ \A j \in B : j \in Int /\ j <= n + 1
    BY <1>1, <1>3, <1>8
  <2>2. Top(B) \in B \cup {0} /\ \A j \in B : j <= Top(B)
    BY <2>1
  <2> DEFINE t == Top(B)
  <2> HIDE DEF t
  <2>3. t \in B \cup {0} /\ \A j \in B : j <= t
    BY <2>2 DEF t
  <2>4. t \in Int /\ t <= n + 1 /\ n + 1 <= t
    <3>1. 0 \in Int /\ 0 <= n + 1
      BY <1>1
    <3>2. QED
      BY <2>1, <2>3, <3>1
  <2>5. t = n + 1
    BY <1>1, <2>4
  <2>6. SubSeq(M, 1 + (n + 1), n + 1) = << >>
    <3>1. 1 + (n + 1) \in Int /\ n + 1 \in Int /\ n + 1 < 1 + (n + 1)
      BY <1>1
    <3>2. QED
      BY <3>1, SubSeqEmpty
  <2>7. QED
    BY <1>2, <1>7, <1>8, <2>5, <2>6 DEF t, M
<1>9. CASE l # << >>
  <2>1. B = A
    <3>1. \A i : i \in B <=> i \in A
      <4>1. \A i \in 1 .. n : i \in 1 .. n + 1
        BY <1>1
      <4>2. QED
        BY <1>1, <1>3, <1>9, <4>1
    <3>2. QED
      BY <3>1
  <2>2. OpenBlock(M) = SubSeq(M, 1 + m, n + 1)
    BY <1>2, <2>1
  <2> DEFINE k == 1 + m
             N == n + 1
             O == SubSeq(M, k, N)
             P == Append(OpenBlock(L), l)
  <2>3. k \in Int /\ N \in Int /\ N - k + 1 = n - m + 1
        /\ (IF k <= N THEN N - k + 1 ELSE 0) = n - m + 1
    BY <1>1, <1>5
  <2>4. \A i \in k .. N : M[i] \in Texts
    <3>1. \A i \in k .. N : i \in 1 .. n + 1
      BY <1>1, <1>5
    <3>2. QED
      BY <1>1, <3>1, ElementOfSeq
  <2>5. P \in Seq(Texts) /\ Len(P) = n - m + 1 /\ P[n - m + 1] = l
        /\ \A i \in 1 .. n - m : P[i] = OpenBlock(L)[i]
    <3> DEFINE O0 == OpenBlock(L)
               d == n - m
    <3>1. O0 \in Seq(Texts) /\ Len(O0) = d
      BY <1>7
    <3> HIDE DEF O0, d
    <3>2. /\ Append(O0, l) \in Seq(Texts) /\ Len(Append(O0, l)) = d + 1 /\ Append(O0, l)[d + 1] = l
          /\ \A i \in 1 .. d : Append(O0, l)[i] = O0[i]
      BY <3>1, AppendProperties
    <3>3. QED
      BY <3>2 DEF O0, d
  <2>6. \A i \in 1 .. n - m : k + i - 1 = m + i /\ m + i \in 1 .. n
    BY <1>1, <1>5
  <2>7. k + (n - m + 1) - 1 = n + 1 /\ n - m + 1 \in 1 .. n - m + 1 /\ n - m \in Nat
    BY <1>1, <1>5
  <2>8. \A i \in 1 .. n - m + 1 : i \in 1 .. n - m \/ i = n - m + 1
    BY <2>7
  <2> HIDE DEF k, m, N, P
  <2>9. O \in Seq(Texts) /\ Len(O) = n - m + 1 /\ \A i \in 1 .. n - m + 1 : O[i] = M[k + i - 1]
    <3>1. O \in Seq(Texts) /\ Len(O) = (IF k <= N THEN N - k + 1 ELSE 0)
          /\ \A i \in 1 .. N - k + 1 : O[i] = M[k + i - 1]
      BY <2>3, <2>4, SubSeqProperties
    <3>2. QED
      BY <2>3, <3>1
  <2> HIDE DEF O
  <2>10. \A i \in 1 .. n - m : O[i] = P[i]
    <3> TAKE i \in 1 .. n - m
    <3>1. i \in 1 .. n - m + 1
      BY <2>7
    <3>2. O[i] = M[m + i]
      BY <2>6, <2>9, <3>1
    <3>3. M[m + i] = L[m + i] /\ OpenBlock(L)[i] = L[m + i]
      BY <1>1, <1>7, <2>6
    <3>4. QED
      BY <2>5, <3>2, <3>3
  <2>11. O[n - m + 1] = P[n - m + 1]
    BY <1>1, <2>5, <2>7, <2>9
  <2>12. \A i \in 1 .. Len(O) : O[i] = P[i]
    BY <2>8, <2>9, <2>10, <2>11
  <2>13. O = P
    BY <2>5, <2>9, <2>12, SeqEqual
  <2>14. OpenBlock(M) = O
    BY <2>2 DEF O, k, N
  <2>15. QED
    BY <1>7, <1>9, <2>13, <2>14 DEF P, M
<1>10. QED
  BY <1>8, <1>9

(* The data of the open block is what sse_handle_data keeps: the value and *)
(* an LF for each data field.                                              *)
LEMMA DataOfMore ==
  ASSUME NEW L \in Seq(Texts), NEW l \in Texts
  PROVE  /\ OpenData(L) \in Seq(Byte)
         /\ OpenData(Append(L, l)) =
              IF l = << >> THEN << >>
              ELSE IF HasField(l, DataName) THEN OpenData(L) \o ValueOf(l, DataName) \o << LF >>
              ELSE OpenData(L)
         /\ HasData(OpenBlock(L)) => WithoutFinalLf(OpenData(L)) = Joined[OpenBlock(L)]
<1> DEFINE B == OpenBlock(L)
           C == Append(B, l)
           v == ValueOf(l, DataName)
           j == Joined[B]
<1>1. B \in Seq(Texts)
  BY OpenBlockOfMore
<1>2. << LF >> \in Seq(Byte) /\ LF \in Byte
  BY DEF LF, Byte
<1>3. j \in Seq(Byte)
  BY <1>1, JoinedEquation DEF Texts
<1>4. v \in Seq(Byte)
  BY ValueType, NameLengths DEF Texts
<1>5. j \o << LF >> \in Seq(Byte) /\ j \o << LF >> = Append(j, LF)
  BY <1>2, <1>3, ConcatProperties, AppendIsConcat
<1>6. OpenData(L) = IF HasData(B) THEN j \o << LF >> ELSE << >>
  BY DEF OpenData
<1>7. OpenData(L) \in Seq(Byte)
  BY <1>5, <1>6, EmptySeq
<1>8. ASSUME l # << >>
      PROVE OpenData(Append(L, l)) =
              IF HasField(l, DataName) THEN OpenData(L) \o v \o << LF >> ELSE OpenData(L)
  <2>1. OpenBlock(Append(L, l)) = C
    BY <1>8, OpenBlockOfMore
  <2>2. OpenData(Append(L, l)) = IF HasData(C) THEN Joined[C] \o << LF >> ELSE << >>
    BY <2>1 DEF OpenData
  <2>3. /\ HasData(C) <=> HasData(B) \/ HasField(l, DataName)
        /\ Joined[C] = IF ~HasField(l, DataName) THEN j
                       ELSE IF ~HasData(B) THEN v
                       ELSE j \o << LF >> \o v
    BY <1>1, BlockOfMore
  <2>4. << >> \o v = v
    BY <1>4, ConcatEmptySeq
  <2> HIDE DEF C, B, v, j
  <2>5. CASE ~HasField(l, DataName)
    BY <1>6, <2>2, <2>3, <2>5
  <2>6. CASE HasField(l, DataName) /\ ~HasData(B)
    BY <1>6, <2>2, <2>3, <2>4, <2>6
  <2>7. CASE HasField(l, DataName) /\ HasData(B)
    BY <1>6, <2>2, <2>3, <2>7
  <2>8. QED
    BY <2>5, <2>6, <2>7
<1>9. ASSUME l = << >> PROVE OpenData(Append(L, l)) = << >>
  BY <1>9, OpenBlockOfMore, EmptyBlock DEF OpenData
<1>10. ASSUME HasData(B) PROVE WithoutFinalLf(OpenData(L)) = j
  <2> DEFINE d == Append(j, LF)
  <2>1. OpenData(L) = d
    BY <1>5, <1>6, <1>10
  <2>2. d # << >> /\ Front(d) = j /\ Last(d) = LF
    BY <1>2, <1>3, Fronts
  <2> HIDE DEF d, j
  <2>3. QED
    BY <2>1, <2>2 DEF WithoutFinalLf, Front, Last
<1>11. QED
  BY <1>7, <1>8, <1>9, <1>10

(* A blank line behind a block with data is one event more.                *)
LEMMA EventsOfMore ==
  ASSUME NEW L \in Seq(Texts), NEW l \in Texts
  PROVE  /\ EventsOf[L] \in Seq(Dispatched) /\ EventOf(L) \in Dispatched
         /\ EventsOf[Append(L, l)] =
              IF l = << >> /\ HasData(OpenBlock(L)) THEN Append(EventsOf[L], EventOf(L))
              ELSE EventsOf[L]
<1> DEFINE M == Append(L, l)
<1>1. M \in Seq(Texts) /\ M # << >> /\ Front(M) = L /\ Last(M) = l
  BY Fronts
<1> HIDE DEF M
<1>2. EventsOf[M] = EventsStep(M, EventsOf[Front(M)])
  BY <1>1, EventsEquation DEF Texts
<1>3. EventsOf[L] \in Seq(Dispatched) /\ EventOf(L) \in Dispatched
  BY EventsEquation DEF Texts, Dispatched
<1>4. QED
  BY <1>1, <1>2, <1>3 DEF EventsStep, M

(* More lines, more events: those there were stay.                         *)
LEMMA EventsGrow ==
  ASSUME NEW P \in Seq(Texts), NEW Q \in Seq(Texts),
         Len(P) <= Len(Q), \A i \in 1 .. Len(P) : Q[i] = P[i]
  PROVE  IsPrefix(EventsOf[P], EventsOf[Q])
<1> DEFINE p == Len(P)
           e == EventsOf[P]
           Begins(R) == p <= Len(R) /\ \A i \in 1 .. p : R[i] = P[i]
           T == {R \in Seq(Texts) : Begins(R) => IsPrefix(e, EventsOf[R])}
<1>1. p \in Nat /\ e \in Seq(Dispatched)
  BY LenProperties, EventsOfMore, EventsEquation DEF Texts
<1>2. IsPrefix(e, e)
  <2> HIDE DEF e
  <2>1. Len(e) <= Len(e)
    BY <1>1, LenProperties
  <2>2. QED
    BY <1>1, <2>1, PrefixMeans
<1>3. << >> \in T
  <2>1. << >> \in Seq(Texts)
    BY EmptySeq
  <2>2. ASSUME p <= 0 PROVE P = << >>
    <3>1. p = 0
      BY <1>1, <2>2
    <3>2. QED
      BY <3>1, EmptySeq
  <2>3. Begins(<< >>) => IsPrefix(e, EventsOf[<< >>])
    BY <1>2, <2>2
  <2>4. QED
    BY <2>1, <2>3
<1>4. ASSUME NEW R \in Seq(Texts), R \in T, NEW l \in Texts PROVE Append(R, l) \in T
  <2> DEFINE M == Append(R, l)
             n == Len(R)
  <2>1. M \in Seq(Texts) /\ n \in Nat /\ Len(M) = n + 1 /\ \A i \in 1 .. n : M[i] = R[i]
    BY OneMore
  <2>2. EventsOf[R] \in Seq(Dispatched) /\ EventOf(R) \in Dispatched
        /\ EventsOf[M] \in {EventsOf[R], Append(EventsOf[R], EventOf(R))}
    BY EventsOfMore
  <2> DEFINE r == EventsOf[R]
             x == EventOf(R)
             m == EventsOf[M]
  <2> HIDE DEF M, n, e
  <2>3. ASSUME Begins(M) PROVE IsPrefix(e, m)
    <3>1. CASE p = n + 1
      <4>1. \A i \in 1 .. Len(P) : P[i] = M[i]
        BY <2>3
      <4>2. Len(P) = Len(M)
        BY <2>1, <3>1
      <4>3. P = M
        BY <2>1, <4>1, <4>2, SeqEqual
      <4>4. QED
        BY <1>2, <4>3 DEF e
    <3>2. CASE p # n + 1
      <4>1. p <= n
        BY <1>1, <2>1, <2>3, <3>2
      <4>2. \A i \in 1 .. p : i \in 1 .. n
        BY <1>1, <2>1, <4>1
      <4>3. \A i \in 1 .. p : R[i] = P[i]
        BY <2>1, <2>3, <4>2
      <4>4. IsPrefix(e, r)
        BY <1>4, <4>1, <4>3 DEF n
      <4>5. r \in Seq(Dispatched) /\ x \in Dispatched /\ m \in {r, Append(r, x)}
        BY <2>2
      <4> HIDE DEF r, x, m
      <4>6. CASE m = r
        BY <4>4, <4>6
      <4>7. CASE m = Append(r, x)
        <5>1. m \in Seq(Dispatched) /\ Len(m) = Len(r) + 1 /\ \A i \in 1 .. Len(r) : m[i] = r[i]
          BY <4>5, <4>7, AppendProperties
        <5>2. Len(e) <= Len(r) /\ \A i \in 1 .. Len(e) : e[i] = r[i]
          BY <1>1, <4>4, <4>5, PrefixMeans
        <5>3. Len(e) \in Nat /\ Len(r) \in Nat
          BY <1>1, <4>5, LenProperties
        <5>4. Len(e) <= Len(m) /\ \A i \in 1 .. Len(e) : i \in 1 .. Len(r)
          BY <5>1, <5>2, <5>3
        <5>5. \A i \in 1 .. Len(e) : e[i] = m[i]
          BY <5>1, <5>2, <5>4
        <5>6. QED
          BY <1>1, <5>1, <5>4, <5>5, PrefixMeans
      <4>8. QED
        BY <4>5, <4>6, <4>7
    <3>3. QED
      BY <3>1, <3>2
  <2>4. QED
    BY <2>1, <2>3 DEF M
<1> HIDE DEF T
<1>5. Q \in T
  BY <1>3, <1>4, ByAppend
<1>6. QED
  BY <1>5 DEF T

(* What a text has shown, however it goes on: its events, lines that are   *)
(* too long and data that is too large.                                    *)
TooLong(lines)  == \E i \in DOMAIN lines : Exceeds(MaxLine, Len(lines[i]))
TooLarge(lines) ==
  \E i \in 0 .. Len(lines) - 1 : Exceeds(MaxFrame, Len(OpenData(SubSeq(lines, 1, i))))

(* However the text goes on, the events of its ended lines stay the first  *)
(* events, and a line or a frame that was too long stays one.              *)
LEMMA ShownStays ==
  ASSUME NEW t \in Seq(Byte), NEW x \in Seq(Byte)
  PROVE  /\ IsPrefix(EventsOf[Front(LinesOf[t])], EventsOf[Front(LinesOf[t \o x])])
         /\ TooLong(LinesOf[t]) => TooLong(LinesOf[t \o x])
         /\ TooLarge(LinesOf[t]) => TooLarge(LinesOf[t \o x])
<1> DEFINE A == LinesOf[t]
           B == LinesOf[t \o x]
           m == Len(A)
           n == Len(B)
<1>1. A \in Seq(Texts) /\ B \in Seq(Texts) /\ Front(A) \in Seq(Texts) /\ Front(B) \in Seq(Texts)
  <2>1. t \o x \in Seq(Byte)
    BY ConcatProperties
  <2>2. QED
    BY <2>1, LinesType
<1>2. Grown(A, B)
  BY LinesGrow
<1> HIDE DEF A, B
<1>3. m \in Nat /\ n \in Nat /\ DOMAIN A = 1 .. m /\ DOMAIN B = 1 .. n
  BY <1>1, LenProperties
<1>4. 1 <= m /\ m <= n /\ (\A i \in 1 .. m - 1 : B[i] = A[i]) /\ Len(A[m]) <= Len(B[m])
  BY <1>2 DEF Grown
<1> HIDE DEF m, n
<1>5. \A i \in 1 .. m : A[i] \in Texts /\ i \in 1 .. n /\ B[i] \in Texts
  <2>1. \A i \in 1 .. m : A[i] \in Texts
    BY <1>1, ElementOfSeq DEF m
  <2>2. \A i \in 1 .. n : B[i] \in Texts
    BY <1>1, ElementOfSeq DEF n
  <2>3. \A i \in 1 .. m : i \in 1 .. n
    BY <1>3, <1>4
  <2>4. QED
    BY <2>1, <2>2, <2>3
<1>6. \A i \in 0 .. m - 1 : SubSeq(A, 1, i) = SubSeq(B, 1, i)
  <2> TAKE i \in 0 .. m - 1
  <2> DEFINE a == SubSeq(A, 1, i)
             b == SubSeq(B, 1, i)
  <2>1. 1 \in Int /\ i \in Int /\ i - 1 + 1 = i /\ (IF 1 <= i THEN i - 1 + 1 ELSE 0) = i
    BY <1>3
  <2>2. \A k \in 1 .. i : k \in 1 .. m - 1 /\ k \in 1 .. m /\ 1 + k - 1 = k
    BY <1>3
  <2>3. (\A k \in 1 .. i : A[k] \in Texts) /\ \A k \in 1 .. i : B[k] \in Texts
    BY <1>5, <2>2
  <2>4. a \in Seq(Texts) /\ Len(a) = i /\ \A k \in 1 .. i : a[k] = A[1 + k - 1]
    BY <2>1, <2>3, SubSeqProperties
  <2>5. b \in Seq(Texts) /\ Len(b) = i /\ \A k \in 1 .. i : b[k] = B[1 + k - 1]
    BY <2>1, <2>3, SubSeqProperties
  <2> HIDE DEF a, b
  <2>6. \A k \in 1 .. Len(a) : a[k] = b[k]
    BY <1>4, <2>2, <2>4, <2>5
  <2>7. a = b
    BY <2>4, <2>5, <2>6, SeqEqual
  <2>8. QED
    BY <2>7 DEF a, b
<1>7. IsPrefix(EventsOf[Front(A)], EventsOf[Front(B)])
  <2> DEFINE P == Front(A)
             Q == Front(B)
  <2>1. P = SubSeq(A, 1, m - 1) /\ Q = SubSeq(B, 1, n - 1)
    BY DEF Front, m, n
  <2>2. P \in Seq(Texts) /\ Len(P) = m - 1 /\ \A k \in 1 .. m - 1 : P[k] = A[k]
    <3> DEFINE M == m - 1
    <3>1. 1 \in Int /\ M \in Int /\ M - 1 + 1 = M /\ (IF 1 <= M THEN M - 1 + 1 ELSE 0) = M
      BY <1>3, <1>4
    <3>2. \A k \in 1 .. M : k \in 1 .. m /\ 1 + k - 1 = k
      BY <1>3
    <3>3. \A k \in 1 .. M : A[k] \in Texts
      BY <1>5, <3>2
    <3> HIDE DEF M, P
    <3>4. P = SubSeq(A, 1, M)
      BY <2>1 DEF M
    <3>5. P \in Seq(Texts) /\ Len(P) = M /\ \A k \in 1 .. M : P[k] = A[1 + k - 1]
      BY <3>1, <3>3, <3>4, SubSeqProperties
    <3>6. \A k \in 1 .. M : P[k] = A[k]
      BY <3>2, <3>5
    <3>7. QED
      BY <3>5, <3>6 DEF M
  <2>3. Q \in Seq(Texts) /\ Len(Q) = n - 1 /\ \A k \in 1 .. n - 1 : Q[k] = B[k]
    <3> DEFINE M == n - 1
    <3>1. 1 \in Int /\ M \in Int /\ M - 1 + 1 = M /\ (IF 1 <= M THEN M - 1 + 1 ELSE 0) = M
      BY <1>3, <1>4
    <3>2. \A k \in 1 .. M : k \in 1 .. n /\ 1 + k - 1 = k
      BY <1>3
    <3>3. \A k \in 1 .. M : B[k] \in Texts
      BY <1>1, <3>2, ElementOfSeq DEF n
    <3> HIDE DEF M, Q
    <3>4. Q = SubSeq(B, 1, M)
      BY <2>1 DEF M
    <3>5. Q \in Seq(Texts) /\ Len(Q) = M /\ \A k \in 1 .. M : Q[k] = B[1 + k - 1]
      BY <3>1, <3>3, <3>4, SubSeqProperties
    <3>6. \A k \in 1 .. M : Q[k] = B[k]
      BY <3>2, <3>5
    <3>7. QED
      BY <3>5, <3>6 DEF M
  <2>4. \A k \in 1 .. m - 1 : k \in 1 .. n - 1
    BY <1>3, <1>4
  <2> HIDE DEF P, Q
  <2>5. \A i \in 1 .. Len(P) : Q[i] = P[i]
    BY <1>4, <2>2, <2>3, <2>4
  <2>6. Len(P) <= Len(Q)
    BY <1>3, <1>4, <2>2, <2>3
  <2>7. IsPrefix(EventsOf[P], EventsOf[Q])
    BY <2>2, <2>3, <2>5, <2>6, EventsGrow
  <2>8. QED
    BY <2>7 DEF P, Q
<1>8. ASSUME TooLong(A) PROVE TooLong(B)
  <2>1. PICK i \in 1 .. m : Exceeds(MaxLine, Len(A[i]))
    BY <1>3, <1>8 DEF TooLong
  <2>2. i \in 1 .. n /\ Len(A[i]) <= Len(B[i])
    <3>1. A[i] \in Texts /\ i \in 1 .. n
      BY <1>5
    <3>2. Len(A[i]) \in Nat
      BY <3>1, LenProperties DEF Texts
    <3>3. CASE i = m
      BY <1>4, <3>1, <3>3
    <3>4. CASE i # m
      <4>1. i \in 1 .. m - 1
        BY <1>3, <3>4
      <4>2. B[i] = A[i]
        BY <1>4, <4>1
      <4>3. QED
        BY <3>1, <3>2, <4>2
    <3>5. QED
      BY <3>3, <3>4
  <2> DEFINE p == Len(A[i])
             q == Len(B[i])
  <2>3. p \in Nat /\ q \in Nat /\ p <= q
    BY <1>5, <2>2, LenProperties DEF Texts
  <2>4. MaxLine > 0 /\ p > MaxLine /\ MaxLine \in Nat
    BY <2>1, LimitsAssumption DEF Exceeds
  <2> HIDE DEF p, q
  <2>5. Exceeds(MaxLine, q)
    BY <2>3, <2>4 DEF Exceeds
  <2>6. QED
    BY <1>3, <2>2, <2>5 DEF TooLong, q
<1>9. ASSUME TooLarge(A) PROVE TooLarge(B)
  <2>1. PICK i \in 0 .. m - 1 : Exceeds(MaxFrame, Len(OpenData(SubSeq(A, 1, i))))
    BY <1>9 DEF TooLarge, m
  <2>2. i \in 0 .. n - 1 /\ SubSeq(A, 1, i) = SubSeq(B, 1, i)
    BY <1>3, <1>4, <1>6
  <2>3. QED
    BY <2>1, <2>2 DEF TooLarge, n
<1>10. QED
  BY <1>7, <1>8, <1>9 DEF A, B

-----------------------------------------------------------------------------
(***************************************************************************)
(* One byte.  What the text of the bytes ahead is, when the next of them   *)
(* meets the sequence u that the parser holds.                             *)
(***************************************************************************)

(* The next byte of what is ahead, and the rest.                           *)
LEMMA NextByte ==
  ASSUME NEW r \in Seq(Byte), r # << >>
  PROVE  /\ Head(r) \in Byte /\ Tail(r) \in Seq(Byte) /\ r = << Head(r) >> \o Tail(r)
         /\ \A z \in Seq(Byte) :
              /\ r \o z = << Head(r) >> \o (Tail(r) \o z)
              /\ Tail(r) \o z \in Seq(Byte) /\ r \o z \in Seq(Byte) /\ r \o z # << >>
              /\ (r \o z)[1] = Head(r)
<1> DEFINE b == Head(r)
           s == Tail(r)
           c == << b >>
<1>1. b \in Byte /\ s \in Seq(Byte) /\ Len(s) = Len(r) - 1 /\ b = r[1]
      /\ \A i \in 1 .. Len(s) : s[i] = r[i + 1]
  BY HeadTailProperties
<1>2. c \in Seq(Byte) /\ Len(c) = 1 /\ c[1] = b
  BY <1>1
<1>3. Len(r) \in Nat /\ Len(r) >= 1
  BY EmptySeq
<1> HIDE DEF b, s, c
<1>4. c \o s \in Seq(Byte) /\ Len(c \o s) = 1 + Len(s)
      /\ \A i \in 1 .. 1 + Len(s) : (c \o s)[i] = IF i <= 1 THEN c[i] ELSE s[i - 1]
  <2>1. c \o s \in Seq(Byte) /\ Len(c \o s) = Len(c) + Len(s)
        /\ \A i \in 1 .. Len(c) + Len(s) : (c \o s)[i] = IF i <= Len(c) THEN c[i] ELSE s[i - Len(c)]
    <3>1. c \in Seq(Byte) /\ s \in Seq(Byte)
      BY <1>1, <1>2
    <3>2. QED
      BY <3>1, ConcatProperties, Zenon
  <2>2. QED
    BY <1>2, <2>1
<1> DEFINE n == Len(r)
           t == c \o s
<1> HIDE DEF n, t
<1>5. n \in Nat /\ n >= 1 /\ Len(s) = n - 1 /\ 1 + Len(s) = n
  BY <1>1, <1>3 DEF n
<1>6. \A i \in 1 .. n : t[i] = r[i]
  <2> TAKE i \in 1 .. n
  <2>1. CASE i = 1
    BY <1>1, <1>2, <1>4, <1>5, <2>1 DEF t
  <2>2. CASE i # 1
    <3>1. i \in 1 .. 1 + Len(s) /\ ~(i <= 1) /\ i - 1 \in 1 .. Len(s) /\ (i - 1) + 1 = i
      BY <1>5, <2>2
    <3>2. t[i] = s[i - 1]
      BY <1>4, <3>1 DEF t
    <3>3. s[i - 1] = r[(i - 1) + 1]
      BY <1>1, <3>1
    <3>4. QED
      BY <3>1, <3>2, <3>3
  <2>3. QED
    BY <2>1, <2>2
<1>7. r = t
  <2>1. t \in Seq(Byte) /\ Len(t) = n
    BY <1>4, <1>5 DEF t
  <2>2. QED
    BY <1>6, <2>1, SeqEqual DEF n
<1>8. ASSUME NEW z \in Seq(Byte)
      PROVE  /\ r \o z = c \o (s \o z) /\ s \o z \in Seq(Byte)
             /\ r \o z \in Seq(Byte) /\ r \o z # << >> /\ (r \o z)[1] = b
  <2>1. (c \o s) \o z = c \o (s \o z)
    <3>1. c \in Seq(Byte) /\ s \in Seq(Byte)
      BY <1>1, <1>2
    <3>2. QED
      BY <3>1, ConcatAssociative
  <2>2. s \o z \in Seq(Byte)
    BY <1>1, ConcatProperties
  <2>3. /\ r \o z \in Seq(Byte) /\ Len(r \o z) = Len(r) + Len(z)
        /\ \A i \in 1 .. Len(r) + Len(z) : (r \o z)[i] = IF i <= Len(r) THEN r[i] ELSE z[i - Len(r)]
    BY ConcatProperties, Zenon
  <2> DEFINE q == r \o z
  <2> HIDE DEF q
  <2>4. Len(z) \in Nat
    BY LenProperties
  <2>5. 1 \in 1 .. Len(r) + Len(z) /\ 1 <= Len(r)
    BY <1>3, <2>4
  <2>6. q[1] = b
    BY <1>1, <2>3, <2>5 DEF q
  <2>7. q # << >>
    <3>1. Len(q) >= 1
      BY <1>3, <2>3, <2>4 DEF q
    <3>2. QED
      BY <3>1
  <2>8. QED
    BY <1>7, <2>1, <2>2, <2>3, <2>6, <2>7 DEF q, t
<1>9. QED
  BY <1>1, <1>7, <1>8 DEF b, s, c, t

(* The text of u and all that is ahead is x and the text of w and what is  *)
(* ahead then.                                                             *)
Yields(u, r, x, w, s) ==
  \A z \in Seq(Byte) : Text[u \o (r \o z)] = x \o Text[w \o (s \o z)]

(* With nothing held: an ASCII byte is itself, a stray byte one U+FFFD, a  *)
(* lead byte begins a sequence.                                            *)
LEMMA Alone ==
  ASSUME NEW r \in Seq(Byte), r # << >>
  PROVE  /\ Head(r) < 128 => Yields(<< >>, r, << Head(r) >>, << >>, Tail(r))
         /\ Head(r) >= 128 /\ SequenceLength(Head(r)) = 0 =>
              Yields(<< >>, r, Replacement, << >>, Tail(r))
         /\ SequenceLength(Head(r)) > 0 =>
              Yields(<< >>, r, << >>, << Head(r) >>, Tail(r)) /\ Unfinished(<< Head(r) >>)
<1> DEFINE b == Head(r)
           s == Tail(r)
<1>1. /\ b \in Byte /\ s \in Seq(Byte)
      /\ \A z \in Seq(Byte) : r \o z = << b >> \o (s \o z) /\ s \o z \in Seq(Byte)
                              /\ r \o z \in Seq(Byte)
  BY NextByte
<1> HIDE DEF b, s
<1>2. \A y \in Seq(Byte) : << >> \o y = y
  BY ConcatEmptySeq
<1>3. b < 128 => SequenceLength(b) = 0
  <2>1. SequenceLength(b) \in {0, 2, 3, 4} /\ (SequenceLength(b) > 0 => b >= 194)
    BY <1>1, Claims
  <2>2. b \in Int
    BY <1>1 DEF Byte
  <2> DEFINE k == SequenceLength(b)
  <2> HIDE DEF k
  <2>3. k \in {0, 2, 3, 4} /\ (k > 0 => b >= 194)
    BY <2>1 DEF k
  <2>4. b < 128 => k = 0
    BY <2>2, <2>3
  <2>5. QED
    BY <2>4 DEF k
<1>4. SequenceLength(b) = 0 =>
        \A y \in Seq(Byte) : Text[<< b >> \o y] =
                               (IF b < 128 THEN << b >> ELSE Replacement) \o Text[y]
  BY <1>1, TextOfByte
<1>5. b < 128 => Yields(<< >>, r, << b >>, << >>, s)
  <2> HAVE b < 128
  <2>1. ASSUME NEW z \in Seq(Byte)
        PROVE  Text[<< >> \o (r \o z)] = << b >> \o Text[<< >> \o (s \o z)]
    <3>1. s \o z \in Seq(Byte) /\ << >> \o (s \o z) = s \o z
          /\ << >> \o (r \o z) = << b >> \o (s \o z)
      BY <1>1, <1>2
    <3>2. Text[<< b >> \o (s \o z)] = << b >> \o Text[s \o z]
      BY <1>3, <1>4, <3>1
    <3>3. QED
      BY <3>1, <3>2
  <2>2. QED
    BY <2>1 DEF Yields
<1>6. b >= 128 /\ SequenceLength(b) = 0 => Yields(<< >>, r, Replacement, << >>, s)
  <2> HAVE b >= 128 /\ SequenceLength(b) = 0
  <2>1. ASSUME NEW z \in Seq(Byte)
        PROVE  Text[<< >> \o (r \o z)] = Replacement \o Text[<< >> \o (s \o z)]
    <3>1. s \o z \in Seq(Byte) /\ << >> \o (s \o z) = s \o z
          /\ << >> \o (r \o z) = << b >> \o (s \o z)
      BY <1>1, <1>2
    <3>2. ~(b < 128)
      BY <1>1 DEF Byte
    <3>3. Text[<< b >> \o (s \o z)] = Replacement \o Text[s \o z]
      BY <1>4, <3>1, <3>2
    <3>4. QED
      BY <3>1, <3>3
  <2>2. QED
    BY <2>1 DEF Yields
<1>7. SequenceLength(b) > 0 => Yields(<< >>, r, << >>, << b >>, s) /\ Unfinished(<< b >>)
  <2> HAVE SequenceLength(b) > 0
  <2>1. ASSUME NEW z \in Seq(Byte)
        PROVE  Text[<< >> \o (r \o z)] = << >> \o Text[<< b >> \o (s \o z)]
    <3>1. << >> \o (r \o z) = << b >> \o (s \o z) /\ r \o z \in Seq(Byte)
          /\ r \o z = << b >> \o (s \o z)
      BY <1>1, <1>2
    <3>2. Text[<< b >> \o (s \o z)] \in Seq(Byte)
      BY <3>1, TextEquation
    <3>3. QED
      BY <1>2, <3>1, <3>2
  <2> DEFINE u == << b >>
  <2>2. u \in Seq(Byte) /\ u # << >> /\ Len(u) = 1 /\ u[1] = b
    BY <1>1
  <2> HIDE DEF u
  <2>3. 1 < SequenceLength(b)
    <3> DEFINE k == SequenceLength(b)
    <3>1. k \in {0, 2, 3, 4} /\ k > 0
      BY <1>1, Claims
    <3> HIDE DEF k
    <3>2. 1 < k
      BY <3>1
    <3>3. QED
      BY <3>2 DEF k
  <2>4. Unfinished(u)
    <3>1. Len(u) < SequenceLength(u[1])
      BY <2>2, <2>3
    <3>2. \A i \in 2 .. Len(u) : IsContinuation(u[i])
      BY <2>2
    <3>3. QED
      BY <2>2, <3>1, <3>2 DEF Unfinished
  <2>5. QED
    BY <2>1, <2>4 DEF Yields, u
<1>8. QED
  BY <1>5, <1>6, <1>7 DEF b, s

(* A byte that does not continue the sequence makes it one U+FFFD and is   *)
(* still ahead.                                                            *)
LEMMA Broken ==
  ASSUME NEW u, Unfinished(u), NEW r \in Seq(Byte), r # << >>, ~IsContinuation(Head(r))
  PROVE  Yields(u, r, Replacement, << >>, r)
<1>1. ASSUME NEW z \in Seq(Byte)
      PROVE  Text[u \o (r \o z)] = Replacement \o Text[<< >> \o (r \o z)]
  <2>1. r \o z \in Seq(Byte) /\ r \o z # << >> /\ (r \o z)[1] = Head(r)
    BY NextByte
  <2>2. Text[u \o (r \o z)] = Replacement \o Text[r \o z]
    BY <2>1, TextBroken
  <2>3. << >> \o (r \o z) = r \o z
    BY <2>1, ConcatEmptySeq
  <2>4. QED
    BY <2>2, <2>3
<1>2. QED
  BY <1>1 DEF Yields

(* A byte that continues the sequence leaves it unfinished or finishes it. *)
LEMMA Continued ==
  ASSUME NEW u, Unfinished(u), NEW r \in Seq(Byte), r # << >>, IsContinuation(Head(r)),
         NEW seq, seq = Append(u, Head(r))
  PROVE  /\ Len(seq) < SequenceLength(seq[1]) =>
              Yields(u, r, << >>, seq, Tail(r)) /\ Unfinished(seq)
         /\ Len(seq) = SequenceLength(seq[1]) =>
              /\ Yields(u, r, IF Utf8SequenceValid(seq) THEN seq ELSE Replacement, << >>, Tail(r))
              /\ seq \in Seq(Byte) /\ seq # << >>
              /\ \A i \in 1 .. Len(seq) : seq[i] >= 128
<1> DEFINE b == Head(r)
           s == Tail(r)
<1>1. /\ b \in Byte /\ s \in Seq(Byte)
      /\ \A z \in Seq(Byte) : r \o z = << b >> \o (s \o z) /\ s \o z \in Seq(Byte)
                              /\ r \o z \in Seq(Byte)
  BY NextByte
<1>2. u \in Seq(Byte) /\ u # << >> /\ u[1] \in Byte /\ SequenceLength(u[1]) \in {2, 3, 4}
      /\ Len(u) \in 1 .. 3
  BY UnfinishedGroup
<1>3. \A i \in 2 .. Len(u) : IsContinuation(u[i])
  BY DEF Unfinished
<1>4. IsContinuation(b) /\ seq = Append(u, b)
  OBVIOUS
<1> HIDE DEF b, s
<1>5. seq \in Seq(Byte) /\ seq # << >> /\ Len(seq) = Len(u) + 1 /\ seq[Len(u) + 1] = b
      /\ \A i \in 1 .. Len(u) : seq[i] = u[i]
  BY <1>1, <1>2, <1>4, AppendProperties
<1>6. seq[1] = u[1]
  BY <1>2, <1>5
<1>7. \A i \in 2 .. Len(seq) : IsContinuation(seq[i])
  <2> TAKE i \in 2 .. Len(seq)
  <2> DEFINE m == Len(u)
  <2>1. m \in 1 .. 3 /\ Len(seq) = m + 1
    BY <1>2, <1>5
  <2> HIDE DEF m
  <2>2. i \in 2 .. m \/ i = m + 1
    BY <2>1
  <2>3. CASE i = m + 1
    BY <1>4, <1>5, <2>3 DEF m
  <2>4. CASE i \in 2 .. m
    <3>1. i \in 1 .. m
      BY <2>1, <2>4
    <3>2. seq[i] = u[i]
      BY <1>5, <3>1 DEF m
    <3>3. QED
      BY <1>3, <2>4, <3>2 DEF m
  <2>5. QED
    BY <2>2, <2>3, <2>4
<1>8. ASSUME NEW z \in Seq(Byte)
      PROVE  u \o (r \o z) = seq \o (s \o z) /\ s \o z \in Seq(Byte)
  <2>1. << b >> \in Seq(Byte) /\ seq = u \o << b >>
    BY <1>1, <1>2, <1>4, AppendIsConcat
  <2>2. s \o z \in Seq(Byte) /\ r \o z = << b >> \o (s \o z)
    BY <1>1
  <2>3. (u \o << b >>) \o (s \o z) = u \o (<< b >> \o (s \o z))
    <3> DEFINE c == << b >>
               y == s \o z
    <3>1. u \in Seq(Byte) /\ c \in Seq(Byte) /\ y \in Seq(Byte)
      BY <1>2, <2>1, <2>2
    <3> HIDE DEF c, y
    <3>2. (u \o c) \o y = u \o (c \o y)
      BY <3>1, ConcatAssociative, SMTT(60)
    <3>3. QED
      BY <3>2 DEF c, y
  <2>4. QED
    BY <2>1, <2>2, <2>3
<1>9. ASSUME Len(seq) < SequenceLength(seq[1])
      PROVE  Yields(u, r, << >>, seq, s) /\ Unfinished(seq)
  <2>1. Unfinished(seq)
    BY <1>5, <1>7, <1>9 DEF Unfinished
  <2>2. ASSUME NEW z \in Seq(Byte)
        PROVE  Text[u \o (r \o z)] = << >> \o Text[seq \o (s \o z)]
    <3>1. u \o (r \o z) = seq \o (s \o z) /\ s \o z \in Seq(Byte)
      BY <1>8
    <3>2. seq \o (s \o z) \in Seq(Byte)
      BY <1>5, <3>1, ConcatProperties
    <3>3. Text[seq \o (s \o z)] \in Seq(Byte)
      BY <3>2, TextEquation
    <3>4. QED
      BY <3>1, <3>3, ConcatEmptySeq
  <2>3. QED
    BY <2>1, <2>2 DEF Yields
<1>10. ASSUME Len(seq) = SequenceLength(seq[1])
       PROVE  /\ Yields(u, r, IF Utf8SequenceValid(seq) THEN seq ELSE Replacement, << >>, s)
              /\ \A i \in 1 .. Len(seq) : seq[i] >= 128
  <2>1. ASSUME NEW z \in Seq(Byte)
        PROVE  Text[u \o (r \o z)] =
                 (IF Utf8SequenceValid(seq) THEN seq ELSE Replacement) \o Text[<< >> \o (s \o z)]
    <3>1. u \o (r \o z) = seq \o (s \o z) /\ s \o z \in Seq(Byte)
      BY <1>8
    <3>2. Text[seq \o (s \o z)] =
            (IF Utf8SequenceValid(seq) THEN seq ELSE Replacement) \o Text[s \o z]
      BY <1>5, <1>7, <1>10, <3>1, TextFinished
    <3>3. << >> \o (s \o z) = s \o z
      BY <3>1, ConcatEmptySeq
    <3>4. QED
      BY <3>1, <3>2, <3>3
  <2>2. ASSUME NEW i \in 1 .. Len(seq) PROVE seq[i] >= 128
    <3>1. CASE i = 1
      <4> DEFINE a == u[1]
                 k == SequenceLength(u[1])
      <4>1. k \in {2, 3, 4} /\ (k > 0 => a >= 194) /\ a \in Byte
        BY <1>2, Claims
      <4> HIDE DEF a, k
      <4>2. a >= 128
        BY <4>1 DEF Byte
      <4>3. QED
        BY <1>6, <3>1, <4>2 DEF a
    <3>2. CASE i # 1
      <4>1. i \in 2 .. Len(seq)
        BY <3>2
      <4>2. seq[i] \in 128 .. 191
        BY <1>7, <4>1 DEF IsContinuation
      <4> DEFINE a == seq[i]
      <4> HIDE DEF a
      <4>3. a \in 128 .. 191
        BY <4>2 DEF a
      <4>4. a >= 128
        BY <4>3
      <4>5. QED
        BY <4>4 DEF a
    <3>3. QED
      BY <3>1, <3>2
  <2>3. QED
    BY <2>1, <2>2 DEF Yields
<1>11. QED
  BY <1>5, <1>9, <1>10 DEF s

-----------------------------------------------------------------------------
(***************************************************************************)
(* The byte order mark, and what the bytes ahead of the parser read as.    *)
(***************************************************************************)

(* Texts under concatenation.                                              *)
LEMMA Concats ==
  /\ << >> \in Texts
  /\ \A s, t \in Texts : s \o t \in Texts
  /\ \A s, t, u \in Texts : (s \o t) \o u = s \o (t \o u)
  /\ \A s \in Texts : s \o << >> = s /\ << >> \o s = s
<1>1. << >> \in Texts
  BY DEF Texts
<1>2. \A s, t \in Texts : s \o t \in Texts
  BY ConcatProperties DEF Texts
<1>3. \A s, t, u \in Texts : (s \o t) \o u = s \o (t \o u)
  <2> TAKE s, t, u \in Texts
  <2>1. QED
    BY ConcatAssociative DEF Texts
<1>4. \A s \in Texts : s \o << >> = s /\ << >> \o s = s
  BY ConcatEmptySeq DEF Texts
<1>5. QED
  BY <1>1, <1>2, <1>3, <1>4

(* Concatenation, however it is bracketed.                                 *)
Rebrackets(s, t, u) == (s \o t) \o u = s \o (t \o u)

LEMMA Joins ==
  ASSUME NEW s \in Texts, NEW t \in Texts, NEW u \in Texts
  PROVE  Rebrackets(s, t, u)
  BY Concats DEF Rebrackets

(* The elements of a concatenation.                                        *)
LEMMA ConcatParts ==
  \A s, t \in Seq(Byte) :
    /\ s \o t \in Seq(Byte) /\ Len(s \o t) = Len(s) + Len(t)
    /\ \A i \in 1 .. Len(s) + Len(t) : (s \o t)[i] = IF i <= Len(s) THEN s[i] ELSE t[i - Len(s)]
<1> TAKE s, t \in Seq(Byte)
<1>1. QED
  BY ConcatProperties, Zenon

(* A byte order mark at the start is no text.                              *)
LEMMA BomDropped ==
  ASSUME NEW y \in Texts
  PROVE  AfterBom(BOM \o y) = y
<1>1. BOM \in Texts /\ Len(BOM) = 3
  BY DEF BOM, Texts, Byte
<1> DEFINE B == BOM
           t == B \o y
           n == Len(y)
<1>2. B \in Texts /\ Len(B) = 3 /\ n \in Nat
  BY <1>1, LenProperties DEF Texts
<1>3. /\ t \in Texts /\ Len(t) = Len(B) + Len(y)
      /\ \A i \in 1 .. Len(B) + Len(y) : t[i] = IF i <= Len(B) THEN B[i] ELSE y[i - Len(B)]
  <2> HIDE DEF B
  <2>1. QED
    BY <1>2, ConcatProperties, Zenon DEF Texts
<1> HIDE DEF B, t
<1>4. Len(t) = 3 + n /\ \A i \in 1 .. 3 + n : t[i] = IF i <= 3 THEN B[i] ELSE y[i - 3]
  BY <1>2, <1>3 DEF n
<1> HIDE DEF n
<1>5. IsPrefix(B, t)
  <2>1. Len(B) <= Len(t) /\ \A i \in 1 .. Len(B) : B[i] = t[i]
    BY <1>2, <1>4
  <2>2. QED
    BY <1>2, <1>3, <2>1, PrefixMeans DEF Texts
<1>6. SubSeq(t, 4, Len(t)) = y
  <2> DEFINE m == Len(t)
             r == SubSeq(t, 4, m)
  <2>1. m \in Nat /\ m = 3 + n
    BY <1>2, <1>4
  <2>2. \A i \in 4 .. m : t[i] \in Byte
    <3>1. \A i \in 1 .. Len(t) : t[i] \in Byte
      BY <1>3, ElementOfSeq DEF Texts
    <3>2. QED
      BY <3>1
  <2> HIDE DEF m
  <2>3. /\ r \in Seq(Byte) /\ Len(r) = IF 4 <= m THEN m - 4 + 1 ELSE 0
        /\ \A i \in 1 .. m - 4 + 1 : r[i] = t[4 + i - 1]
    <3>1. m \in Int /\ 4 \in Int
      BY <2>1
    <3>2. QED
      BY <2>2, <3>1, SubSeqProperties
  <2> HIDE DEF r
  <2>4. Len(r) = n /\ m - 4 + 1 = n
    BY <1>2, <2>1, <2>3
  <2>5. \A i \in 1 .. n : r[i] = y[i]
    <3> TAKE i \in 1 .. n
    <3>1. r[i] = t[4 + i - 1] /\ 4 + i - 1 = i + 3 /\ i + 3 \in 1 .. 3 + n /\ ~(i + 3 <= 3)
          /\ (i + 3) - 3 = i
      BY <1>2, <2>3, <2>4
    <3>2. QED
      BY <1>4, <3>1
  <2>6. r = y
    BY <2>3, <2>4, <2>5, SeqEqual DEF Texts, n
  <2>7. QED
    BY <2>6 DEF r, m
<1>7. QED
  BY <1>5, <1>6 DEF AfterBom, B, t

(* The bytes the parser holds back are the first ones of a byte order      *)
(* mark.                                                                   *)
LEMMA BomHeld ==
  ASSUME NEW b \in BomPrefixes \cup {<< >>}
  PROVE  /\ b \in Seq(Byte) /\ Len(b) \in {0, 1, 2}
         /\ Len(b) >= 1 => b[1] = 239
         /\ Len(b) = 2 => b[2] = 187
<1>1. CASE b = << >>
  <2>1. b \in Seq(Byte) /\ Len(b) = 0
    BY <1>1
  <2>2. QED
    BY <2>1
<1>2. CASE b = << 239 >>
  <2>1. b \in Seq(Byte) /\ Len(b) = 1 /\ b[1] = 239
    BY <1>2 DEF Byte
  <2>2. QED
    BY <2>1
<1>3. CASE b = << 239, 187 >>
  <2>1. b \in Seq(Byte) /\ Len(b) = 2 /\ b[1] = 239 /\ b[2] = 187
    BY <1>3 DEF Byte
  <2>2. QED
    BY <2>1
<1>4. QED
  BY <1>1, <1>2, <1>3 DEF BomPrefixes

(* As long as they are held back there is no text.                         *)
LEMMA BomUndecided ==
  ASSUME NEW b \in BomPrefixes \cup {<< >>}
  PROVE  b \in Texts /\ AfterBom(b) = << >>
<1>1. BOM \in Seq(Byte) /\ Len(BOM) = 3 /\ BOM[1] = 239 /\ BOM[2] = 187
  BY DEF BOM, Byte
<1>2. /\ b \in Seq(Byte) /\ Len(b) \in {0, 1, 2}
      /\ (Len(b) >= 1 => b[1] = 239) /\ (Len(b) = 2 => b[2] = 187)
  BY BomHeld
<1>3. ~IsPrefix(BOM, b)
  <2>1. ~(Len(BOM) <= Len(b))
    BY <1>1, <1>2
  <2>2. QED
    BY <1>1, <1>2, <2>1, PrefixMeans
<1>4. IsPrefix(b, BOM)
  <2>1. Len(b) <= Len(BOM) /\ \A i \in 1 .. Len(b) : b[i] = BOM[i]
    <3>1. CASE Len(b) = 0
      BY <1>1, <3>1
    <3>2. CASE Len(b) = 1
      <4>1. \A i \in 1 .. Len(b) : i = 1
        BY <3>2
      <4>2. QED
        BY <1>1, <1>2, <3>2, <4>1
    <3>3. CASE Len(b) = 2
      <4>1. \A i \in 1 .. Len(b) : i = 1 \/ i = 2
        BY <3>3
      <4>2. QED
        BY <1>1, <1>2, <3>3, <4>1
    <3>4. QED
      BY <1>2, <3>1, <3>2, <3>3
  <2>2. QED
    BY <1>1, <1>2, <2>1, PrefixMeans
<1>5. b # BOM
  <2>1. SUFFICES ASSUME b = BOM PROVE FALSE
    OBVIOUS
  <2>2. Len(b) = 3
    BY <1>1, <2>1
  <2>3. QED
    BY <1>2, <2>2
<1>6. QED
  BY <1>2, <1>3, <1>4, <1>5 DEF AfterBom, IsStrictPrefix, Texts

(* How the held bytes grow into a byte order mark.                         *)
LEMMA BomGrows ==
  /\ Append(<< >>, 239) = << 239 >>
  /\ Append(<< 239 >>, 187) = << 239, 187 >>
  /\ Append(<< 239, 187 >>, 191) = BOM
<1>1. Append(<< >>, 239) = << 239 >>
  OBVIOUS
<1>2. Append(<< 239 >>, 187) = << 239, 187 >>
  <2> DEFINE s == << 239 >>
             t == << 239, 187 >>
  <2>1. s \in Seq(Byte) /\ Len(s) = 1 /\ s[1] = 239 /\ 187 \in Byte
    BY DEF Byte
  <2>2. t \in Seq(Byte) /\ Len(t) = 2 /\ t[1] = 239 /\ t[2] = 187
    BY DEF Byte
  <2> HIDE DEF s, t
  <2>3. /\ Append(s, 187) \in Seq(Byte) /\ Len(Append(s, 187)) = 2
        /\ Append(s, 187)[1] = 239 /\ Append(s, 187)[2] = 187
    <3> DEFINE c == 187
               q == Append(s, c)
    <3>0. c \in Byte
      BY <2>1
    <3> HIDE DEF c
    <3>1. /\ q \in Seq(Byte) /\ Len(q) = Len(s) + 1 /\ q[Len(s) + 1] = c
          /\ \A i \in 1 .. Len(s) : q[i] = s[i]
      <4>1. s \in Seq(Byte)
        BY <2>1
      <4>2. QED
        BY <3>0, <4>1, AppendProperties
    <3> HIDE DEF q
    <3>2. QED
      BY <2>1, <3>1 DEF c, q
  <2>4. \A i \in 1 .. 2 : i = 1 \/ i = 2
    OBVIOUS
  <2>5. Append(s, 187) = t
    BY <2>2, <2>3, <2>4, SeqEqual
  <2>6. QED
    BY <2>5 DEF s, t
<1>3. Append(<< 239, 187 >>, 191) = << 239, 187, 191 >>
  <2> DEFINE s == << 239, 187 >>
             t == << 239, 187, 191 >>
  <2>1. s \in Seq(Byte) /\ Len(s) = 2 /\ s[1] = 239 /\ s[2] = 187 /\ 191 \in Byte
    BY DEF Byte
  <2>2. t \in Seq(Byte) /\ Len(t) = 3 /\ t[1] = 239 /\ t[2] = 187 /\ t[3] = 191
    BY DEF Byte
  <2> HIDE DEF s, t
  <2>3. /\ Append(s, 191) \in Seq(Byte) /\ Len(Append(s, 191)) = 3
        /\ Append(s, 191)[1] = 239 /\ Append(s, 191)[2] = 187 /\ Append(s, 191)[3] = 191
    <3> DEFINE c == 191
               q == Append(s, c)
    <3>0. c \in Byte
      BY <2>1
    <3> HIDE DEF c
    <3>1. /\ q \in Seq(Byte) /\ Len(q) = Len(s) + 1 /\ q[Len(s) + 1] = c
          /\ \A i \in 1 .. Len(s) : q[i] = s[i]
      <4>1. s \in Seq(Byte)
        BY <2>1
      <4>2. QED
        BY <3>0, <4>1, AppendProperties
    <3> HIDE DEF q
    <3>2. QED
      BY <2>1, <3>1 DEF c, q
  <2>4. \A i \in 1 .. 3 : i = 1 \/ i = 2 \/ i = 3
    OBVIOUS
  <2>5. Append(s, 191) = t
    BY <2>2, <2>3, <2>4, SeqEqual
  <2>6. QED
    BY <2>5 DEF s, t
<1>4. QED
  BY <1>1, <1>2, <1>3 DEF BOM

(* A byte that leads away from the byte order mark makes all bytes text.   *)
LEMMA BomAbsent ==
  ASSUME NEW b \in BomPrefixes \cup {<< >>}, NEW c \in Byte,
         Append(b, c) \notin BomPrefixes \cup {BOM}, NEW y \in Texts
  PROVE  AfterBom(b \o (<< c >> \o y)) = b \o (<< c >> \o y)
<1> DEFINE k == Len(b) + 1
           e == << c >> \o y
           q == b \o e
<1>1. BOM \in Seq(Byte) /\ Len(BOM) = 3 /\ BOM[1] = 239 /\ BOM[2] = 187 /\ BOM[3] = 191
  BY DEF BOM, Byte
<1>2. b \in Seq(Byte) /\ k \in 1 .. 3
  <2>1. b \in Seq(Byte) /\ Len(b) \in {0, 1, 2}
    BY BomHeld
  <2> DEFINE m == Len(b)
  <2> HIDE DEF m
  <2>2. m \in {0, 1, 2}
    BY <2>1 DEF m
  <2>3. m + 1 \in 1 .. 3
    BY <2>2
  <2>4. QED
    BY <2>1, <2>3 DEF m
<1>3. c # BOM[k]
  <2>1. CASE b = << >>
    BY <1>1, <2>1 DEF BomPrefixes
  <2>2. CASE b = << 239 >>
    <3>1. c # 187
      BY <2>2, BomGrows DEF BomPrefixes
    <3>2. Len(b) = 1
      BY <2>2
    <3>3. k = 2
      BY <3>2
    <3>4. QED
      BY <1>1, <3>1, <3>3
  <2>3. CASE b = << 239, 187 >>
    <3>1. Append(b, 191) = BOM
      BY <2>3, BomGrows
    <3>2. c # 191
      BY <3>1
    <3>3. Len(b) = 2
      BY <2>3
    <3>4. k = 3
      BY <3>3
    <3>5. QED
      BY <1>1, <3>2, <3>4
  <2>4. QED
    BY <2>1, <2>2, <2>3 DEF BomPrefixes
<1>4. e \in Seq(Byte) /\ e[1] = c /\ Len(e) = 1 + Len(y) /\ Len(y) \in Nat
  <2> DEFINE a == << c >>
  <2>1. a \in Seq(Byte) /\ Len(a) = 1 /\ a[1] = c /\ y \in Seq(Byte)
    BY DEF Texts
  <2> HIDE DEF a
  <2>2. /\ a \o y \in Seq(Byte) /\ Len(a \o y) = Len(a) + Len(y)
        /\ \A i \in 1 .. Len(a) + Len(y) : (a \o y)[i] = IF i <= Len(a) THEN a[i] ELSE y[i - Len(a)]
    BY <2>1, ConcatProperties, Zenon
  <2>3. Len(y) \in Nat /\ 1 \in 1 .. Len(a) + Len(y) /\ 1 <= Len(a)
    BY <2>1, LenProperties
  <2>4. QED
    BY <2>1, <2>2, <2>3 DEF a
<1> HIDE DEF e
<1>5. /\ q \in Seq(Byte) /\ Len(q) = Len(b) + Len(e)
      /\ \A i \in 1 .. Len(b) + Len(e) : q[i] = IF i <= Len(b) THEN b[i] ELSE e[i - Len(b)]
  <2>1. b \in Seq(Byte) /\ e \in Seq(Byte)
    BY <1>2, <1>4
  <2>2. QED
    BY <2>1, ConcatParts
<1> HIDE DEF q
<1>0. q \in Seq(Byte)
  BY <1>5
<1>6. q[k] = c /\ k <= Len(q)
  <2>1. Len(b) \in Nat
    BY <1>2
  <2> DEFINE m == Len(b)
  <2> HIDE DEF m
  <2>2. m \in Nat /\ k = m + 1 /\ k \in 1 .. m + Len(e) /\ ~(k <= m) /\ k - m = 1
    BY <1>4, <2>1 DEF m
  <2>3. QED
    BY <1>4, <1>5, <2>2 DEF m
<1> HIDE DEF k
<1>7. ~IsPrefix(BOM, q)
  <2>1. SUFFICES ASSUME IsPrefix(BOM, q) PROVE FALSE
    OBVIOUS
  <2>2. BOM \in Seq(Byte)
    BY <1>1
  <2>3. \A i \in 1 .. Len(BOM) : BOM[i] = q[i]
    <3> DEFINE B == BOM
    <3>1. B \in Seq(Byte) /\ IsPrefix(B, q)
      BY <2>1, <2>2
    <3> HIDE DEF B
    <3>2. \A i \in 1 .. Len(B) : B[i] = q[i]
      BY <1>0, <3>1, PrefixMeans
    <3>3. QED
      BY <3>2 DEF B
  <2>4. k \in 1 .. Len(BOM)
    BY <1>1, <1>2
  <2>5. QED
    BY <1>3, <1>6, <2>3, <2>4
<1>8. ~IsPrefix(q, BOM)
  <2>1. SUFFICES ASSUME IsPrefix(q, BOM) PROVE FALSE
    OBVIOUS
  <2>2. \A i \in 1 .. Len(q) : q[i] = BOM[i]
    BY <1>0, <1>1, <2>1, PrefixMeans
  <2>3. k \in 1 .. Len(q)
    <3>1. Len(q) \in Nat
      BY <1>5
    <3>2. QED
      BY <1>2, <1>6, <3>1
  <2>4. QED
    BY <1>3, <1>6, <2>2, <2>3
<1>9. AfterBom(q) = q
  BY <1>7, <1>8 DEF AfterBom, IsStrictPrefix
<1>10. QED
  BY <1>9 DEF q, e

-----------------------------------------------------------------------------
(***************************************************************************)
(* Reading on.  b is all that was fed, d the text read from it so far, u   *)
(* the unfinished sequence and r the bytes of the chunk not yet looked at; *)
(* h are the bytes held back at the start.                                 *)
(***************************************************************************)

Reading(b, d, u, r) ==
  \A z \in Texts : Text[AfterBom(b \o z)] = d \o Text[u \o (r \o z)]

Waiting(b, h, r) ==
  \A z \in Texts : AfterBom(b \o z) = AfterBom(h \o (r \o z))

(* The reference makes texts of texts.                                     *)
LEMMA TextType == \A s \in Texts : Text[s] \in Texts
BY TextEquation DEF Texts

(* What follows the byte order mark is a text, too.                        *)
LEMMA AfterBomType == \A s \in Texts : AfterBom(s) \in Texts
<1> TAKE s \in Texts
<1>1. SubSeq(s, 4, Len(s)) \in Texts
  <2>1. \A i \in 4 .. Len(s) : s[i] \in Byte
    <3>1. Len(s) \in Nat /\ \A i \in 1 .. Len(s) : s[i] \in Byte
      BY LenProperties, ElementOfSeq DEF Texts
    <3>2. QED
      BY <3>1
  <2>2. Len(s) \in Int /\ 4 \in Int
    BY LenProperties DEF Texts
  <2>3. QED
    BY <2>1, <2>2, SubSeqProperties DEF Texts
<1>2. QED
  BY <1>1, Concats DEF AfterBom

(* What is read next joins what was read.                                  *)
LEMMA ReadOn ==
  ASSUME NEW b, NEW d \in Texts, NEW u \in Texts, NEW r \in Texts,
         NEW x \in Texts, NEW w \in Texts, NEW s \in Texts,
         Reading(b, d, u, r), Yields(u, r, x, w, s)
  PROVE  Reading(b, d \o x, w, s)
<1>1. ASSUME NEW z \in Texts
      PROVE  Text[AfterBom(b \o z)] = (d \o x) \o Text[w \o (s \o z)]
  <2>1. Text[AfterBom(b \o z)] = d \o Text[u \o (r \o z)]
    BY DEF Reading
  <2>2. Text[u \o (r \o z)] = x \o Text[w \o (s \o z)]
    BY DEF Yields, Texts
  <2>3. Text[w \o (s \o z)] \in Texts
    BY Concats, TextType
  <2> DEFINE t == Text[w \o (s \o z)]
  <2> HIDE DEF t
  <2>4. (d \o x) \o t = d \o (x \o t)
    <3>1. Rebrackets(d, x, t)
      BY <2>3, Joins DEF t
    <3>2. QED
      BY <3>1 DEF Rebrackets
  <2>5. QED
    BY <2>1, <2>2, <2>4 DEF t
<1>2. QED
  BY <1>1 DEF Reading

(* A chunk is ahead when it has been fed.                                  *)
LEMMA FeedOn ==
  ASSUME NEW b \in Texts, NEW chunk \in Texts, NEW u \in Texts
  PROVE  /\ \A d \in Texts : Reading(b, d, u, << >>) => Reading(b \o chunk, d, u, chunk)
         /\ \A h \in Texts : Waiting(b, h, << >>) => Waiting(b \o chunk, h, chunk)
<1>1. ASSUME NEW z \in Texts
      PROVE  /\ chunk \o z \in Texts /\ (b \o chunk) \o z = b \o (chunk \o z)
             /\ << >> \o (chunk \o z) = chunk \o z
  BY Concats
<1>2. ASSUME NEW d \in Texts, Reading(b, d, u, << >>)
      PROVE  Reading(b \o chunk, d, u, chunk)
  <2>1. ASSUME NEW z \in Texts
        PROVE  Text[AfterBom((b \o chunk) \o z)] = d \o Text[u \o (chunk \o z)]
    <3>1. Text[AfterBom(b \o (chunk \o z))] = d \o Text[u \o (<< >> \o (chunk \o z))]
      BY <1>1, <1>2 DEF Reading
    <3>2. QED
      BY <1>1, <3>1
  <2>2. QED
    BY <2>1 DEF Reading
<1>3. ASSUME NEW h \in Texts, Waiting(b, h, << >>)
      PROVE  Waiting(b \o chunk, h, chunk)
  <2>1. ASSUME NEW z \in Texts
        PROVE  AfterBom((b \o chunk) \o z) = AfterBom(h \o (chunk \o z))
    <3>1. AfterBom(b \o (chunk \o z)) = AfterBom(h \o (<< >> \o (chunk \o z)))
      BY <1>1, <1>3 DEF Waiting
    <3>2. QED
      BY <1>1, <3>1
  <2>2. QED
    BY <2>1 DEF Waiting
<1>4. QED
  BY <1>2, <1>3

(* The first bytes: held on, dropped as a byte order mark, or replayed.    *)
LEMMA FirstBytes ==
  ASSUME NEW b, NEW h \in BomPrefixes \cup {<< >>}, NEW r \in Texts, r # << >>,
         Waiting(b, h, r)
  PROVE  /\ Append(h, Head(r)) \in BomPrefixes => Waiting(b, Append(h, Head(r)), Tail(r))
         /\ Append(h, Head(r)) = BOM => Reading(b, << >>, << >>, Tail(r))
         /\ Append(h, Head(r)) \notin BomPrefixes \cup {BOM} =>
              Reading(b, << >>, << >>, h \o r)
<1> DEFINE c == Head(r)
           s == Tail(r)
<1>1. /\ c \in Byte /\ s \in Texts /\ r = << c >> \o s
      /\ \A z \in Texts : r \o z = << c >> \o (s \o z)
  BY NextByte DEF Texts
<1> HIDE DEF c, s
<1>2. h \in Texts
  BY BomUndecided
<1>3. << c >> \in Texts /\ Append(h, c) = h \o << c >>
  BY <1>1, <1>2, AppendIsConcat DEF Texts
<1> DEFINE a == << c >>
<1> HIDE DEF a
<1>4. ASSUME NEW z \in Texts
      PROVE  /\ s \o z \in Texts /\ r \o z = a \o (s \o z)
             /\ h \o (r \o z) = Append(h, c) \o (s \o z)
  <2>1. s \o z \in Texts /\ r \o z = a \o (s \o z)
    BY <1>1, Concats DEF a
  <2>2. (h \o a) \o (s \o z) = h \o (a \o (s \o z))
    <3>1. Rebrackets(h, a, s \o z)
      BY <1>2, <1>3, <2>1, Joins DEF a
    <3>2. QED
      BY <3>1 DEF Rebrackets
  <2>3. QED
    BY <1>3, <2>1, <2>2 DEF a
<1>5. ASSUME NEW z \in Texts
      PROVE  AfterBom(b \o z) = AfterBom(Append(h, c) \o (s \o z))
  BY <1>4, Zenon DEF Waiting
<1>6. Waiting(b, Append(h, c), s)
  BY <1>5 DEF Waiting
<1>7. ASSUME Append(h, c) = BOM
      PROVE  Reading(b, << >>, << >>, s)
  <2>1. ASSUME NEW z \in Texts
        PROVE  Text[AfterBom(b \o z)] = << >> \o Text[<< >> \o (s \o z)]
    <3>1. s \o z \in Texts
      BY <1>4
    <3>2. AfterBom(BOM \o (s \o z)) = s \o z
      BY <3>1, BomDropped
    <3>3. AfterBom(b \o z) = s \o z
      BY <1>5, <1>7, <3>2
    <3>4. << >> \o (s \o z) = s \o z /\ << >> \o Text[s \o z] = Text[s \o z]
      BY <3>1, Concats, TextType
    <3>5. QED
      BY <3>3, <3>4
  <2>2. QED
    BY <2>1 DEF Reading
<1>8. ASSUME Append(h, c) \notin BomPrefixes \cup {BOM}
      PROVE  Reading(b, << >>, << >>, h \o r)
  <2>1. ASSUME NEW z \in Texts
        PROVE  Text[AfterBom(b \o z)] = << >> \o Text[<< >> \o ((h \o r) \o z)]
    <3>1. s \o z \in Texts /\ r \o z = a \o (s \o z)
      BY <1>4
    <3>2. AfterBom(h \o (a \o (s \o z))) = h \o (a \o (s \o z))
      BY <1>1, <1>8, <3>1, BomAbsent DEF a
    <3>3. AfterBom(b \o z) = h \o (r \o z)
      BY <3>1, <3>2, Zenon DEF Waiting
    <3>4. (h \o r) \o z = h \o (r \o z) /\ (h \o r) \o z \in Texts
      BY <1>2, Concats
    <3> DEFINE q == (h \o r) \o z
    <3> HIDE DEF q
    <3>5. << >> \o q = q /\ << >> \o Text[q] = Text[q]
      BY <3>4, Concats, TextType DEF q
    <3>6. QED
      BY <3>3, <3>4, <3>5 DEF q
  <2>2. QED
    BY <2>1 DEF Reading
<1>9. QED
  BY <1>6, <1>7, <1>8 DEF c, s

(* When all of the chunk has been looked at.                               *)
LEMMA AllRead ==
  ASSUME NEW b \in Texts
  PROVE  /\ \A d, u \in Texts :
              /\ Reading(b, d, u, << >>) /\ (u = << >> \/ Unfinished(u))
              => StreamText(b) = d
         /\ \A h \in BomPrefixes \cup {<< >>} : Waiting(b, h, << >>) => StreamText(b) = << >>
<1>1. << >> \in Texts /\ b \o << >> = b /\ << >> \o << >> = << >>
  BY Concats
<1>2. ASSUME NEW d \in Texts, NEW u \in Texts, Reading(b, d, u, << >>), u = << >> \/ Unfinished(u)
      PROVE  StreamText(b) = d
  <2>1. Text[AfterBom(b \o << >>)] = d \o Text[u \o (<< >> \o << >>)]
    BY <1>1, <1>2, Zenon DEF Reading
  <2>2. u \o << >> = u /\ d \o << >> = d
    BY Concats
  <2>3. Text[u] = << >>
    BY <1>2, TextOfNothing
  <2>4. QED
    BY <1>1, <2>1, <2>2, <2>3 DEF StreamText
<1>3. ASSUME NEW h \in BomPrefixes \cup {<< >>}, Waiting(b, h, << >>)
      PROVE  StreamText(b) = << >>
  <2>1. AfterBom(b \o << >>) = AfterBom(h \o (<< >> \o << >>))
    BY <1>1, <1>3, Zenon DEF Waiting
  <2>2. h \in Texts /\ AfterBom(h) = << >>
    BY BomUndecided
  <2>3. h \o << >> = h
    BY <2>2, Concats
  <2>4. Text[<< >>] = << >>
    BY TextEquation
  <2>5. QED
    BY <1>1, <2>1, <2>2, <2>3, <2>4 DEF StreamText
<1>4. QED
  BY <1>2, <1>3

(* What has been read shows in what the whole stream means.                *)
LEMMA Shown ==
  ASSUME NEW b \in Texts, NEW d \in Texts,
         \/ d = << >>
         \/ \E u, r \in Texts : Reading(b, d, u, r)
  PROVE  /\ IsPrefix(EventsOf[Front(LinesOf[d])], StreamEvents(b))
         /\ TooLong(LinesOf[d]) => TooLong(AllLines(b))
         /\ TooLarge(LinesOf[d]) => TooLarge(AllLines(b))
<1>1. \E x \in Texts : StreamText(b) = d \o x
  <2>1. CASE d = << >>
    <3>1. StreamText(b) \in Texts
      BY AfterBomType, TextType DEF StreamText
    <3> DEFINE t == StreamText(b)
    <3> HIDE DEF t
    <3>2. t \in Texts /\ t = << >> \o t
      BY <3>1, Concats DEF t
    <3>3. QED
      BY <2>1, <3>2 DEF t
  <2>2. ASSUME NEW u \in Texts, NEW r \in Texts, Reading(b, d, u, r)
        PROVE  \E x \in Texts : StreamText(b) = d \o x
    <3>1. << >> \in Texts /\ b \o << >> = b
      BY Concats
    <3>2. Text[AfterBom(b \o << >>)] = d \o Text[u \o (r \o << >>)]
      BY <2>2, <3>1, Zenon DEF Reading
    <3>3. Text[u \o (r \o << >>)] \in Texts
      BY <3>1, Concats, TextType
    <3>4. QED
      BY <3>1, <3>2, <3>3 DEF StreamText
  <2>3. QED
    BY <2>1, <2>2
<1>2. PICK x \in Texts : StreamText(b) = d \o x
  BY <1>1
<1>3. QED
  BY <1>2, ShownStays DEF StreamEvents, StreamLines, AllLines, Texts

-----------------------------------------------------------------------------
(***************************************************************************)
(* The limits, a line at a time.                                           *)
(***************************************************************************)

(* A line more is too long itself or nothing has changed.                  *)
LEMMA LongOfMore ==
  ASSUME NEW L \in Seq(Texts), NEW l \in Texts
  PROVE  TooLong(Append(L, l)) <=> TooLong(L) \/ Exceeds(MaxLine, Len(l))
<1> DEFINE A == Append(L, l)
           n == Len(L)
<1>1. /\ n \in Nat /\ DOMAIN L = 1 .. n /\ DOMAIN A = 1 .. n + 1 /\ A[n + 1] = l
      /\ \A i \in 1 .. n : A[i] = L[i]
      /\ \A i \in 1 .. n + 1 : i \in 1 .. n \/ i = n + 1
  BY OneMore
<1> HIDE DEF A, n
<1>2. (\A i \in 1 .. n : i \in 1 .. n + 1) /\ n + 1 \in 1 .. n + 1
  BY <1>1
<1>3. TooLong(A) => TooLong(L) \/ Exceeds(MaxLine, Len(l))
  BY <1>1, Zenon DEF TooLong
<1>4. TooLong(L) => TooLong(A)
  BY <1>1, <1>2, Zenon DEF TooLong
<1>5. Exceeds(MaxLine, Len(l)) => TooLong(A)
  BY <1>1, <1>2, Zenon DEF TooLong
<1>6. QED
  BY <1>3, <1>4, <1>5 DEF A

(* The frame is too large after one of the first n lines.                  *)
LargeIn(lines, n) == \E i \in 0 .. n : Exceeds(MaxFrame, Len(OpenData(SubSeq(lines, 1, i))))

(* The lines before the last one are those without it.                     *)
LEMMA SameBeginning ==
  ASSUME NEW L \in Seq(Texts), NEW l \in Texts, NEW i \in 0 .. Len(L)
  PROVE  SubSeq(Append(L, l), 1, i) = SubSeq(L, 1, i)
<1> DEFINE A == Append(L, l)
           a == SubSeq(A, 1, i)
           b == SubSeq(L, 1, i)
           n == Len(L)
<1>1. /\ n \in Nat /\ \A k \in 1 .. n : A[k] = L[k]
  BY OneMore
<1>2. \A k \in 1 .. n : L[k] \in Texts
  BY ElementOfSeq
<1> HIDE DEF A
<1>3. i \in 0 .. n
  OBVIOUS
<1> HIDE DEF n
<1>4. 1 \in Int /\ i \in Int /\ i - 1 + 1 = i /\ (IF 1 <= i THEN i - 1 + 1 ELSE 0) = i
  BY <1>1, <1>3
<1>5. \A k \in 1 .. i : k \in 1 .. n /\ 1 + k - 1 = k
  BY <1>1, <1>3
<1>6. (\A k \in 1 .. i : A[k] \in Texts) /\ \A k \in 1 .. i : L[k] \in Texts
  BY <1>1, <1>2, <1>5
<1>7. a \in Seq(Texts) /\ Len(a) = i /\ \A k \in 1 .. i : a[k] = A[1 + k - 1]
  BY <1>4, <1>6, SubSeqProperties
<1>8. b \in Seq(Texts) /\ Len(b) = i /\ \A k \in 1 .. i : b[k] = L[1 + k - 1]
  BY <1>4, <1>6, SubSeqProperties
<1> HIDE DEF a, b
<1>9. \A k \in 1 .. Len(a) : a[k] = b[k]
  BY <1>1, <1>5, <1>7, <1>8
<1>10. a = b
  BY <1>7, <1>8, <1>9, SeqEqual
<1>11. QED
  BY <1>10 DEF a, b, A

(* The last line, not ended, adds to no frame; once ended it may.          *)
LEMMA LargeOfMore ==
  ASSUME NEW L \in Seq(Texts), NEW l \in Texts
  PROVE  /\ TooLarge(Append(L, l)) <=> LargeIn(L, Len(L))
         /\ LargeIn(Append(L, l), Len(L) + 1) <=>
              LargeIn(L, Len(L)) \/ Exceeds(MaxFrame, Len(OpenData(Append(L, l))))
<1> DEFINE A == Append(L, l)
           n == Len(L)
<1>1. n \in Nat /\ A \in Seq(Texts) /\ Len(A) = n + 1
  BY OneMore
<1>2. \A i \in 0 .. n : SubSeq(A, 1, i) = SubSeq(L, 1, i)
  BY SameBeginning
<1>3. SubSeq(A, 1, n + 1) = A
  <2> HIDE DEF A, n
  <2>1. SubSeq(A, 1, Len(A)) = A
    BY <1>1, SubSeqFull
  <2>2. QED
    BY <1>1, <2>1
<1> HIDE DEF A, n
<1>4. Len(A) - 1 = n
  BY <1>1
<1>5. /\ \A i \in 0 .. n + 1 : i \in 0 .. n \/ i = n + 1
      /\ \A i \in 0 .. n : i \in 0 .. n + 1
      /\ n + 1 \in 0 .. n + 1
  BY <1>1
<1>6. TooLarge(A) <=> LargeIn(L, n)
  BY <1>2, <1>4, Zenon DEF TooLarge, LargeIn
<1>7. LargeIn(A, n + 1) => LargeIn(L, n) \/ Exceeds(MaxFrame, Len(OpenData(A)))
  BY <1>2, <1>3, <1>5, Zenon DEF LargeIn
<1>8. LargeIn(L, n) => LargeIn(A, n + 1)
  BY <1>2, <1>5, Zenon DEF LargeIn
<1>9. Exceeds(MaxFrame, Len(OpenData(A))) => LargeIn(A, n + 1)
  BY <1>3, <1>5, Zenon DEF LargeIn
<1>10. QED
  BY <1>6, <1>7, <1>8, <1>9 DEF A, n

(* A line that grows from l to m, and a line m begun after l.              *)
LEMMA LimitsOfMore ==
  ASSUME NEW L \in Seq(Texts), NEW l \in Texts, NEW m \in Texts
  PROVE  /\ ~TooLong(Append(L, l)) =>
              /\ TooLong(Append(L, m)) <=> Exceeds(MaxLine, Len(m))
              /\ TooLong(Append(Append(L, l), m)) <=> Exceeds(MaxLine, Len(m))
         /\ ~TooLarge(Append(L, l)) =>
              /\ ~TooLarge(Append(L, m))
              /\ TooLarge(Append(Append(L, l), m)) <=>
                   Exceeds(MaxFrame, Len(OpenData(Append(L, l))))
<1> DEFINE A == Append(L, l)
<1>1. A \in Seq(Texts) /\ Len(A) = Len(L) + 1
  BY OneMore
<1>2. TooLong(A) <=> TooLong(L) \/ Exceeds(MaxLine, Len(l))
  BY LongOfMore
<1>3. TooLong(Append(L, m)) <=> TooLong(L) \/ Exceeds(MaxLine, Len(m))
  BY LongOfMore
<1>4. /\ TooLarge(A) <=> LargeIn(L, Len(L))
      /\ LargeIn(A, Len(A)) <=> LargeIn(L, Len(L)) \/ Exceeds(MaxFrame, Len(OpenData(A)))
  BY <1>1, LargeOfMore
<1>5. TooLarge(Append(L, m)) <=> LargeIn(L, Len(L))
  BY LargeOfMore
<1> HIDE DEF A
<1>6. TooLong(Append(A, m)) <=> TooLong(A) \/ Exceeds(MaxLine, Len(m))
  BY <1>1, LongOfMore
<1>7. TooLarge(Append(A, m)) <=> LargeIn(A, Len(A))
  BY <1>1, LargeOfMore
<1>8. QED
  BY <1>2, <1>3, <1>4, <1>5, <1>6, <1>7 DEF A

(* Before the first byte.                                                  *)
LEMMA NothingYet ==
  /\ << >> \in Seq(Texts) /\ LinesOf[<< >>] = Append(<< >>, << >>)
  /\ OpenBlock(<< >>) = << >> /\ OpenData(<< >>) = << >>
  /\ ~TooLong(Append(<< >>, << >>)) /\ ~TooLarge(Append(<< >>, << >>))
<1> DEFINE e == << >>
<1>1. e \in Seq(Texts) /\ Len(e) = 0 /\ DOMAIN e = {} /\ e \in Texts
  BY DEF Texts
<1>2. LinesOf[e] = Append(e, e)
  BY LinesEquation
<1>3. OpenBlock(e) = e
  <2>1. Blanks(e) \cup {0} = {0}
    BY <1>1 DEF Blanks
  <2>2. \A j \in Blanks(e) : j <= 0
    BY <1>1 DEF Blanks
  <2>3. (CHOOSE i \in Blanks(e) \cup {0} : \A j \in Blanks(e) : j <= i) \in {0}
    BY <2>1, <2>2, Zenon
  <2> DEFINE k == CHOOSE i \in Blanks(e) \cup {0} : \A j \in Blanks(e) : j <= i
  <2> HIDE DEF k
  <2>4. k = 0
    BY <2>3 DEF k
  <2>5. OpenBlock(e) = SubSeq(e, 1 + k, Len(e))
    BY DEF OpenBlock, k
  <2>6. SubSeq(e, 1, 0) = << >>
    BY SubSeqEmpty
  <2>7. 1 + k = 1
    BY <2>4
  <2>8. QED
    BY <1>1, <2>5, <2>6, <2>7
<1> HIDE DEF e
<1>4. OpenData(e) = << >>
  BY <1>3, EmptyBlock DEF OpenData, e
<1>5. ~Exceeds(MaxLine, 0) /\ ~Exceeds(MaxFrame, 0)
  BY LimitsAssumption DEF Exceeds
<1>6. ~TooLong(Append(e, e))
  <2>1. ~TooLong(e)
    BY <1>1 DEF TooLong
  <2>2. QED
    BY <1>1, <1>5, <2>1, LongOfMore
<1>7. ~TooLarge(Append(e, e))
  <2>1. SUFFICES ASSUME LargeIn(e, 0) PROVE FALSE
    BY <1>1, LargeOfMore
  <2>2. PICK i \in 0 .. 0 : Exceeds(MaxFrame, Len(OpenData(SubSeq(e, 1, i))))
    BY <2>1, Zenon DEF LargeIn
  <2>3. i = 0
    OBVIOUS
  <2>4. SubSeq(e, 1, 0) = << >>
    BY SubSeqEmpty
  <2>5. Len(OpenData(SubSeq(e, 1, i))) = 0
    BY <1>1, <1>4, <2>3, <2>4 DEF e
  <2>6. QED
    BY <1>5, <2>2, <2>5
<1>8. QED
  BY <1>1, <1>2, <1>3, <1>4, <1>6, <1>7 DEF e

-----------------------------------------------------------------------------
(***************************************************************************)
(* The invariant.  While all is well the parser has read a text d off the  *)
(* bytes before the next one: L are its finished lines, `line` is the one  *)
(* begun, and frame and events are what these lines mean.  What a failed   *)
(* parser has shown is what the stream means, so far.                      *)
(***************************************************************************)

Framed(L) ==
  /\ data = OpenData(L)
  /\ dataSeen <=> HasData(OpenBlock(L))
  /\ eventType = EventType(OpenBlock(L))
  /\ lastId = StreamId(L)
  /\ retry = StreamRetry(L)

Standing(d, L) ==
  /\ LinesOf[d] = Append(L, line)
  /\ ~TooLong(Append(L, line)) /\ ~TooLarge(Append(L, line))
  /\ utf8 = << >> \/ Unfinished(utf8)
  /\ pendingCr <=> utf8 = << >> /\ d # << >> /\ Last(d) = CR
  /\ events = EventsOf[L]
  /\ Framed(L)

Ahead(d) ==
  /\ bomChecked => Reading(fed, d, utf8, input)
  /\ ~bomChecked => d = << >> /\ utf8 = << >> /\ Waiting(fed, bomBuf, input)

Understood == \E d \in Texts, L \in Seq(Texts) : Standing(d, L) /\ Ahead(d)

ShownOnly ==
  /\ IsPrefix(events, StreamEvents(fed))
  /\ lastError = "OVERFLOW_LINE" => TooLong(AllLines(fed))
  /\ lastError = "OVERFLOW_FRAME" => TooLarge(AllLines(fed))

StreamInv ==
  /\ lastError = OK => Understood
  /\ lastError # OK => ShownOnly

(* A new parser stands at the start of a text of no bytes.                 *)
LEMMA InitStream == Init => StreamInv
<1> SUFFICES ASSUME Init PROVE StreamInv
  OBVIOUS
<1> DEFINE e == << >>
<1>1. /\ input = e /\ bomChecked = FALSE /\ bomBuf = e /\ pendingCr = FALSE /\ utf8 = e
      /\ line = e /\ data = e /\ eventType = e /\ lastId = e /\ dataSeen = FALSE
      /\ retry = NoRetry /\ lastError = OK /\ fed = e /\ events = e
  BY DEF Init
<1>2. e \in Texts /\ e \in Seq(Texts) /\ EventsOf[e] = e
  BY NothingYet, Concats, EventsEquation
<1>3. /\ LinesOf[e] = Append(e, e) /\ OpenBlock(e) = e /\ OpenData(e) = e
      /\ ~TooLong(Append(e, e)) /\ ~TooLarge(Append(e, e))
  BY NothingYet
<1>4. EventType(e) = e /\ ~HasData(e) /\ StreamId(e) = e /\ StreamRetry(e) = NoRetry
  BY EmptyBlock
<1>5. \A z \in Texts : e \o z = z
  BY Concats
<1> HIDE DEF e
<1>6. Framed(e)
  BY <1>1, <1>3, <1>4 DEF Framed
<1>7. Waiting(fed, bomBuf, input)
  <2>1. ASSUME NEW z \in Texts PROVE AfterBom(fed \o z) = AfterBom(bomBuf \o (input \o z))
    BY <1>1, <1>5
  <2>2. QED
    BY <2>1 DEF Waiting
<1>8. Standing(e, e)
  BY <1>1, <1>2, <1>3, <1>6, Zenon DEF Standing, e
<1>9. Ahead(e)
  BY <1>1, <1>7, Zenon DEF Ahead, e
<1>10. QED
  BY <1>1, <1>2, <1>8, <1>9, Zenon DEF StreamInv, Understood

(* While all is well, the events so far are the first events of the        *)
(* stream.                                                                 *)
LEMMA StandingShows ==
  ASSUME Inv, NEW d \in Texts, NEW L \in Seq(Texts), Standing(d, L), Ahead(d)
  PROVE  IsPrefix(events, StreamEvents(fed))
<1>1. fed \in Texts /\ utf8 \in Texts /\ input \in Texts /\ line \in Texts /\ bomChecked \in BOOLEAN
  BY DEF Inv, TypeOK, Texts
<1>2. d = << >> \/ \E u, r \in Texts : Reading(fed, d, u, r)
  BY <1>1, Zenon DEF Ahead
<1>3. IsPrefix(EventsOf[Front(LinesOf[d])], StreamEvents(fed))
  BY <1>1, <1>2, Shown
<1>4. Front(LinesOf[d]) = L
  BY <1>1, Fronts DEF Standing
<1>5. QED
  BY <1>3, <1>4 DEF Standing

-----------------------------------------------------------------------------
(***************************************************************************)
(* Every step keeps the invariant.  First what all failing steps and all   *)
(* steps of the decoder have in common.                                    *)
(***************************************************************************)

(* A step that fails and hands over nothing.                               *)
LEMMA Failed ==
  ASSUME Inv, NEW d \in Texts, NEW L \in Seq(Texts), Standing(d, L), Ahead(d),
         UNCHANGED << events, fed >>, lastError' # OK,
         lastError' = "OVERFLOW_LINE" => TooLong(AllLines(fed)),
         lastError' = "OVERFLOW_FRAME" => TooLarge(AllLines(fed))
  PROVE  StreamInv'
<1>1. IsPrefix(events, StreamEvents(fed))
  BY StandingShows
<1>2. ShownOnly'
  BY <1>1 DEF ShownOnly
<1>3. QED
  BY <1>2 DEF StreamInv

(* A step that goes on and leaves frame and events alone.                  *)
LEMMA Moved ==
  ASSUME NEW d \in Texts, NEW L \in Seq(Texts), Framed(L), events = EventsOf[L],
         UNCHANGED << frame, events, fed >>, lastError' = OK, bomChecked' = TRUE,
         Reading(fed, d, utf8', input'),
         LinesOf[d] = Append(L, line'),
         ~TooLong(Append(L, line')), ~TooLarge(Append(L, line')),
         utf8' = << >> \/ Unfinished(utf8'),
         pendingCr' <=> utf8' = << >> /\ d # << >> /\ Last(d) = CR
  PROVE  StreamInv'
<1>1. Framed(L)'
  BY DEF Framed, frame
<1>2. Standing(d, L)'
  BY <1>1, Zenon DEF Standing
<1>3. Ahead(d)'
  BY Zenon DEF Ahead
<1>4. Understood'
  BY <1>2, <1>3, Zenon DEF Understood
<1>5. QED
  BY <1>4, Zenon DEF StreamInv

(* A step that changes nothing.                                            *)
LEMMA NothingHappens ==
  ASSUME StreamInv, UNCHANGED vars
  PROVE  StreamInv'
<1>1. \A d, L : Framed(L) => Framed(L)'
  BY DEF Framed, vars, frame
<1>2. \A d, L : Standing(d, L) => Standing(d, L)'
  BY <1>1 DEF Standing, vars, decoder
<1>3. \A d : Ahead(d) => Ahead(d)'
  BY DEF Ahead, vars, decoder, history
<1>4. Understood => Understood'
  BY <1>2, <1>3, Zenon DEF Understood
<1>5. ShownOnly => ShownOnly'
  BY DEF ShownOnly, vars, history
<1>6. lastError' = lastError
  BY DEF vars
<1>7. QED
  BY <1>4, <1>5, <1>6, Zenon DEF StreamInv

(* sse_feed: the chunk is what lies ahead.                                 *)
LEMMA FeedStream ==
  ASSUME Inv, StreamInv, NEW chunk \in Seq(Byte), Feed(chunk)
  PROVE  StreamInv'
<1>1. CASE FeedIgnored(chunk)
  BY <1>1, NothingHappens DEF FeedIgnored
<1>2. CASE FeedOverTotal(chunk)
  <2>1. lastError = OK /\ lastError' = "OVERFLOW_TOTAL" /\ events' = events /\ fed' = fed
    BY <1>2 DEF FeedOverTotal, Fail, history
  <2>2. PICK d \in Texts, L \in Seq(Texts) : Standing(d, L) /\ Ahead(d)
    BY <2>1 DEF StreamInv, Understood
  <2>3. lastError' # OK /\ lastError' # "OVERFLOW_LINE" /\ lastError' # "OVERFLOW_FRAME"
    BY <2>1 DEF OK
  <2>4. QED
    BY <2>1, <2>2, <2>3, Failed
<1>3. CASE FeedAccepted(chunk)
  <2>1. /\ input = << >> /\ lastError = OK /\ input' = chunk /\ fed' = fed \o chunk
        /\ bomChecked' = bomChecked /\ bomBuf' = bomBuf /\ pendingCr' = pendingCr /\ utf8' = utf8
        /\ line' = line /\ events' = events /\ lastError' = lastError
        /\ data' = data /\ dataSeen' = dataSeen /\ eventType' = eventType /\ lastId' = lastId
        /\ retry' = retry
    BY <1>3 DEF FeedAccepted, decoder, frame
  <2>2. PICK d \in Texts, L \in Seq(Texts) : Standing(d, L) /\ Ahead(d)
    BY <2>1 DEF StreamInv, Understood
  <2>3. /\ fed \in Texts /\ chunk \in Texts /\ utf8 \in Texts /\ bomBuf \in Texts
    <3>1. bomBuf \in BomPrefixes \cup {<< >>}
      BY DEF Inv, TypeOK
    <3>2. bomBuf \in Texts
      BY <3>1, BomUndecided
    <3>3. fed \in Texts /\ chunk \in Texts /\ utf8 \in Texts
      BY DEF Inv, TypeOK, Texts
    <3>4. QED
      BY <3>2, <3>3
  <2>4. Framed(L)'
    BY <2>1, <2>2 DEF Standing, Framed
  <2>5. Standing(d, L)'
    BY <2>1, <2>2, <2>4 DEF Standing
  <2>6. /\ Reading(fed, d, utf8, << >>) => Reading(fed \o chunk, d, utf8, chunk)
        /\ Waiting(fed, bomBuf, << >>) => Waiting(fed \o chunk, bomBuf, chunk)
    BY <2>3, FeedOn
  <2>7. Ahead(d)'
    BY <2>1, <2>2, <2>6 DEF Ahead
  <2>8. Understood'
    BY <2>5, <2>7, Zenon DEF Understood
  <2>9. QED
    BY <2>1, <2>8 DEF StreamInv
<1>4. QED
  BY <1>1, <1>2, <1>3 DEF Feed

(* The first bytes of the stream.                                          *)
LEMMA BomStream ==
  ASSUME Inv, input # << >>, lastError = OK,
         NEW d \in Texts, NEW L \in Seq(Texts), Standing(d, L), Ahead(d),
         HoldBom \/ DropBom \/ ReplayBom
  PROVE  StreamInv'
<1>1. /\ ~bomChecked /\ bomBuf \in BomPrefixes \cup {<< >>} /\ input \in Texts
      /\ bomBuf \in Texts /\ Head(input) \in Byte /\ Tail(input) \in Texts
  <2>1. ~bomChecked
    BY DEF HoldBom, DropBom, ReplayBom
  <2>2. bomBuf \in BomPrefixes \cup {<< >>} /\ input \in Texts
    BY DEF Inv, TypeOK, Texts
  <2>3. bomBuf \in Texts
    BY <2>2, BomUndecided
  <2>4. Head(input) \in Byte /\ Tail(input) \in Texts
    BY <2>2, Bytes DEF Texts
  <2>5. QED
    BY <2>1, <2>2, <2>3, <2>4
<1>2. d = << >> /\ utf8 = << >> /\ Waiting(fed, bomBuf, input)
  BY <1>1 DEF Ahead
<1>3. /\ utf8' = utf8 /\ pendingCr' = pendingCr /\ line' = line /\ fed' = fed /\ events' = events
      /\ lastError' = OK /\ UNCHANGED << frame, events, fed >>
  BY DEF HoldBom, DropBom, ReplayBom, Proceed, history
<1>4. /\ Append(bomBuf, Head(input)) \in BomPrefixes =>
           Waiting(fed, Append(bomBuf, Head(input)), Tail(input))
      /\ Append(bomBuf, Head(input)) = BOM => Reading(fed, << >>, << >>, Tail(input))
      /\ Append(bomBuf, Head(input)) \notin BomPrefixes \cup {BOM} =>
           Reading(fed, << >>, << >>, bomBuf \o input)
  BY <1>1, <1>2, FirstBytes
<1>5. CASE HoldBom
  <2>1. /\ bomChecked' = bomChecked /\ bomBuf' = Append(bomBuf, Head(input))
        /\ input' = Tail(input) /\ Append(bomBuf, Head(input)) \in BomPrefixes
    BY <1>5 DEF HoldBom, Proceed
  <2>2. Framed(L)'
    BY <1>3 DEF Standing, Framed, frame
  <2>3. Standing(d, L)'
    BY <1>3, <2>2 DEF Standing
  <2>4. Ahead(d)'
    BY <1>1, <1>2, <1>3, <1>4, <2>1 DEF Ahead
  <2>5. Understood'
    BY <2>3, <2>4, Zenon DEF Understood
  <2>6. QED
    BY <1>3, <2>5, Zenon DEF StreamInv
<1>6. CASE DropBom \/ ReplayBom
  <2>1. bomChecked' = TRUE /\ Reading(fed, << >>, << >>, input')
    BY <1>4, <1>6 DEF DropBom, ReplayBom, Proceed
  <2>2. Reading(fed, d, utf8', input')
    BY <1>2, <1>3, <2>1
  <2>3. /\ Framed(L) /\ events = EventsOf[L] /\ LinesOf[d] = Append(L, line')
        /\ ~TooLong(Append(L, line')) /\ ~TooLarge(Append(L, line'))
        /\ utf8' = << >> \/ Unfinished(utf8')
        /\ pendingCr' <=> utf8' = << >> /\ d # << >> /\ Last(d) = CR
    BY <1>3 DEF Standing
  <2>4. QED
    BY <1>3, <2>1, <2>2, <2>3, Moved
<1>7. QED
  BY <1>5, <1>6

(* The byte went into a sequence that is still unfinished.                 *)
LEMMA SequenceStream ==
  ASSUME Inv, lastError = OK, bomChecked,
         NEW d \in Texts, NEW L \in Seq(Texts), Standing(d, L), Ahead(d),
         NEW w, Unfinished(w), NEW s \in Texts, Yields(utf8, input, << >>, w, s),
         Proceed(s), utf8' = w, pendingCr' = FALSE,
         UNCHANGED << bomChecked, line, frame, events, fed >>
  PROVE  StreamInv'
<1>1. utf8 \in Texts /\ input \in Texts /\ << >> \in Texts /\ w \in Texts /\ w # << >>
  BY Concats, UnfinishedGroup DEF Inv, TypeOK, Texts
<1>2. Reading(fed, d, utf8, input)
  BY DEF Ahead
<1>3. Reading(fed, d \o << >>, w, s)
  BY <1>1, <1>2, ReadOn
<1>4. d \o << >> = d
  BY Concats
<1>5. lastError' = OK /\ bomChecked' = TRUE /\ input' = s /\ line' = line
  <2>1. bomChecked \in BOOLEAN
    BY DEF Inv, TypeOK
  <2>2. QED
    BY <2>1 DEF Proceed
<1>6. Reading(fed, d, utf8', input')
  BY <1>3, <1>4, <1>5
<1>7. /\ Framed(L) /\ events = EventsOf[L] /\ LinesOf[d] = Append(L, line')
      /\ ~TooLong(Append(L, line')) /\ ~TooLarge(Append(L, line'))
  BY <1>5 DEF Standing
<1>8. pendingCr' <=> utf8' = << >> /\ d # << >> /\ Last(d) = CR
  BY <1>1
<1>9. QED
  BY <1>5, <1>6, <1>7, <1>8, Moved

(* sse_line_append: bytes that end no line are added to it, unless the     *)
(* line becomes too long, as the stream's line then is.                    *)
LEMMA AppendStream ==
  ASSUME Inv, lastError = OK, bomChecked,
         NEW d \in Texts, NEW L \in Seq(Texts), Standing(d, L), Ahead(d),
         NEW bytes \in Texts, bytes # << >>, \A i \in 1 .. Len(bytes) : bytes[i] \notin {LF, CR},
         NEW s \in Texts, Yields(utf8, input, bytes, << >>, s),
         AppendToLine(bytes, s), utf8' = << >>, pendingCr' = FALSE,
         UNCHANGED << bomChecked, frame, events, fed >>
  PROVE  StreamInv'
<1>1. PICK l \in Texts : l = line
  BY DEF Inv, TypeOK, Texts
<1> DEFINE d1 == d \o bytes
           l1 == l \o bytes
<1>2. fed \in Texts /\ utf8 \in Texts /\ input \in Texts /\ bomChecked = TRUE
  BY DEF Inv, TypeOK, Texts
<1>3. d1 \in Texts /\ l1 \in Texts /\ << >> \in Texts
  BY Concats
<1>4. LinesOf[d1] = Append(L, l1)
  <2>1. LinesOf[d] = Append(L, l)
    BY <1>1 DEF Standing
  <2>2. QED
    BY <2>1, LinesOfPlain, ZenonT(60) DEF Texts
<1>5. Reading(fed, d1, << >>, s)
  <2>1. Reading(fed, d, utf8, input)
    BY DEF Ahead
  <2>2. QED
    BY <1>2, <1>3, <2>1, ReadOn
<1>6. Len(l1) = Len(line) + Len(bytes) /\ Len(line) + Len(bytes) \in Nat
  BY <1>1, ConcatParts, LenProperties DEF Texts
<1>7. d1 # << >> /\ Last(d1) # CR
  <2> DEFINE m == Len(d)
             n == Len(bytes)
  <2>1. m \in Nat /\ n \in Nat /\ n >= 1
    BY LenProperties, EmptySeq DEF Texts
  <2>2. Len(d1) = m + n /\ \A i \in 1 .. m + n : d1[i] = IF i <= m THEN d[i] ELSE bytes[i - m]
    BY ConcatParts DEF Texts
  <2> HIDE DEF m, d1
  <2>3. n \in 1 .. Len(bytes)
    BY <2>1
  <2> HIDE DEF n
  <2>4. m + n \in 1 .. m + n /\ ~(m + n <= m) /\ (m + n) - m = n
    BY <2>1
  <2>5. d1[m + n] = bytes[n]
    BY <2>2, <2>4
  <2>6. Last(d1) # CR
    BY <2>2, <2>3, <2>5 DEF Last
  <2>7. Len(d1) # 0
    BY <2>1, <2>2
  <2>8. QED
    BY <2>6, <2>7
<1>8. /\ TooLong(Append(L, l1)) <=> Exceeds(MaxLine, Len(l1))
      /\ ~TooLarge(Append(L, l1))
  <2>1. ~TooLong(Append(L, l)) /\ ~TooLarge(Append(L, l))
    BY <1>1 DEF Standing
  <2>2. QED
    BY <1>3, <2>1, LimitsOfMore
<1> HIDE DEF d1, l1
<1>9. Over(MaxLine, Len(line) + Len(bytes)) <=> Exceeds(MaxLine, Len(l1))
  BY <1>6 DEF Over, Exceeds
<1>10. CASE Over(MaxLine, Len(line) + Len(bytes)) /\ Fail("OVERFLOW_LINE")
  <2>1. TooLong(LinesOf[d1])
    BY <1>4, <1>8, <1>9, <1>10
  <2>2. \E u, r \in Texts : Reading(fed, d1, u, r)
    BY <1>3, <1>5
  <2>3. TooLong(AllLines(fed))
    BY <1>2, <1>3, <2>1, <2>2, Shown
  <2>4. lastError' = "OVERFLOW_LINE"
    BY <1>10 DEF Fail
  <2>5. lastError' # OK /\ lastError' # "OVERFLOW_FRAME"
    BY <2>4 DEF OK
  <2>6. QED
    BY <2>3, <2>5, Failed
<1>11. CASE Fail("OVERFLOW_BUFFER") \/ Fail("NOMEM")
  <2>1. lastError' \in {"OVERFLOW_BUFFER", "NOMEM"}
    BY <1>11 DEF Fail
  <2>2. lastError' # OK /\ lastError' # "OVERFLOW_LINE" /\ lastError' # "OVERFLOW_FRAME"
    BY <2>1 DEF OK
  <2>3. QED
    BY <2>2, Failed
<1>12. CASE /\ ~Over(MaxLine, Len(line) + Len(bytes))
            /\ line' = line \o bytes
            /\ Proceed(s)
  <2>1. line' = l1 /\ input' = s /\ lastError' = OK /\ bomChecked' = TRUE
    BY <1>1, <1>2, <1>12 DEF Proceed, l1
  <2>2. Reading(fed, d1, utf8', input')
    BY <1>5, <2>1
  <2>3. LinesOf[d1] = Append(L, line') /\ ~TooLong(Append(L, line')) /\ ~TooLarge(Append(L, line'))
    BY <1>4, <1>8, <1>9, <1>12, <2>1
  <2>4. pendingCr' <=> utf8' = << >> /\ d1 # << >> /\ Last(d1) = CR
    BY <1>7
  <2>5. Framed(L) /\ events = EventsOf[L]
    BY DEF Standing
  <2>6. utf8' = << >> \/ Unfinished(utf8')
    OBVIOUS
  <2>7. QED
    BY <1>3, <2>1, <2>2, <2>3, <2>4, <2>5, <2>6, Moved
<1>13. QED
  BY <1>10, <1>11, <1>12 DEF AppendToLine

(* U+FFFD ends no line.                                                    *)
LEMMA ReplacementPlain ==
  /\ Replacement \in Texts /\ Replacement # << >>
  /\ \A i \in 1 .. Len(Replacement) : Replacement[i] \notin {LF, CR}
<1>1. /\ Replacement \in Seq(Byte) /\ Len(Replacement) = 3
      /\ Replacement[1] = 239 /\ Replacement[2] = 191 /\ Replacement[3] = 189
  BY DEF Replacement, Byte
<1>2. LF = 10 /\ CR = 13
  BY DEF LF, CR
<1>3. \A i \in 1 .. 3 : i = 1 \/ i = 2 \/ i = 3
  OBVIOUS
<1>4. Replacement # << >>
  <2>1. Len(<< >>) = 0
    OBVIOUS
  <2>2. Len(Replacement) # 0
    BY <1>1
  <2>3. QED
    BY <2>1, <2>2, Zenon
<1>5. \A i \in 1 .. Len(Replacement) : Replacement[i] \notin {LF, CR}
  BY <1>1, <1>2, <1>3
<1>6. QED
  BY <1>1, <1>4, <1>5 DEF Texts

(* The LF of a CR LF pair adds nothing to the lines.                       *)
LEMMA SkipStream ==
  ASSUME Inv, input # << >>, lastError = OK,
         NEW d \in Texts, NEW L \in Seq(Texts), Standing(d, L), Ahead(d), SkipLf
  PROVE  StreamInv'
<1>1. /\ fed \in Texts /\ input \in Texts /\ bomChecked = TRUE /\ pendingCr = TRUE
      /\ Head(input) = LF
  BY DEF Inv, TypeOK, Texts, SkipLf, IsSecondHalf
<1>2. utf8 = << >> /\ d # << >> /\ Last(d) = CR
  BY <1>1 DEF Standing
<1>3. PICK s, l \in Texts : s = Tail(input) /\ l = line
  BY Bytes DEF Inv, TypeOK, Texts
<1> DEFINE x == << LF >>
           d1 == d \o x
<1>4. LF = 10 /\ LF \in Byte /\ LF # CR
  BY DEF LF, CR, Byte
<1>5. Yields(<< >>, input, x, << >>, s)
  <2>1. LF < 128
    BY <1>4
  <2>2. QED
    BY <1>1, <1>3, <2>1, Alone DEF Texts
<1>6. x \in Texts /\ << >> \in Texts /\ d1 = Append(d, LF) /\ d1 \in Texts
  <2>1. x \in Seq(Byte)
    BY <1>4
  <2>2. d1 = Append(d, LF)
    BY <1>4, AppendIsConcat DEF Texts
  <2>3. QED
    BY <2>1, <2>2, Concats DEF Texts
<1> HIDE DEF x, d1
<1>7. Reading(fed, d1, << >>, s)
  <2>1. Reading(fed, d, << >>, input)
    BY <1>1, <1>2 DEF Ahead
  <2>2. QED
    BY <1>1, <1>5, <1>6, <2>1, ReadOn DEF d1
<1>8. LinesOf[d1] = Append(L, l) /\ d1 # << >> /\ Last(d1) = LF
  <2>1. LinesOf[d] = Append(L, l)
    BY <1>3 DEF Standing
  <2>2. LinesOf[Append(d, LF)] = Append(L, l)
    <3>1. d \in Seq(Byte)
      BY DEF Texts
    <3>2. LinesOf[Append(d, LF)] =
            IF LF = LF /\ d # << >> /\ Last(d) = CR THEN Append(L, l)
            ELSE IF LF \in {LF, CR} THEN Append(Append(L, l), << >>)
            ELSE Append(L, Append(l, LF))
      BY <1>4, <2>1, <3>1, LinesOfByte
    <3>3. QED
      BY <1>2, <3>2
  <2>3. QED
    BY <1>4, <1>6, <2>2, Fronts, ZenonT(60) DEF Texts
<1>9. /\ bomChecked' = TRUE /\ utf8' = << >> /\ input' = s /\ lastError' = OK /\ line' = l
      /\ pendingCr' = FALSE /\ UNCHANGED << frame, events, fed >>
  BY <1>1, <1>2, <1>3 DEF SkipLf, Proceed, history
<1>10. Reading(fed, d1, utf8', input')
  BY <1>7, <1>9
<1>11. /\ Framed(L) /\ events = EventsOf[L] /\ LinesOf[d1] = Append(L, line')
       /\ ~TooLong(Append(L, line')) /\ ~TooLarge(Append(L, line'))
  BY <1>3, <1>8, <1>9 DEF Standing
<1>12. pendingCr' <=> utf8' = << >> /\ d1 # << >> /\ Last(d1) = CR
  BY <1>4, <1>8, <1>9
<1>13. utf8' = << >> \/ Unfinished(utf8')
  BY <1>9
<1>14. QED
  BY <1>6, <1>9, <1>10, <1>11, <1>12, <1>13, Moved

(* The bytes of lines, alone or in sequences.                              *)
LEMMA BreakStream ==
  ASSUME Inv, input # << >>, lastError = OK,
         NEW d \in Texts, NEW L \in Seq(Texts), Standing(d, L), Ahead(d), BreakSequence
  PROVE  StreamInv'
<1>1. PICK s \in Texts : s = input
  BY DEF Inv, TypeOK, Texts
<1>2. /\ bomChecked /\ utf8 # << >> /\ ~IsContinuation(Head(input)) /\ utf8' = << >>
      /\ pendingCr' = FALSE /\ AppendToLine(Replacement, input)
      /\ UNCHANGED << bomChecked, frame, events, fed >>
  BY DEF BreakSequence, history
<1>3. AppendToLine(Replacement, s)
  BY <1>1, <1>2 DEF AppendToLine, Proceed
<1>4. Yields(utf8, input, Replacement, << >>, s)
  <2>1. Unfinished(utf8)
    BY <1>2 DEF Standing
  <2>2. input \in Seq(Byte)
    BY DEF Inv, TypeOK
  <2>3. Yields(utf8, input, Replacement, << >>, input)
    BY <1>2, <2>1, <2>2, Broken
  <2>4. QED
    BY <1>1, <2>3
<1>5. QED
  BY <1>2, <1>3, <1>4, ReplacementPlain, AppendStream

(* A byte that continues a sequence.                                       *)
LEMMA ContinueStream ==
  ASSUME Inv, input # << >>, lastError = OK,
         NEW d \in Texts, NEW L \in Seq(Texts), Standing(d, L), Ahead(d), ContinueSequence
  PROVE  StreamInv'
<1>1. input \in Seq(Byte) /\ utf8 \in Seq(Byte)
  BY DEF Inv, TypeOK
<1>2. PICK s \in Texts, seq \in Texts : s = Tail(input) /\ seq = Append(utf8, Head(input))
  BY <1>1, Bytes, AppendProperties DEF Texts
<1>3. /\ bomChecked /\ utf8 # << >> /\ IsContinuation(Head(input)) /\ pendingCr' = FALSE
      /\ UNCHANGED << bomChecked, frame, events, fed >>
  BY DEF ContinueSequence, history
<1>4. \/ /\ Len(seq) < SequenceLength(seq[1])
         /\ utf8' = seq
         /\ Proceed(s)
         /\ line' = line
      \/ /\ Len(seq) = SequenceLength(seq[1])
         /\ utf8' = << >>
         /\ AppendToLine(IF Utf8SequenceValid(seq) THEN seq ELSE Replacement, s)
  BY <1>2 DEF ContinueSequence, AppendToLine, Proceed
<1>5. Unfinished(utf8)
  BY <1>3 DEF Standing
<1>6. /\ Len(seq) < SequenceLength(seq[1]) =>
           Yields(utf8, input, << >>, seq, s) /\ Unfinished(seq)
      /\ Len(seq) = SequenceLength(seq[1]) =>
           /\ Yields(utf8, input, IF Utf8SequenceValid(seq) THEN seq ELSE Replacement, << >>, s)
           /\ seq \in Seq(Byte) /\ seq # << >>
           /\ \A i \in 1 .. Len(seq) : seq[i] >= 128
  BY <1>1, <1>2, <1>3, <1>5, Continued
<1>7. CASE Len(seq) < SequenceLength(seq[1]) /\ utf8' = seq /\ Proceed(s) /\ line' = line
  BY <1>3, <1>6, <1>7, SequenceStream
<1>8. CASE /\ Len(seq) = SequenceLength(seq[1])
           /\ utf8' = << >>
           /\ AppendToLine(IF Utf8SequenceValid(seq) THEN seq ELSE Replacement, s)
  <2>1. PICK bytes : bytes = (IF Utf8SequenceValid(seq) THEN seq ELSE Replacement)
    OBVIOUS
  <2>2. Yields(utf8, input, bytes, << >>, s) /\ AppendToLine(bytes, s)
    BY <1>6, <1>8, <2>1
  <2>3. bytes \in Texts /\ bytes # << >> /\ \A i \in 1 .. Len(bytes) : bytes[i] \notin {LF, CR}
    <3>1. CASE Utf8SequenceValid(seq)
      <4>1. seq \in Seq(Byte) /\ seq # << >> /\ \A i \in 1 .. Len(seq) : seq[i] >= 128
        BY <1>6, <1>8
      <4>2. LF = 10 /\ CR = 13
        BY DEF LF, CR
      <4>3. \A i \in 1 .. Len(seq) : seq[i] \in Byte
        BY <4>1, ElementOfSeq
      <4>4. \A n \in Byte : n >= 128 => n # 10 /\ n # 13
        BY DEF Byte
      <4>5. \A i \in 1 .. Len(seq) : seq[i] \notin {LF, CR}
        BY <4>1, <4>2, <4>3, <4>4
      <4>6. QED
        BY <2>1, <3>1, <4>1, <4>5 DEF Texts
    <3>2. CASE ~Utf8SequenceValid(seq)
      BY <2>1, <3>2, ReplacementPlain
    <3>3. QED
      BY <3>1, <3>2
  <2>4. QED
    BY <1>3, <1>8, <2>2, <2>3, AppendStream
<1>9. QED
  BY <1>4, <1>7, <1>8

(* A byte that stands alone or begins a sequence.                          *)
LEMMA StartStream ==
  ASSUME Inv, input # << >>, lastError = OK,
         NEW d \in Texts, NEW L \in Seq(Texts), Standing(d, L), Ahead(d), StartByte
  PROVE  StreamInv'
<1>1. input \in Seq(Byte) /\ utf8 = << >>
  BY DEF Inv, TypeOK, StartByte
<1>2. PICK s \in Texts, b \in Byte : s = Tail(input) /\ b = Head(input)
  BY <1>1, Bytes DEF Texts
<1>3. /\ bomChecked /\ b \notin {LF, CR} /\ pendingCr' = FALSE
      /\ UNCHANGED << bomChecked, frame, events, fed >>
  BY <1>2 DEF StartByte, history
<1>4. \/ b < 128 /\ AppendToLine(<< b >>, s) /\ utf8' = << >>
      \/ SequenceLength(b) > 0 /\ utf8' = << b >> /\ Proceed(s) /\ line' = line
      \/ b >= 128 /\ SequenceLength(b) = 0 /\ AppendToLine(Replacement, s) /\ utf8' = << >>
  BY <1>1, <1>2 DEF StartByte
<1>5. /\ b < 128 => Yields(utf8, input, << b >>, << >>, s)
      /\ b >= 128 /\ SequenceLength(b) = 0 => Yields(utf8, input, Replacement, << >>, s)
      /\ SequenceLength(b) > 0 => Yields(utf8, input, << >>, << b >>, s) /\ Unfinished(<< b >>)
  BY <1>1, <1>2, Alone
<1>6. CASE b < 128 /\ AppendToLine(<< b >>, s) /\ utf8' = << >>
  <2> DEFINE bytes == << b >>
  <2>1. /\ bytes \in Texts /\ bytes # << >>
        /\ \A i \in 1 .. Len(bytes) : bytes[i] \notin {LF, CR}
    BY <1>3 DEF Texts
  <2>2. Yields(utf8, input, bytes, << >>, s) /\ AppendToLine(bytes, s)
    BY <1>5, <1>6
  <2> HIDE DEF bytes
  <2>3. QED
    BY <1>3, <1>6, <2>1, <2>2, AppendStream
<1>7. CASE SequenceLength(b) > 0 /\ utf8' = << b >> /\ Proceed(s) /\ line' = line
  <2> DEFINE w == << b >>
  <2>1. Yields(utf8, input, << >>, w, s) /\ Unfinished(w) /\ utf8' = w
    BY <1>5, <1>7
  <2> HIDE DEF w
  <2>2. QED
    BY <1>3, <1>7, <2>1, SequenceStream
<1>8. CASE b >= 128 /\ SequenceLength(b) = 0 /\ AppendToLine(Replacement, s) /\ utf8' = << >>
  <2>1. Yields(utf8, input, Replacement, << >>, s)
    BY <1>5, <1>8
  <2>2. QED
    BY <1>3, <1>8, <2>1, ReplacementPlain, AppendStream
<1>9. QED
  BY <1>4, <1>6, <1>7, <1>8

-----------------------------------------------------------------------------
(* The text t is read: it ends its lines with the byte b, s is ahead.      *)
EndedBy(t, b, lines, s) ==
  /\ t # << >> /\ Last(t) = b
  /\ LinesOf[t] = Append(lines, << >>)
  /\ Reading(fed, t, << >>, s)

(* A CR or LF that ends the line l: it is one more line of the text.       *)
LEMMA LineRead ==
  ASSUME Inv, input # << >>, EndsLine(Head(input)),
         NEW d \in Texts, NEW L \in Seq(Texts), Standing(d, L), Ahead(d),
         NEW l \in Texts, l = line, NEW b, b = Head(input), NEW s, s = Tail(input)
  PROVE  /\ s \in Texts
         /\ \E t \in Texts : EndedBy(t, b, Append(L, l), s)
         /\ ~TooLong(Append(Append(L, l), << >>))
         /\ TooLarge(Append(Append(L, l), << >>)) <=>
              Exceeds(MaxFrame, Len(OpenData(Append(L, l))))
         /\ IsPrefix(EventsOf[Append(L, l)], StreamEvents(fed))
         /\ TooLarge(Append(Append(L, l), << >>)) => TooLarge(AllLines(fed))
<1>1. /\ fed \in Texts /\ input \in Seq(Byte) /\ bomChecked = TRUE /\ utf8 = << >>
      /\ b \in {LF, CR} /\ ~(pendingCr /\ b = LF)
  BY DEF Inv, TypeOK, Texts, EndsLine, IsSecondHalf
<1>2. b \in Byte /\ b < 128 /\ s \in Texts
  BY <1>1, Bytes DEF LF, CR, Texts
<1> DEFINE x == << b >>
           t == d \o x
           A == Append(L, l)
<1>3. Yields(<< >>, input, x, << >>, s)
  BY <1>1, <1>2, Alone
<1>4. x \in Texts /\ << >> \in Texts /\ t = Append(d, b) /\ t \in Texts
  <2>1. x \in Seq(Byte)
    BY <1>2
  <2>2. t = Append(d, b)
    BY <1>2, AppendIsConcat DEF Texts
  <2>3. QED
    BY <2>1, <2>2, Concats DEF Texts
<1>5. A \in Seq(Texts)
  BY OneMore
<1> HIDE DEF x, t, A
<1>6. Reading(fed, t, << >>, s)
  <2>1. Reading(fed, d, << >>, input)
    BY <1>1 DEF Ahead
  <2>2. input \in Texts
    BY <1>1 DEF Texts
  <2>3. QED
    BY <1>2, <1>3, <1>4, <2>1, <2>2, ReadOn DEF t
<1>7. LinesOf[t] = Append(A, << >>) /\ t # << >> /\ Last(t) = b
  <2>1. LinesOf[d] = Append(L, l) /\ ~(b = LF /\ d # << >> /\ Last(d) = CR)
    BY <1>1 DEF Standing
  <2>2. d \in Seq(Byte)
    BY DEF Texts
  <2>3. LinesOf[Append(d, b)] =
          IF b = LF /\ d # << >> /\ Last(d) = CR THEN Append(L, l)
          ELSE IF b \in {LF, CR} THEN Append(Append(L, l), << >>)
          ELSE Append(L, Append(l, b))
    BY <1>2, <2>1, <2>2, LinesOfByte, SMTT(60)
  <2>4. Append(d, b) # << >> /\ Last(Append(d, b)) = b
    BY <1>2, <2>2, Fronts
  <2>5. QED
    BY <1>1, <1>4, <2>1, <2>3, <2>4 DEF A
<1>8. /\ TooLong(Append(A, << >>)) <=> Exceeds(MaxLine, Len(<< >>))
      /\ TooLarge(Append(A, << >>)) <=> Exceeds(MaxFrame, Len(OpenData(A)))
  <2>1. ~TooLong(Append(L, l)) /\ ~TooLarge(Append(L, l))
    BY DEF Standing
  <2>2. QED
    BY <1>4, <2>1, LimitsOfMore DEF A
<1>9. ~Exceeds(MaxLine, Len(<< >>))
  <2>1. Len(<< >>) = 0
    OBVIOUS
  <2>2. QED
    BY <2>1, LimitsAssumption DEF Exceeds
<1>10. /\ IsPrefix(EventsOf[Front(LinesOf[t])], StreamEvents(fed))
       /\ TooLarge(LinesOf[t]) => TooLarge(AllLines(fed))
  <2>1. \E u, r \in Texts : Reading(fed, t, u, r)
    BY <1>2, <1>4, <1>6
  <2>2. QED
    BY <1>1, <1>4, <2>1, Shown
<1>11. Front(Append(A, << >>)) = A
  BY <1>4, <1>5, Fronts
<1>12. \E w \in Texts : EndedBy(w, b, A, s)
  BY <1>4, <1>6, <1>7 DEF EndedBy
<1>13. QED
  BY <1>2, <1>7, <1>8, <1>9, <1>10, <1>11, <1>12 DEF A

(* A line that is done with: its frame is that of the lines with it.       *)
LEMMA DoneStream ==
  ASSUME Inv, Inv', input # << >>, lastError = OK, EndsLine(Head(input)),
         NEW d \in Texts, NEW L \in Seq(Texts), Standing(d, L), Ahead(d),
         NEW l \in Texts, l = line,
         LineDone, UNCHANGED << bomChecked, utf8, fed >>,
         events' = EventsOf[Append(L, l)], Framed(Append(L, l))'
  PROVE  StreamInv'
<1>1. PICK b, s : b = Head(input) /\ s = Tail(input)
  OBVIOUS
<1> DEFINE A == Append(L, l)
<1>2. /\ s \in Texts
      /\ \E t \in Texts : EndedBy(t, b, A, s)
      /\ ~TooLong(Append(A, << >>))
      /\ TooLarge(Append(A, << >>)) <=> Exceeds(MaxFrame, Len(OpenData(A)))
  BY <1>1, LineRead
<1>3. A \in Seq(Texts)
  BY OneMore
<1> HIDE DEF A
<1>4. PICK t \in Texts : /\ t # << >> /\ Last(t) = b
                         /\ LinesOf[t] = Append(A, << >>)
                         /\ Reading(fed, t, << >>, s)
  BY <1>2 DEF EndedBy
<1>5. ~TooLarge(Append(A, << >>))
  <2>1. data' = OpenData(A)
    BY DEF Framed, A
  <2>2. data' \in Seq(Byte) /\ (MaxFrame > 0 => Len(data') <= MaxFrame)
    BY DEF Inv, TypeOK, WithinLimits
  <2>3. Len(data') \in Nat
    BY <2>2, LenProperties
  <2> DEFINE n == Len(data')
  <2> HIDE DEF n
  <2>4. ~Exceeds(MaxFrame, n)
    BY <2>2, <2>3, LimitsAssumption DEF n, Exceeds
  <2>5. QED
    BY <1>2, <2>1, <2>4 DEF n
<1>6. /\ bomChecked' = TRUE /\ utf8' = << >> /\ input' = s /\ lastError' = OK /\ line' = << >>
      /\ pendingCr' <=> b = CR
  <2>1. bomChecked = TRUE /\ utf8 = << >>
    BY DEF EndsLine, Inv, TypeOK
  <2>2. pendingCr' <=> b = CR
    BY <1>1, Zenon DEF LineDone
  <2>3. QED
    BY <1>1, <2>1, <2>2 DEF LineDone, Proceed
<1>7. Reading(fed', t, utf8', input')
  BY <1>4, <1>6
<1>8. Ahead(t)'
  BY <1>6, <1>7, Zenon DEF Ahead
<1>9. LinesOf[t] = Append(A, line')
  BY <1>4, <1>6
<1>10. ~TooLong(Append(A, line')) /\ ~TooLarge(Append(A, line'))
  BY <1>2, <1>5, <1>6
<1>11. pendingCr' <=> utf8' = << >> /\ t # << >> /\ Last(t) = CR
  BY <1>4, <1>6, Zenon
<1>12. Standing(t, A)'
  BY <1>6, <1>9, <1>10, <1>11, Zenon DEF Standing, A
<1>13. Understood'
  BY <1>3, <1>8, <1>12, Zenon DEF Understood
<1>14. QED
  BY <1>6, <1>13, Zenon DEF StreamInv

(* A line that fails.                                                      *)
LEMMA LineFailsStream ==
  ASSUME Inv, input # << >>, lastError = OK, EndsLine(Head(input)),
         NEW d \in Texts, NEW L \in Seq(Texts), Standing(d, L), Ahead(d),
         NEW l \in Texts, l = line,
         NEW e \in Errors, LineFails(e), fed' = fed, e # "OVERFLOW_LINE",
         e = "OVERFLOW_FRAME" => Exceeds(MaxFrame, Len(OpenData(Append(L, l)))),
         events' = events \/ events' = EventsOf[Append(L, l)]
  PROVE  StreamInv'
<1>1. PICK b, s : b = Head(input) /\ s = Tail(input)
  OBVIOUS
<1>2. /\ TooLarge(Append(Append(L, l), << >>)) <=>
           Exceeds(MaxFrame, Len(OpenData(Append(L, l))))
      /\ IsPrefix(EventsOf[Append(L, l)], StreamEvents(fed))
      /\ TooLarge(Append(Append(L, l), << >>)) => TooLarge(AllLines(fed))
  BY <1>1, LineRead
<1>3. IsPrefix(events, StreamEvents(fed))
  BY StandingShows
<1>4. lastError' = e
  BY DEF LineFails, Fail
<1>5. e # OK
  BY DEF Errors, OK
<1>6. IsPrefix(events', StreamEvents(fed))
  BY <1>2, <1>3
<1>7. e = "OVERFLOW_FRAME" => TooLarge(AllLines(fed))
  BY <1>2
<1>8. ShownOnly'
  BY <1>4, <1>6, <1>7 DEF ShownOnly
<1>9. QED
  BY <1>4, <1>5, <1>8 DEF StreamInv

(* What a line with the field name n and the value v adds to the lines L.  *)
Adds(L, n, v, A) ==
  /\ v \in Texts
  /\ EventsOf[A] = EventsOf[L]
  /\ OpenData(A) = IF n = DataName THEN OpenData(L) \o v \o << LF >> ELSE OpenData(L)
  /\ HasData(OpenBlock(A)) <=> HasData(OpenBlock(L)) \/ n = DataName
  /\ EventType(OpenBlock(A)) = IF n = EventName THEN v ELSE EventType(OpenBlock(L))
  /\ StreamId(A) = IF n = IdName /\ NoNul(v) THEN v ELSE StreamId(L)
  /\ StreamRetry(A) =
       IF n = RetryName /\ RetryValid(v) THEN Decimal(v) ELSE StreamRetry(L)

(* sse_process_line computes it.                                           *)
LEMMA FieldLine ==
  ASSUME NEW L \in Seq(Texts), NEW l \in Texts, l # << >>,
         NEW A, A = Append(L, l), NEW n, n = FieldName(l), NEW v, v = FieldValue(l)
  PROVE  Adds(L, n, v, A)
<1>1. l \in Seq(Byte)
  BY DEF Texts
<1>2. v \in Texts /\ v \in Seq(Byte)
  BY <1>1, FieldValueType DEF Texts
<1>3. \A name \in Fields : /\ n = name <=> HasField(l, name)
                           /\ HasField(l, name) => v = ValueOf(l, name)
  BY <1>1, FieldFound
<1>4. /\ DataName \in Fields /\ EventName \in Fields /\ IdName \in Fields
      /\ RetryName \in Fields
  BY DEF Fields
<1>5. OpenBlock(L) \in Seq(Texts) /\ OpenBlock(A) = Append(OpenBlock(L), l)
  BY OpenBlockOfMore
<1>6. EventsOf[A] = EventsOf[L]
  BY EventsOfMore
<1>7. OpenData(A) = IF n = DataName THEN OpenData(L) \o v \o << LF >> ELSE OpenData(L)
  <2>1. OpenData(A) = IF HasField(l, DataName)
                      THEN OpenData(L) \o ValueOf(l, DataName) \o << LF >>
                      ELSE OpenData(L)
    BY DataOfMore
  <2>2. QED
    BY <1>3, <1>4, <2>1, Zenon
<1>8. /\ HasData(OpenBlock(A)) <=> HasData(OpenBlock(L)) \/ n = DataName
      /\ EventType(OpenBlock(A)) = IF n = EventName THEN v ELSE EventType(OpenBlock(L))
  <2>1. /\ EventType(OpenBlock(A)) =
             IF HasField(l, EventName) THEN ValueOf(l, EventName) ELSE EventType(OpenBlock(L))
        /\ HasData(OpenBlock(A)) <=> HasData(OpenBlock(L)) \/ HasField(l, DataName)
    BY <1>5, BlockOfMore
  <2>2. HasField(l, EventName) => v = ValueOf(l, EventName)
    BY <1>3, <1>4, Zenon
  <2>3. (n = EventName <=> HasField(l, EventName)) /\ (n = DataName <=> HasField(l, DataName))
    BY <1>3, <1>4, Zenon
  <2>4. QED
    BY <2>1, <2>2, <2>3
<1>9. StreamId(A) = IF n = IdName /\ NoNul(v) THEN v ELSE StreamId(L)
  <2>1. StreamId(A) = IF HasField(l, IdName) /\ NoNul(ValueOf(l, IdName))
                      THEN ValueOf(l, IdName) ELSE StreamId(L)
    BY IdOfMore
  <2>2. (n = IdName <=> HasField(l, IdName)) /\ (HasField(l, IdName) => v = ValueOf(l, IdName))
    BY <1>3, <1>4, Zenon
  <2>3. CASE HasField(l, IdName)
    BY <2>1, <2>2, <2>3
  <2>4. CASE ~HasField(l, IdName)
    BY <2>1, <2>2, <2>4
  <2>5. QED
    BY <2>3, <2>4
<1>10. StreamRetry(A) = IF n = RetryName /\ RetryValid(v) THEN Decimal(v) ELSE StreamRetry(L)
  <2>1. StreamRetry(A) = IF HasField(l, RetryName) /\ IsRetry(ValueOf(l, RetryName))
                         THEN Number[ValueOf(l, RetryName)] ELSE StreamRetry(L)
    BY RetryOfMore
  <2>2. /\ n = RetryName <=> HasField(l, RetryName)
        /\ HasField(l, RetryName) => v = ValueOf(l, RetryName)
    BY <1>3, <1>4, Zenon
  <2>3. (RetryValid(v) <=> IsRetry(v)) /\ (IsRetry(v) => Decimal(v) = Number[v])
    BY <1>2, SameRetry
  <2>4. CASE HasField(l, RetryName)
    BY <2>1, <2>2, <2>3, <2>4
  <2>5. CASE ~HasField(l, RetryName)
    BY <2>1, <2>2, <2>5
  <2>6. QED
    BY <2>4, <2>5
<1>11. QED
  BY <1>2, <1>6, <1>7, <1>8, <1>9, <1>10 DEF Adds

(* Blank lines, and callbacks that abort.                                  *)
LEMMA BlankStream ==
  ASSUME Inv, Inv', input # << >>, lastError = OK,
         NEW d \in Texts, NEW L \in Seq(Texts), Standing(d, L), Ahead(d),
         FrameAborted \/ BlankLine \/ Dispatch \/ DispatchAborted
  PROVE  StreamInv'
<1> DEFINE l == << >>
           A == Append(L, l)
<1>1. /\ l \in Texts /\ l = line /\ EndsLine(Head(input)) /\ fed' = fed
      /\ bomChecked' = bomChecked /\ utf8' = utf8
  BY Concats DEF FrameAborted, BlankLine, Dispatch, DispatchAborted, history
<1>2. /\ OpenBlock(A) = << >> /\ OpenData(A) = << >>
      /\ EventType(<< >>) = << >> /\ ~HasData(<< >>)
  BY <1>1, OpenBlockOfMore, DataOfMore, EmptyBlock
<1>3. /\ EventsOf[A] = IF HasData(OpenBlock(L)) THEN Append(EventsOf[L], EventOf(L))
                       ELSE EventsOf[L]
  BY <1>1, EventsOfMore
<1>4. StreamId(A) = StreamId(L) /\ StreamRetry(A) = StreamRetry(L)
  <2>1. ~HasField(l, IdName) /\ ~HasField(l, RetryName)
    BY BlankHasNoField DEF Fields
  <2>2. QED
    BY <1>1, <2>1, IdOfMore, RetryOfMore
<1>5. /\ data = OpenData(L) /\ (dataSeen <=> HasData(OpenBlock(L)))
      /\ eventType = EventType(OpenBlock(L)) /\ lastId = StreamId(L)
      /\ retry = StreamRetry(L) /\ events = EventsOf[L]
  BY DEF Standing, Framed
<1>6. dataSeen => Append(events, Event) = EventsOf[A]
  <2> HAVE dataSeen
  <2>1. WithoutFinalLf(data) = Joined[OpenBlock(L)] /\ HasData(OpenBlock(L))
    BY <1>1, <1>5, DataOfMore
  <2>2. Event = EventOf(L)
    BY <1>5, <2>1 DEF Event, EventOf, BlockEvent
  <2>3. QED
    BY <1>3, <1>5, <2>1, <2>2
<1> HIDE DEF l, A
<1>7. ASSUME NEW e, e = "ABORT", LineFails(e), events' = events \/ events' = EventsOf[A]
      PROVE  StreamInv'
  <2>1. e \in Errors /\ e # "OVERFLOW_LINE" /\ e # "OVERFLOW_FRAME"
    BY <1>7 DEF Errors
  <2>2. QED
    BY <1>1, <1>7, <2>1, LineFailsStream DEF A
<1>8. CASE FrameAborted
  BY <1>7, <1>8 DEF FrameAborted
<1>9. CASE BlankLine
  <2>1. /\ LineDone /\ ~dataSeen /\ data' = << >> /\ eventType' = << >>
        /\ lastId' = lastId /\ dataSeen' = dataSeen /\ retry' = retry /\ events' = events
    BY <1>9 DEF BlankLine
  <2>2. Framed(A)'
    BY <1>2, <1>4, <1>5, <2>1 DEF Framed
  <2>3. events' = EventsOf[A]
    BY <1>3, <1>5, <2>1
  <2>4. QED
    BY <1>1, <2>1, <2>2, <2>3, DoneStream DEF A
<1>10. CASE Dispatch
  <2>1. /\ LineDone /\ dataSeen /\ data' = << >> /\ eventType' = << >>
        /\ lastId' = lastId /\ dataSeen' = FALSE /\ retry' = retry
        /\ events' = Append(events, Event)
    BY <1>10 DEF Dispatch
  <2>2. Framed(A)'
    BY <1>2, <1>4, <1>5, <2>1 DEF Framed
  <2>3. events' = EventsOf[A]
    BY <1>6, <2>1
  <2>4. QED
    BY <1>1, <2>1, <2>2, <2>3, DoneStream DEF A
<1>11. CASE DispatchAborted
  BY <1>6, <1>7, <1>11 DEF DispatchAborted
<1>12. QED
  BY <1>8, <1>9, <1>10, <1>11

(* Lines with a field.                                                     *)
LEMMA FieldStream ==
  ASSUME Inv, Inv', input # << >>, lastError = OK,
         NEW d \in Texts, NEW L \in Seq(Texts), Standing(d, L), Ahead(d),
         DataField \/ EventField \/ IdField \/ RetryField \/ OtherLine
  PROVE  StreamInv'
<1>0. PICK l \in Texts : l = line
  BY DEF Inv, TypeOK, Texts
<1>1. PICK n, v, A : l = line /\ n = FieldName(l) /\ v = FieldValue(l) /\ A = Append(L, l)
  BY <1>0
<1>2. /\ l # << >> /\ EndsLine(Head(input)) /\ fed' = fed /\ events' = events
      /\ bomChecked' = bomChecked /\ utf8' = utf8
  BY <1>1 DEF DataField, EventField, IdField, RetryField, OtherLine, FieldIs, history
<1>3. /\ v \in Texts
      /\ EventsOf[A] = EventsOf[L]
      /\ OpenData(A) = IF n = DataName THEN OpenData(L) \o v \o << LF >> ELSE OpenData(L)
      /\ HasData(OpenBlock(A)) <=> HasData(OpenBlock(L)) \/ n = DataName
      /\ EventType(OpenBlock(A)) = IF n = EventName THEN v ELSE EventType(OpenBlock(L))
      /\ StreamId(A) = IF n = IdName /\ NoNul(v) THEN v ELSE StreamId(L)
      /\ StreamRetry(A) = IF n = RetryName /\ RetryValid(v) THEN Decimal(v) ELSE StreamRetry(L)
  <2>1. Adds(L, n, v, A)
    BY <1>1, <1>2, FieldLine
  <2>2. QED
    BY <2>1 DEF Adds
<1>4. /\ data = OpenData(L) /\ (dataSeen <=> HasData(OpenBlock(L)))
      /\ eventType = EventType(OpenBlock(L)) /\ lastId = StreamId(L)
      /\ retry = StreamRetry(L) /\ events = EventsOf[L]
  BY DEF Standing, Framed
<1>5. ASSUME NEW e \in Errors, LineFails(e), e # "OVERFLOW_LINE",
             e = "OVERFLOW_FRAME" => Exceeds(MaxFrame, Len(OpenData(A)))
      PROVE  StreamInv'
  BY <1>1, <1>2, <1>5, LineFailsStream
<1>6. ASSUME NEW e \in {"OVERFLOW_BUFFER", "NOMEM"}, LineFails(e)
      PROVE  StreamInv'
  <2>1. e \in Errors /\ e # "OVERFLOW_LINE" /\ e # "OVERFLOW_FRAME"
    BY DEF Errors
  <2>2. QED
    BY <1>5, <1>6, <2>1
<1>7. ASSUME LineDone, Framed(A)' PROVE StreamInv'
  <2>1. events' = EventsOf[A]
    BY <1>2, <1>3, <1>4
  <2>2. QED
    BY <1>1, <1>2, <1>7, <2>1, DoneStream
<1>8. /\ DataName # EventName /\ DataName # IdName /\ DataName # RetryName
      /\ EventName # IdName /\ EventName # RetryName /\ IdName # RetryName
  BY FieldNames
<1>9. CASE DataField
  <2>1. /\ n = DataName /\ eventType' = eventType /\ lastId' = lastId /\ retry' = retry
    BY <1>1, <1>9 DEF DataField, FieldIs
  <2> DEFINE k == Len(data) + Len(v)
  <2>2. /\ \/ Over(MaxFrame, k + 1) /\ LineFails("OVERFLOW_FRAME")
           \/ LineFails("OVERFLOW_BUFFER")
           \/ LineFails("NOMEM")
           \/ LineDone /\ data' = data \o v \o << LF >> /\ dataSeen' = TRUE
    BY <1>1, <1>9 DEF DataField
  <2>3. Len(OpenData(A)) = k + 1 /\ k + 1 \in Nat
    <3> DEFINE x == << LF >>
               y == data \o v
    <3>1. data \in Seq(Byte) /\ v \in Seq(Byte)
      BY <1>3 DEF Inv, TypeOK, Texts
    <3>2. y \in Seq(Byte) /\ Len(y) = k
      BY <3>1, ConcatParts
    <3>3. x \in Seq(Byte) /\ Len(x) = 1
      BY DEF LF, Byte
    <3>4. OpenData(A) = y \o x
      BY <1>3, <1>4, <2>1
    <3>5. Len(data) \in Nat /\ Len(v) \in Nat
      BY <3>1, LenProperties
    <3> HIDE DEF x, y
    <3>6. Len(y \o x) = Len(y) + Len(x)
      BY <3>2, <3>3, ConcatParts
    <3>7. QED
      BY <3>2, <3>3, <3>4, <3>5, <3>6
  <2> HIDE DEF k
  <2>4. CASE Over(MaxFrame, k + 1) /\ LineFails("OVERFLOW_FRAME")
    <3>1. Exceeds(MaxFrame, Len(OpenData(A)))
      BY <2>3, <2>4 DEF Over, Exceeds
    <3>2. "OVERFLOW_FRAME" \in Errors /\ "OVERFLOW_FRAME" # "OVERFLOW_LINE"
      BY DEF Errors
    <3>3. QED
      BY <1>5, <2>4, <3>1, <3>2
  <2>5. CASE LineDone /\ data' = data \o v \o << LF >> /\ dataSeen' = TRUE
    <3>1. Framed(A)'
      BY <1>3, <1>4, <1>8, <2>1, <2>5 DEF Framed
    <3>2. QED
      BY <1>7, <2>5, <3>1
  <2>6. QED
    BY <1>6, <2>2, <2>4, <2>5
<1>10. CASE EventField
  <2>1. /\ n = EventName /\ data' = data /\ lastId' = lastId /\ retry' = retry
        /\ dataSeen' = dataSeen
    BY <1>1, <1>10 DEF EventField, FieldIs
  <2>2. \/ LineFails("OVERFLOW_BUFFER")
        \/ LineFails("NOMEM")
        \/ LineDone /\ eventType' = v
    BY <1>1, <1>10 DEF EventField, SetBuffer
  <2>3. CASE LineDone /\ eventType' = v
    <3>1. Framed(A)'
      BY <1>3, <1>4, <1>8, <2>1, <2>3 DEF Framed
    <3>2. QED
      BY <1>7, <2>3, <3>1
  <2>4. QED
    BY <1>6, <2>2, <2>3
<1>11. CASE IdField
  <2>1. /\ n = IdName /\ data' = data /\ eventType' = eventType /\ retry' = retry
        /\ dataSeen' = dataSeen
    BY <1>1, <1>11 DEF IdField, FieldIs
  <2>2. \/ LineFails("OVERFLOW_BUFFER")
        \/ LineFails("NOMEM")
        \/ LineDone /\ lastId' = v /\ \A i \in 1 .. Len(v) : v[i] # 0
        \/ LineDone /\ lastId' = lastId /\ \E i \in 1 .. Len(v) : v[i] = 0
    BY <1>1, <1>11, Zenon DEF IdField, SetBuffer
  <2>3. DOMAIN v = 1 .. Len(v)
    BY <1>3, LenProperties DEF Texts
  <2>4. CASE LineDone /\ lastId' = v /\ \A i \in 1 .. Len(v) : v[i] # 0
    <3>1. NoNul(v)
      BY <2>3, <2>4 DEF NoNul
    <3>2. Framed(A)'
      BY <1>3, <1>4, <1>8, <2>1, <2>4, <3>1 DEF Framed
    <3>3. QED
      BY <1>7, <2>4, <3>2
  <2>5. CASE LineDone /\ lastId' = lastId /\ \E i \in 1 .. Len(v) : v[i] = 0
    <3>1. ~NoNul(v)
      BY <2>3, <2>5 DEF NoNul
    <3>2. Framed(A)'
      BY <1>3, <1>4, <1>8, <2>1, <2>5, <3>1 DEF Framed
    <3>3. QED
      BY <1>7, <2>5, <3>2
  <2>6. QED
    BY <1>6, <2>2, <2>4, <2>5
<1>12. CASE RetryField
  <2>1. /\ n = RetryName /\ data' = data /\ eventType' = eventType /\ lastId' = lastId
        /\ dataSeen' = dataSeen /\ LineDone
        /\ retry' = IF RetryValid(v) THEN Decimal(v) ELSE retry
    BY <1>1, <1>12 DEF RetryField, FieldIs
  <2>2. Framed(A)'
    BY <1>3, <1>4, <1>8, <2>1 DEF Framed
  <2>3. QED
    BY <1>7, <2>1, <2>2
<1>13. CASE OtherLine
  <2>1. /\ n \notin {DataName, EventName, IdName, RetryName} /\ LineDone
        /\ data' = data /\ eventType' = eventType /\ lastId' = lastId
        /\ dataSeen' = dataSeen /\ retry' = retry
    BY <1>1, <1>13 DEF OtherLine, frame
  <2>2. Framed(A)'
    BY <1>3, <1>4, <2>1 DEF Framed
  <2>3. QED
    BY <1>7, <2>1, <2>2
<1>14. QED
  BY <1>9, <1>10, <1>11, <1>12, <1>13

(* Every step of the parser keeps the stream invariant.                    *)
LEMMA NextStream == Inv /\ Inv' /\ StreamInv /\ [Next]_vars => StreamInv'
<1> SUFFICES ASSUME Inv, Inv', StreamInv, [Next]_vars PROVE StreamInv'
  OBVIOUS
<1>1. CASE UNCHANGED vars
  BY <1>1, NothingHappens
<1>2. ASSUME NEW chunk \in Chunks, Feed(chunk) PROVE StreamInv'
  BY <1>2, FeedStream, ChunksAssumption
<1>3. CASE Process
  <2>1. input # << >> /\ lastError = OK
    BY <1>3 DEF Process, Inv
  <2>2. PICK d \in Texts, L \in Seq(Texts) : Standing(d, L) /\ Ahead(d)
    BY <2>1 DEF StreamInv, Understood
  <2>3. CASE HoldBom \/ DropBom \/ ReplayBom
    BY <2>1, <2>2, <2>3, BomStream
  <2>4. CASE SkipLf
    BY <2>1, <2>2, <2>4, SkipStream
  <2>5. CASE BreakSequence
    BY <2>1, <2>2, <2>5, BreakStream
  <2>6. CASE ContinueSequence
    BY <2>1, <2>2, <2>6, ContinueStream
  <2>7. CASE StartByte
    BY <2>1, <2>2, <2>7, StartStream
  <2>8. CASE FrameAborted \/ BlankLine \/ Dispatch \/ DispatchAborted
    BY <2>1, <2>2, <2>8, BlankStream
  <2>9. CASE DataField \/ EventField \/ IdField \/ RetryField \/ OtherLine
    BY <2>1, <2>2, <2>9, FieldStream
  <2>10. QED
    BY <1>3, <2>3, <2>4, <2>5, <2>6, <2>7, <2>8, <2>9 DEF Process
<1>4. QED
  BY <1>1, <1>2, <1>3 DEF Next

(* In every reachable state the parser stands where the text it has read   *)
(* leaves it, or has failed and shown only what the stream means.          *)
THEOREM StreamInvariance == Spec => []StreamInv
BY InitStream, NextStream, Invariance, PTL DEF Spec

(* When sse_feed has returned without error, all of the stream was read.   *)
LEMMA ReadWhole ==
  ASSUME Inv, StreamInv, Returned, lastError = OK
  PROVE  \E L \in Seq(Texts) :
           /\ AllLines(fed) = Append(L, line) /\ StreamLines(fed) = L
           /\ Last(AllLines(fed)) = line
           /\ ~TooLong(AllLines(fed)) /\ ~TooLarge(AllLines(fed))
           /\ events = EventsOf[L] /\ Framed(L)
<1>1. PICK d \in Texts, L \in Seq(Texts) : Standing(d, L) /\ Ahead(d)
  BY DEF StreamInv, Understood
<1>2. /\ fed \in Texts /\ utf8 \in Texts /\ line \in Texts /\ bomChecked \in BOOLEAN
      /\ bomBuf \in BomPrefixes \cup {<< >>} /\ input = << >>
  BY DEF Inv, TypeOK, Texts, Returned
<1>3. StreamText(fed) = d
  <2>1. CASE bomChecked
    <3>1. Reading(fed, d, utf8, << >>) /\ (utf8 = << >> \/ Unfinished(utf8))
      BY <1>1, <1>2, <2>1 DEF Ahead, Standing
    <3>2. QED
      BY <1>2, <3>1, AllRead
  <2>2. CASE ~bomChecked
    <3>1. Waiting(fed, bomBuf, << >>) /\ d = << >>
      BY <1>1, <1>2, <2>2 DEF Ahead
    <3>2. QED
      BY <1>2, <3>1, AllRead
  <2>3. QED
    BY <2>1, <2>2
<1>4. AllLines(fed) = Append(L, line)
  BY <1>1, <1>3 DEF Standing, AllLines
<1>5. Front(Append(L, line)) = L /\ Last(Append(L, line)) = line
  BY <1>2, Fronts
<1>6. QED
  BY <1>1, <1>4, <1>5 DEF Standing, StreamLines

(* However a stream is cut into chunks, the events handed over are those   *)
(* of the stream: all of them while sse_feed returns SSE_OK, a prefix of   *)
(* them once it has failed.                                                *)
THEOREM EventsAreRight == Spec => []EventsAreTheStreams
<1>1. Inv /\ StreamInv => EventsAreTheStreams
  <2> SUFFICES ASSUME Inv, StreamInv, Returned
               PROVE  /\ lastError = OK => events = StreamEvents(fed)
                      /\ IsPrefix(events, StreamEvents(fed))
    BY DEF EventsAreTheStreams
  <2>1. CASE lastError = OK
    <3>1. events = StreamEvents(fed)
      BY <2>1, ReadWhole DEF StreamEvents
    <3>2. PICK d \in Texts, L \in Seq(Texts) : Standing(d, L) /\ Ahead(d)
      BY <2>1 DEF StreamInv, Understood
    <3>3. IsPrefix(events, StreamEvents(fed))
      BY <3>2, StandingShows
    <3>4. QED
      BY <3>1, <3>3
  <2>2. CASE lastError # OK
    BY <2>2 DEF StreamInv, ShownOnly
  <2>3. QED
    BY <2>1, <2>2
<1>2. QED
  BY <1>1, Invariance, StreamInvariance, PTL

(* Between two calls the parser holds exactly the unfinished part of the   *)
(* stream: its last line, its last event id and its retry value.           *)
THEOREM RestIsKept == Spec => []KeepsTheRest
<1>1. Inv /\ StreamInv => KeepsTheRest
  BY ReadWhole DEF KeepsTheRest, Framed
<1>2. QED
  BY <1>1, Invariance, StreamInvariance, PTL

(* max_line_bytes and max_frame_bytes bite exactly when the stream exceeds *)
(* them: no accepted stream does, every stream refused for one does.       *)
THEOREM LimitsBite == Spec => []LimitsAreExact
<1>1. Inv /\ StreamInv => LimitsAreExact
  <2> SUFFICES ASSUME Inv, StreamInv, Returned
               PROVE  /\ lastError = OK =>
                           ~TooLong(AllLines(fed)) /\ ~TooLarge(AllLines(fed))
                      /\ lastError = "OVERFLOW_LINE" => TooLong(AllLines(fed))
                      /\ lastError = "OVERFLOW_FRAME" => TooLarge(AllLines(fed))
    BY Zenon DEF LimitsAreExact, TooLong, TooLarge
  <2>1. lastError = OK => ~TooLong(AllLines(fed)) /\ ~TooLarge(AllLines(fed))
    BY ReadWhole
  <2>2. lastError \in {"OVERFLOW_LINE", "OVERFLOW_FRAME"} => lastError # OK
    BY DEF OK
  <2>3. QED
    BY <2>1, <2>2 DEF StreamInv, ShownOnly
<1>2. QED
  BY <1>1, Invariance, StreamInvariance, PTL

-----------------------------------------------------------------------------
(***************************************************************************)
(* The writer.  What its recursive functions are: the lines of the data,   *)
(* and the data fields of lines.                                           *)
(***************************************************************************)

SplitStep(t, lines) ==
  IF Last(t) = NewLine THEN Append(lines, << >>)
  ELSE Append(Front(lines), Append(Last(lines), Last(t)))

(* Data has at least one line, and every byte ends one or is part of one.  *)
LEMMA DataLinesEquation ==
  /\ DataLines[<< >>] = << << >> >>
  /\ \A t \in Texts :
       /\ DataLines[t] \in Seq(Texts) \ {<< >>}
       /\ t # << >> => DataLines[t] = SplitStep(t, DataLines[Front(t)])
<1> DEFINE S == Byte
           V == Seq(Seq(Byte)) \ {<< >>}
           base == << << >> >>
           Val(g, t) == IF t = << >> THEN base ELSE SplitStep(t, g[Front(t)])
           Is(g) == g = [t \in Seq(S) |-> Val(g, t)]
           step == [t \in Seq(S) |-> [x \in V |-> IF t = << >> THEN x ELSE SplitStep(t, x)]]
           D == DataLines
<1>1. base \in V
  <2>1. << >> \in Seq(Byte)
    BY EmptySeq
  <2>2. QED
    BY <2>1
<1>2. ASSUME NEW t \in Seq(S), t # << >>, NEW x \in V PROVE SplitStep(t, x) \in V
  <2>1. Last(t) \in Byte /\ Front(x) \in Seq(Seq(Byte)) /\ Last(x) \in Seq(Byte)
    BY <1>2, Fronts
  <2>2. Append(Last(x), Last(t)) \in Seq(Byte) /\ << >> \in Seq(Byte)
    BY <2>1, EmptySeq, AppendProperties
  <2>3. Append(x, << >>) \in V /\ Append(Front(x), Append(Last(x), Last(t))) \in V
    <3> DEFINE W == Seq(Byte)
    <3>1. \A s \in Seq(W) : \A e \in W : Append(s, e) \in Seq(W) /\ Append(s, e) # << >>
      <4> HIDE DEF W
      <4>1. QED
        BY Fronts
    <3>2. x \in Seq(W) /\ Front(x) \in Seq(W) /\ << >> \in W
          /\ Append(Last(x), Last(t)) \in W
      BY <2>1, <2>2
    <3> HIDE DEF W
    <3>3. Append(x, << >>) \in Seq(W) \ {<< >>}
          /\ Append(Front(x), Append(Last(x), Last(t))) \in Seq(W) \ {<< >>}
      BY <3>1, <3>2
    <3>4. QED
      BY <3>3 DEF W
  <2>4. QED
    BY <2>3 DEF SplitStep
<1>3. step \in [Seq(S) -> [V -> V]]
  BY <1>2
<1>4. \A t \in Seq(S) : \A x \in V : t # << >> => step[t][x] = SplitStep(t, x)
  OBVIOUS
<1>5. D = CHOOSE g : Is(g)
  BY DEF DataLines, SplitStep, Byte
<1> HIDE DEF V, base, step, D
<1>6. PICK f : GoesOn(f, S, V, base, step)
  BY <1>1, <1>3, FrontRecursion
<1>7. << >> \in Seq(S) /\ \A t \in Seq(S) : t # << >> => Front(t) \in Seq(S)
  BY EmptySeq, Fronts
<1>8. Is(f)
  <2>1. \A t \in Seq(S) : f[t] = Val(f, t)
    BY <1>4, <1>6, <1>7 DEF GoesOn
  <2>2. f = [t \in Seq(S) |-> f[t]]
    BY <1>6 DEF GoesOn
  <2> HIDE DEF Val
  <2>3. QED
    BY <2>1, <2>2
<1>9. Is(D)
  <2> HIDE DEF Val
  <2>1. QED
    BY <1>5, <1>8
<1>10. \A t \in Seq(S) : D[t] = Val(D, t)
  <2> HIDE DEF Val
  <2>1. QED
    BY <1>9
<1>11. D[<< >>] = base
  BY <1>7, <1>10
<1>12. \A t \in Seq(S) : t # << >> => D[t] = SplitStep(t, D[Front(t)])
  BY <1>10
<1>13. \A t \in Seq(S) : D[t] \in V
  <2>1. \A t \in Seq(S) : t # << >> /\ D[Front(t)] \in V => D[t] = step[t][D[Front(t)]]
    BY <1>4, <1>12
  <2>2. QED
    BY <1>6, <1>11, <2>1, SameFunction
<1>14. QED
  BY <1>11, <1>12, <1>13 DEF V, base, D, Texts

(* A line on the wire is a text.                                           *)
LEMMA WireLineType ==
  ASSUME NEW prefix \in Texts, NEW text \in Texts
  PROVE  WireLine(prefix, text) \in Texts
<1>1. << LF >> \in Texts
  BY DEF LF, Byte, Texts
<1>2. prefix \o text \o << LF >> \in Texts
  BY <1>1, Concats
<1>3. QED
  BY <1>2 DEF WireLine, NewLine, LF

(* What the writer puts before the text of a line: the name of a field, a  *)
(* colon and a space.                                                      *)
Introduces(prefix, name) ==
  /\ prefix \in Texts /\ Len(prefix) = Len(name) + 2
  /\ \A i \in 1 .. Len(prefix) : prefix[i] < 128 /\ prefix[i] \notin {LF, CR}
  /\ \A i \in 1 .. Len(name) : prefix[i] = name[i]
  /\ prefix[Len(name) + 1] = COLON /\ prefix[Len(name) + 2] = SPACE

LEMMA WirePrefixes == Introduces(DataPrefix, DataName) /\ Introduces(EventPrefix, EventName)
<1>1. Introduces(DataPrefix, DataName)
  <2> DEFINE p == DataPrefix
             n == DataName
  <2>1. /\ p \in Seq(Byte) /\ Len(p) = 6 /\ p[1] = 100 /\ p[2] = 97 /\ p[3] = 116 /\ p[4] = 97
        /\ p[5] = 58 /\ p[6] = 32
    BY DEF DataPrefix, Byte
  <2>2. Len(n) = 4 /\ n[1] = 100 /\ n[2] = 97 /\ n[3] = 116 /\ n[4] = 97
    BY DEF DataName
  <2> HIDE DEF p, n
  <2>3. \A i \in 1 .. 6 : i \in {1, 2, 3, 4, 5, 6}
    OBVIOUS
  <2>4. \A i \in 1 .. 4 : i \in {1, 2, 3, 4}
    OBVIOUS
  <2>5. \A i \in {1, 2, 3, 4, 5, 6} : p[i] < 128 /\ p[i] \notin {LF, CR}
    BY <2>1 DEF LF, CR
  <2>6. \A i \in {1, 2, 3, 4} : p[i] = n[i]
    BY <2>1, <2>2
  <2>7. p[5] = COLON /\ p[6] = SPACE
    BY <2>1 DEF COLON, SPACE
  <2>8. Introduces(p, n)
    BY <2>1, <2>2, <2>3, <2>4, <2>5, <2>6, <2>7 DEF Introduces, Texts
  <2>9. QED
    BY <2>8 DEF p, n
<1>2. Introduces(EventPrefix, EventName)
  <2> DEFINE p == EventPrefix
             n == EventName
  <2>1. /\ p \in Seq(Byte) /\ Len(p) = 7 /\ p[1] = 101 /\ p[2] = 118 /\ p[3] = 101 /\ p[4] = 110
        /\ p[5] = 116 /\ p[6] = 58 /\ p[7] = 32
    BY DEF EventPrefix, Byte
  <2>2. Len(n) = 5 /\ n[1] = 101 /\ n[2] = 118 /\ n[3] = 101 /\ n[4] = 110 /\ n[5] = 116
    BY DEF EventName
  <2> HIDE DEF p, n
  <2>3. \A i \in 1 .. 7 : i \in {1, 2, 3, 4, 5, 6, 7}
    OBVIOUS
  <2>4. \A i \in 1 .. 5 : i \in {1, 2, 3, 4, 5}
    OBVIOUS
  <2>5. \A i \in {1, 2, 3, 4, 5, 6, 7} : p[i] < 128 /\ p[i] \notin {LF, CR}
    BY <2>1 DEF LF, CR
  <2>6. \A i \in {1, 2, 3, 4, 5} : p[i] = n[i]
    BY <2>1, <2>2
  <2>7. p[6] = COLON /\ p[7] = SPACE
    BY <2>1 DEF COLON, SPACE
  <2>8. Introduces(p, n)
    BY <2>1, <2>2, <2>3, <2>4, <2>5, <2>6, <2>7 DEF Introduces, Texts
  <2>9. QED
    BY <2>8 DEF p, n
<1>3. QED
  BY <1>1, <1>2

(* The data fields of no line are none, one line more is one field more.   *)
LEMMA DataFieldsEquation ==
  /\ DataFields[<< >>] = << >>
  /\ \A t \in Seq(Texts) :
       /\ DataFields[t] \in Texts
       /\ t # << >> => DataFields[t] =
                         DataFields[Front(t)] \o WireLine(DataPrefix, Last(t))
<1> DEFINE S == Seq(Byte)
           V == Seq(Byte)
           base == << >>
           Step(t, x) == x \o WireLine(DataPrefix, Last(t))
           Val(g, t) == IF t = << >> THEN base ELSE Step(t, g[Front(t)])
           Is(g) == g = [t \in Seq(S) |-> Val(g, t)]
           step == [t \in Seq(S) |-> [x \in V |-> IF t = << >> THEN x ELSE Step(t, x)]]
           D == DataFields
<1>1. base \in V
  BY EmptySeq
<1>2. ASSUME NEW t \in Seq(S), t # << >>, NEW x \in V PROVE Step(t, x) \in V
  <2>1. Last(t) \in S
    <3> HIDE DEF S
    <3>1. QED
      BY <1>2, Fronts
  <2>2. WireLine(DataPrefix, Last(t)) \in Seq(Byte)
    BY <2>1, WirePrefixes, WireLineType DEF S, Introduces, Texts
  <2>3. QED
    BY <2>2, ConcatProperties
<1> HIDE DEF Step
<1>3. step \in [Seq(S) -> [V -> V]]
  BY <1>2
<1>4. \A t \in Seq(S) : \A x \in V : t # << >> => step[t][x] = Step(t, x)
  OBVIOUS
<1>5. D = CHOOSE g : Is(g)
  BY DEF DataFields, Step, Byte
<1> HIDE DEF S, V, base, step, D
<1>6. PICK f : GoesOn(f, S, V, base, step)
  BY <1>1, <1>3, FrontRecursion
<1>7. << >> \in Seq(S) /\ \A t \in Seq(S) : t # << >> => Front(t) \in Seq(S)
  BY EmptySeq, Fronts
<1>8. Is(f)
  <2>1. \A t \in Seq(S) : f[t] = Val(f, t)
    BY <1>4, <1>6, <1>7 DEF GoesOn
  <2>2. f = [t \in Seq(S) |-> f[t]]
    BY <1>6 DEF GoesOn
  <2> HIDE DEF Val
  <2>3. QED
    BY <2>1, <2>2
<1>9. Is(D)
  <2> HIDE DEF Val
  <2>1. QED
    BY <1>5, <1>8
<1>10. \A t \in Seq(S) : D[t] = Val(D, t)
  <2> HIDE DEF Val
  <2>1. QED
    BY <1>9
<1>11. D[<< >>] = base
  BY <1>7, <1>10
<1>12. \A t \in Seq(S) : t # << >> => D[t] = Step(t, D[Front(t)])
  BY <1>10
<1>13. \A t \in Seq(S) : D[t] \in V
  <2>1. \A t \in Seq(S) : t # << >> /\ D[Front(t)] \in V => D[t] = step[t][D[Front(t)]]
    BY <1>4, <1>12
  <2>2. QED
    BY <1>6, <1>11, <2>1, SameFunction
<1>14. QED
  BY <1>11, <1>12, <1>13 DEF V, S, base, D, Texts, Step

-----------------------------------------------------------------------------
(***************************************************************************)
(* Lines on the wire.  Every byte sequence reads as a text x and an        *)
(* unfinished sequence u; an LF behind it closes u.                        *)
(***************************************************************************)

Plain(s) == \A i \in 1 .. Len(s) : s[i] \notin {LF, CR}

(* Before whatever comes next, the bytes s behind the unfinished sequence  *)
(* v read as x with the unfinished sequence u.                             *)
Reads(v, s, x, u) == \A z \in Texts : Text[v \o (s \o z)] = x \o Text[u \o z]

Decodes(v, s, x, u) ==
  /\ x \in Texts /\ u \in Texts /\ (u = << >> \/ Unfinished(u))
  /\ Plain(s) => Plain(x)
  /\ s # << >> => x # << >> \/ u # << >>
  /\ Reads(v, s, x, u)

(* What the steps of the decoder yield, for one byte.                      *)
LEMMA YieldsOne ==
  ASSUME NEW v \in Texts, NEW s \in Texts, NEW x \in Texts, NEW w \in Texts,
         Yields(v, s, x, w, << >>)
  PROVE  Reads(v, s, x, w)
<1>1. ASSUME NEW z \in Texts
      PROVE  Text[v \o (s \o z)] = x \o Text[w \o z]
  <2>1. << >> \o z = z
    BY Concats
  <2>2. Text[v \o (s \o z)] = x \o Text[w \o (<< >> \o z)]
    BY DEF Yields, Texts
  <2>3. QED
    BY <2>1, <2>2
<1>2. QED
  BY <1>1 DEF Reads

(* A sequence of one byte.                                                 *)
LEMMA OneByte ==
  ASSUME NEW e \in Byte
  PROVE  /\ << e >> \in Texts /\ << e >> # << >> /\ Len(<< e >>) = 1 /\ << e >>[1] = e
         /\ Head(<< e >>) = e /\ Tail(<< e >>) = << >>
         /\ \A t \in Texts : Append(t, e) = t \o << e >>
<1>1. << e >> \in Texts /\ << e >> # << >> /\ Len(<< e >>) = 1 /\ << e >>[1] = e
  BY DEF Texts
<1>2. Head(<< e >>) = e /\ Tail(<< e >>) = << >>
  OBVIOUS
<1>3. \A t \in Texts : Append(t, e) = t \o << e >>
  BY AppendIsConcat DEF Texts
<1>4. QED
  BY <1>1, <1>2, <1>3

(* A text with a byte after it.                                            *)
LEMMA ByteAdded ==
  ASSUME NEW t \in Texts, NEW e \in Byte
  PROVE  /\ Append(t, e) \in Texts /\ Append(t, e) = t \o << e >>
         /\ << e >> \in Texts /\ << >> \in Texts
<1>1. << e >> \in Texts /\ Append(t, e) = t \o << e >>
  BY OneByte
<1>2. << >> \in Texts /\ t \o << e >> \in Texts
  BY <1>1, Concats
<1>3. QED
  BY <1>1, <1>2

(* A plain byte reads as plain bytes or begins a sequence, when nothing is *)
(* unfinished.                                                             *)
LEMMA DecodesAlone ==
  ASSUME NEW e \in Byte
  PROVE  \E x, u : Decodes(<< >>, << e >>, x, u)
<1> DEFINE r == << e >>
<1>1. /\ r \in Texts /\ r # << >> /\ Head(r) = e /\ Tail(r) = << >> /\ << >> \in Texts
      /\ Len(r) = 1 /\ r[1] = e
  BY OneByte, Concats
<1>2. Replacement \in Texts /\ Replacement # << >> /\ Plain(Replacement) /\ Plain(<< >>)
  BY ReplacementPlain DEF Plain
<1>3. ASSUME NEW x \in Texts, NEW w \in Texts, Yields(<< >>, r, x, w, << >>)
      PROVE  Reads(<< >>, r, x, w)
  <2> HIDE DEF r
  <2>1. << >> \in Texts /\ r \in Texts
    BY <1>1
  <2>2. QED
    BY <1>3, <2>1, YieldsOne
<1> HIDE DEF r
<1>4. e < 128 => Decodes(<< >>, r, r, << >>)
  <2> HAVE e < 128
  <2>1. Yields(<< >>, r, << e >>, << >>, Tail(r))
    BY <1>1, Alone DEF Texts
  <2>2. Yields(<< >>, r, r, << >>, << >>)
    BY <1>1, <2>1 DEF r
  <2>3. Reads(<< >>, r, r, << >>)
    BY <1>1, <1>3, <2>2
  <2>4. QED
    BY <1>1, <2>3 DEF Decodes
<1>5. e >= 128 /\ SequenceLength(e) = 0 => Decodes(<< >>, r, Replacement, << >>)
  <2> HAVE e >= 128 /\ SequenceLength(e) = 0
  <2>1. Yields(<< >>, r, Replacement, << >>, << >>)
    BY <1>1, Alone DEF Texts
  <2>2. Reads(<< >>, r, Replacement, << >>)
    BY <1>1, <1>2, <1>3, <2>1
  <2>3. QED
    BY <1>1, <1>2, <2>2 DEF Decodes
<1>6. SequenceLength(e) > 0 => Decodes(<< >>, r, << >>, r)
  <2> HAVE SequenceLength(e) > 0
  <2>1. Yields(<< >>, r, << >>, << e >>, Tail(r)) /\ Unfinished(<< e >>)
    BY <1>1, Alone DEF Texts
  <2>2. Yields(<< >>, r, << >>, r, << >>) /\ Unfinished(r)
    BY <1>1, <2>1 DEF r
  <2>3. Reads(<< >>, r, << >>, r)
    BY <1>1, <1>3, <2>2
  <2>4. QED
    BY <1>1, <1>2, <2>2, <2>3 DEF Decodes
<1>7. e < 128 \/ (e >= 128 /\ SequenceLength(e) = 0) \/ SequenceLength(e) > 0
  <2> DEFINE k == SequenceLength(e)
  <2>1. k \in {0, 2, 3, 4} /\ e \in 0 .. 255
    BY Claims DEF Byte
  <2> HIDE DEF k
  <2>2. e < 128 \/ (e >= 128 /\ k = 0) \/ k > 0
    BY <2>1
  <2>3. QED
    BY <2>2 DEF k
<1>8. QED
  BY <1>4, <1>5, <1>6, <1>7 DEF r

(* Plain bytes behind plain bytes are plain, and bytes that are plain have *)
(* only plain bytes.                                                       *)
LEMMA PlainParts ==
  ASSUME NEW s \in Texts, NEW t \in Texts
  PROVE  Plain(s \o t) <=> Plain(s) /\ Plain(t)
<1> DEFINE m == Len(s)
           n == Len(t)
           c == s \o t
<1>1. /\ m \in Nat /\ n \in Nat /\ Len(c) = m + n
      /\ \A i \in 1 .. m + n : c[i] = IF i <= m THEN s[i] ELSE t[i - m]
  BY ConcatParts, LenProperties DEF Texts
<1> HIDE DEF m, n, c
<1>2. \A i \in 1 .. m : i \in 1 .. m + n /\ c[i] = s[i]
  BY <1>1
<1>3. \A i \in 1 .. n : i + m \in 1 .. m + n /\ c[i + m] = t[i]
  BY <1>1
<1>4. \A i \in 1 .. m + n : (i \in 1 .. m /\ c[i] = s[i]) \/ (i - m \in 1 .. n /\ c[i] = t[i - m])
  BY <1>1
<1>5. Plain(c) => Plain(s)
  BY <1>1, <1>2 DEF Plain, m
<1>6. Plain(c) => Plain(t)
  BY <1>1, <1>3 DEF Plain, n
<1>7. Plain(s) /\ Plain(t) => Plain(c)
  BY <1>1, <1>4 DEF Plain, m, n
<1>8. QED
  BY <1>5, <1>6, <1>7 DEF c

(* Two readings, one after the other.                                      *)
LEMMA ReadsOn ==
  ASSUME NEW v \in Texts, NEW s \in Texts, NEW x \in Texts, NEW u \in Texts,
         NEW t \in Texts, NEW y \in Texts, NEW w \in Texts,
         Reads(v, s, x, u), Reads(u, t, y, w)
  PROVE  Reads(v, s \o t, x \o y, w)
<1>1. ASSUME NEW z \in Texts
      PROVE  Text[v \o ((s \o t) \o z)] = (x \o y) \o Text[w \o z]
  <2>1. t \o z \in Texts /\ (s \o t) \o z = s \o (t \o z)
    <3>1. Rebrackets(s, t, z)
      BY Joins
    <3>2. QED
      BY <3>1, Concats DEF Rebrackets
  <2>2. Text[w \o z] \in Texts
    <3>1. w \o z \in Texts
      BY Concats
    <3>2. QED
      BY <3>1, TextType
  <2>3. Text[v \o (s \o (t \o z))] = x \o Text[u \o (t \o z)]
    BY <2>1 DEF Reads
  <2>4. Text[u \o (t \o z)] = y \o Text[w \o z]
    BY DEF Reads
  <2> DEFINE q == Text[w \o z]
  <2> HIDE DEF q
  <2>5. (x \o y) \o q = x \o (y \o q)
    <3>1. q \in Texts
      BY <2>2 DEF q
    <3>2. QED
      <4>1. Rebrackets(x, y, q)
        BY <3>1, Joins
      <4>2. QED
        BY <4>1 DEF Rebrackets
  <2>6. QED
    BY <2>1, <2>3, <2>4, <2>5 DEF q
<1>2. QED
  BY <1>1 DEF Reads

(* One byte more, whatever is unfinished.                                  *)
LEMMA DecodesByte ==
  ASSUME NEW v \in Texts, v = << >> \/ Unfinished(v), NEW e \in Byte
  PROVE  \E x, u : Decodes(v, << e >>, x, u)
<1> DEFINE r == << e >>
           seq == Append(v, e)
<1>1. r \in Texts /\ r # << >> /\ Head(r) = e /\ Tail(r) = << >> /\ << >> \in Texts
  BY OneByte, Concats
<1>2. Replacement \in Texts /\ Replacement # << >> /\ Plain(Replacement) /\ Plain(<< >>)
  BY ReplacementPlain DEF Plain
<1>3. CASE v = << >>
  BY <1>3, DecodesAlone
<1>4. ASSUME Unfinished(v), ~IsContinuation(e)
      PROVE  \E x, u : Decodes(v, r, x, u)
  <2>1. PICK x, u : Decodes(<< >>, r, x, u)
    BY DecodesAlone
  <2> HIDE DEF r
  <2>2. Yields(v, r, Replacement, << >>, r)
    BY <1>1, <1>4, Broken DEF Texts
  <2>3. /\ x \in Texts /\ u \in Texts /\ (u = << >> \/ Unfinished(u)) /\ Reads(<< >>, r, x, u)
        /\ (Plain(r) => Plain(x))
    BY <2>1 DEF Decodes
  <2> DEFINE y == Replacement \o x
  <2>4. y \in Texts /\ y # << >> /\ (Plain(r) => Plain(y))
    <3>1. y \in Texts /\ (Plain(r) => Plain(y))
      BY <1>2, <2>3, Concats, PlainParts
    <3>2. y # << >>
      BY <1>2, <2>3 DEF Texts, Replacement
    <3>3. QED
      BY <3>1, <3>2
  <2>5. Reads(v, r, y, u)
    <3>1. ASSUME NEW z \in Texts
          PROVE  Text[v \o (r \o z)] = y \o Text[u \o z]
      <4>1. Text[v \o (r \o z)] = Replacement \o Text[<< >> \o (r \o z)]
        BY <2>2 DEF Yields, Texts
      <4>2. Text[<< >> \o (r \o z)] = x \o Text[u \o z]
        BY <2>3 DEF Reads
      <4>3. Text[u \o z] \in Texts
        BY <2>3, Concats, TextType
      <4> DEFINE q == Text[u \o z]
      <4> HIDE DEF q
      <4>4. y \o q = Replacement \o (x \o q)
        <5>1. Replacement \in Texts
          BY <1>2
        <5>2. Rebrackets(Replacement, x, q)
          BY <2>3, <4>3, <5>1, Joins DEF q
        <5>3. QED
          BY <5>2 DEF Rebrackets
      <4>5. QED
        BY <4>1, <4>2, <4>4 DEF q
    <3>2. QED
      BY <3>1 DEF Reads
  <2> HIDE DEF y
  <2>6. Decodes(v, r, y, u)
    BY <2>3, <2>4, <2>5 DEF Decodes
  <2>7. QED
    BY <2>6
<1>5. ASSUME Unfinished(v), IsContinuation(e)
      PROVE  \E x, u : Decodes(v, r, x, u)
  <2>1. /\ Len(seq) < SequenceLength(seq[1]) => Yields(v, r, << >>, seq, << >>) /\ Unfinished(seq)
        /\ Len(seq) = SequenceLength(seq[1]) =>
              /\ Yields(v, r, IF Utf8SequenceValid(seq) THEN seq ELSE Replacement, << >>, << >>)
              /\ seq \in Seq(Byte) /\ seq # << >>
              /\ \A i \in 1 .. Len(seq) : seq[i] >= 128
    <3> HIDE DEF r
    <3>1. seq = Append(v, Head(r)) /\ IsContinuation(Head(r)) /\ r \in Seq(Byte)
      BY <1>1, <1>5 DEF Texts
    <3> HIDE DEF seq
    <3>2. QED
      BY <1>1, <1>5, <3>1, Continued
  <2>2. seq \in Texts /\ seq # << >> /\ Len(seq) = Len(v) + 1 /\ seq[1] = v[1] /\ Len(v) \in Nat
    <3>1. v \in Seq(Byte) /\ Len(v) \in 1 .. 3
      BY <1>5, UnfinishedGroup
    <3>2. /\ seq \in Seq(Byte) /\ Len(seq) = Len(v) + 1 /\ seq # << >>
          /\ \A i \in 1 .. Len(v) : seq[i] = v[i]
      BY <3>1, AppendProperties
    <3>3. 1 \in 1 .. Len(v) /\ Len(v) \in Nat
      BY <3>1
    <3>4. QED
      BY <3>2, <3>3 DEF Texts
  <2> HIDE DEF seq, r
  <2>3. Len(seq) < SequenceLength(seq[1]) \/ Len(seq) = SequenceLength(seq[1])
    <3> DEFINE k == SequenceLength(v[1])
    <3>1. Len(v) < k /\ k \in {2, 3, 4}
      BY <1>5, UnfinishedGroup DEF Unfinished
    <3> HIDE DEF k
    <3>2. Len(seq) < k \/ Len(seq) = k
      BY <2>2, <3>1
    <3>3. QED
      BY <2>2, <3>2 DEF k
  <2>4. CASE Len(seq) < SequenceLength(seq[1])
    <3>1. Reads(v, r, << >>, seq) /\ Unfinished(seq)
      BY <1>1, <2>1, <2>2, <2>4, YieldsOne
    <3>2. Decodes(v, r, << >>, seq)
      BY <1>1, <1>2, <2>2, <3>1 DEF Decodes
    <3>3. QED
      BY <3>2
  <2>5. CASE Len(seq) = SequenceLength(seq[1])
    <3> DEFINE x == IF Utf8SequenceValid(seq) THEN seq ELSE Replacement
    <3>1. x \in Texts /\ x # << >> /\ Plain(x)
      <4>1. Plain(seq)
        <5>1. \A i \in 1 .. Len(seq) : seq[i] >= 128 /\ seq[i] \in 0 .. 255
          BY <2>1, <2>2, <2>5, ElementOfSeq DEF Texts, Byte
        <5>2. QED
          BY <5>1 DEF Plain, LF, CR
      <4>2. QED
        BY <1>2, <2>2, <4>1
    <3>2. Yields(v, r, x, << >>, << >>)
      BY <2>1, <2>5
    <3> HIDE DEF x
    <3>3. Reads(v, r, x, << >>)
      BY <1>1, <3>1, <3>2, YieldsOne
    <3>4. Decodes(v, r, x, << >>)
      BY <1>1, <3>1, <3>3 DEF Decodes
    <3>5. QED
      BY <3>4
  <2>6. QED
    BY <2>3, <2>4, <2>5
<1>6. QED
  BY <1>3, <1>4, <1>5 DEF r

(* Every byte sequence is read.                                            *)
LEMMA EveryText ==
  ASSUME NEW s \in Texts
  PROVE  \E x, u : Decodes(<< >>, s, x, u)
<1> DEFINE T == {t \in Texts : \E x, u : Decodes(<< >>, t, x, u)}
<1>1. << >> \in T
  <2>1. << >> \in Texts /\ Plain(<< >>)
    BY Concats DEF Plain
  <2>2. Reads(<< >>, << >>, << >>, << >>)
    <3>1. ASSUME NEW z \in Texts
          PROVE  Text[<< >> \o (<< >> \o z)] = << >> \o Text[<< >> \o z]
      BY Concats, TextType
    <3>2. QED
      BY <3>1 DEF Reads
  <2>3. Decodes(<< >>, << >>, << >>, << >>)
    BY <2>1, <2>2 DEF Decodes
  <2>4. QED
    BY <2>1, <2>3
<1>2. ASSUME NEW t \in Texts, t \in T, NEW e \in Byte
      PROVE  Append(t, e) \in T
  <2>1. PICK x, u : Decodes(<< >>, t, x, u)
    BY <1>2
  <2>2. /\ x \in Texts /\ u \in Texts /\ (u = << >> \/ Unfinished(u)) /\ Reads(<< >>, t, x, u)
        /\ Plain(t) => Plain(x)
    BY <2>1 DEF Decodes
  <2> DEFINE r == << e >>
             a == Append(t, e)
  <2>3. PICK y, w : Decodes(u, r, y, w)
    BY <2>2, DecodesByte
  <2>4. /\ r \in Texts /\ r # << >> /\ a = t \o r
    BY OneByte
  <2> HIDE DEF r, a
  <2>5. /\ y \in Texts /\ w \in Texts /\ (w = << >> \/ Unfinished(w)) /\ Reads(u, r, y, w)
        /\ Plain(r) => Plain(y)
        /\ y # << >> \/ w # << >>
    BY <2>3, <2>4 DEF Decodes
  <2>6. a \in Texts /\ x \o y \in Texts /\ << >> \in Texts
    BY <2>2, <2>4, <2>5, Concats
  <2>7. Reads(<< >>, a, x \o y, w)
    BY <2>2, <2>4, <2>5, <2>6, ReadsOn
  <2>8. Plain(a) => Plain(x \o y)
    BY <2>2, <2>4, <2>5, PlainParts
  <2>9. x \o y # << >> \/ w # << >>
    <3>1. y # << >> => x \o y # << >>
      <4>1. Len(x \o y) = Len(x) + Len(y) /\ Len(x) \in Nat /\ Len(y) \in Nat
        BY <2>2, <2>5, ConcatParts, LenProperties DEF Texts
      <4>2. y # << >> => Len(y) > 0
        BY <2>5, EmptySeq DEF Texts
      <4>3. Len(<< >>) = 0
        OBVIOUS
      <4>4. QED
        BY <4>1, <4>2, <4>3
    <3>2. QED
      BY <2>5, <3>1
  <2>10. Decodes(<< >>, a, x \o y, w)
    BY <2>5, <2>6, <2>7, <2>8, <2>9 DEF Decodes
  <2>11. QED
    BY <2>6, <2>10 DEF a
<1>3. s \in T
  <2> HIDE DEF T
  <2>1. s \in Seq(Byte) /\ << >> \in T /\ \A t \in Seq(Byte) : t \in T => \A e \in Byte : Append(t, e) \in T
    BY <1>1, <1>2 DEF Texts
  <2>2. QED
    BY <2>1, ByAppend
<1>4. QED
  BY <1>3

(* An LF reads as itself.                                                  *)
LEMMA LineFeed ==
  /\ << LF >> \in Texts /\ LF \in Byte
  /\ \A z \in Texts : Text[<< LF >> \o z] = << LF >> \o Text[z]
  /\ Text[<< >>] = << >>
<1>1. LF \in Byte /\ LF < 128
  BY DEF LF, Byte
<1>2. SequenceLength(LF) = 0
  BY DEF LF, SequenceLength
<1>3. ASSUME NEW z \in Texts PROVE Text[<< LF >> \o z] = << LF >> \o Text[z]
  <2> DEFINE b == LF
  <2>1. b \in Byte /\ SequenceLength(b) = 0 /\ b < 128 /\ z \in Seq(Byte)
    BY <1>1, <1>2 DEF Texts
  <2> HIDE DEF b
  <2>2. Text[<< b >> \o z] = (IF b < 128 THEN << b >> ELSE Replacement) \o Text[z]
    BY <2>1, TextOfByte
  <2>3. QED
    BY <2>1, <2>2 DEF b
<1>4. << LF >> \in Texts
  BY <1>1, OneByte
<1>5. QED
  BY <1>1, <1>3, <1>4, TextEquation

(* An unfinished sequence before an LF reads as one U+FFFD.                *)
LEMMA Closing ==
  ASSUME NEW u \in Texts, u = << >> \/ Unfinished(u)
  PROVE  \E y \in Texts : /\ Plain(y) /\ (u # << >> => y # << >>)
                          /\ Reads(u, << LF >>, y \o << LF >>, << >>)
<1> DEFINE n == << LF >>
<1>1. /\ n \in Texts /\ Head(n) = LF /\ n # << >> /\ << >> \in Texts /\ ~IsContinuation(LF)
      /\ Tail(n) = << >>
  <2>1. ~IsContinuation(LF)
    BY DEF IsContinuation, LF
  <2>2. QED
    BY <2>1, OneByte, LineFeed, Concats
<1>2. \A z \in Texts : Text[n \o z] = n \o Text[z]
  BY LineFeed
<1> HIDE DEF n
<1>3. ASSUME NEW z \in Texts
      PROVE  /\ << >> \o z = z /\ n \o z \in Texts /\ << >> \o (n \o z) = n \o z
             /\ << >> \o n = n /\ Text[z] \in Texts
  BY <1>1, Concats, TextType
<1>4. CASE u = << >>
  <2>1. ASSUME NEW z \in Texts
        PROVE  Text[u \o (n \o z)] = (<< >> \o n) \o Text[<< >> \o z]
    BY <1>2, <1>3, <1>4
  <2>2. Reads(u, n, << >> \o n, << >>)
    BY <2>1 DEF Reads
  <2>3. Plain(<< >>)
    BY DEF Plain
  <2>4. QED
    BY <1>1, <1>4, <2>2, <2>3 DEF n
<1>5. CASE Unfinished(u)
  <2>1. Replacement \in Texts /\ Replacement # << >> /\ Plain(Replacement)
    BY ReplacementPlain DEF Plain
  <2>2. Yields(u, n, Replacement, << >>, n)
    BY <1>1, <1>5, Broken DEF Texts
  <2>3. ASSUME NEW z \in Texts
        PROVE  Text[u \o (n \o z)] = (Replacement \o n) \o Text[<< >> \o z]
    <3>1. Text[u \o (n \o z)] = Replacement \o Text[<< >> \o (n \o z)]
      BY <2>2 DEF Yields, Texts
    <3> DEFINE q == Text[z]
    <3>2. q \in Texts /\ Text[n \o z] = n \o q /\ Text[<< >> \o z] = q
      BY <1>2, <1>3
    <3> HIDE DEF q
    <3>3. (Replacement \o n) \o q = Replacement \o (n \o q)
      BY <1>1, <2>1, <3>2, Concats
    <3>4. QED
      BY <1>3, <3>1, <3>2, <3>3
  <2>4. Reads(u, n, Replacement \o n, << >>)
    BY <2>3 DEF Reads
  <2>5. QED
    BY <2>1, <2>4 DEF n
<1>6. QED
  BY <1>4, <1>5

(* What a reader makes of bytes that an LF ends.                           *)
LEMMA LineCloses ==
  ASSUME NEW s \in Texts, NEW c, c = Closed(s)
  PROVE  /\ c \in Texts /\ (Plain(s) => Plain(c)) /\ (s # << >> => c # << >>)
         /\ Reads(<< >>, s \o << LF >>, c \o << LF >>, << >>)
         /\ Text[Append(s, LF)] = Append(c, LF)
<1> DEFINE n == << LF >>
<1>1. n \in Texts /\ LF \in Byte /\ << >> \in Texts /\ Text[<< >>] = << >>
  BY LineFeed, Concats
<1>2. PICK x, u : Decodes(<< >>, s, x, u)
  BY EveryText
<1>3. /\ x \in Texts /\ u \in Texts /\ (u = << >> \/ Unfinished(u)) /\ Reads(<< >>, s, x, u)
      /\ (Plain(s) => Plain(x)) /\ (s # << >> => x # << >> \/ u # << >>)
  BY <1>2 DEF Decodes
<1>4. PICK y \in Texts : /\ Plain(y) /\ (u # << >> => y # << >>)
                         /\ Reads(u, n, y \o n, << >>)
  BY <1>3, Closing
<1> HIDE DEF n
<1> DEFINE d == x \o y
<1>5. d \in Texts /\ y \o n \in Texts /\ x \o (y \o n) = d \o n /\ s \o n \in Texts /\ d \o n \in Texts
  BY <1>1, <1>3, <1>4, Concats
<1>6. (Plain(s) => Plain(d)) /\ (s # << >> => d # << >>)
  <2>1. Plain(s) => Plain(d)
    BY <1>3, <1>4, PlainParts
  <2>2. Len(d) = Len(x) + Len(y) /\ Len(x) \in Nat /\ Len(y) \in Nat
    BY <1>3, <1>4, ConcatParts, LenProperties DEF Texts
  <2>3. (y # << >> => Len(y) > 0) /\ (x # << >> => Len(x) > 0)
    BY <1>3, <1>4, EmptySeq DEF Texts
  <2>4. Len(<< >>) = 0
    OBVIOUS
  <2> HIDE DEF d
  <2>5. x # << >> \/ y # << >> => d # << >>
    BY <2>2, <2>3, <2>4
  <2>6. QED
    BY <1>3, <1>4, <2>1, <2>5
<1> HIDE DEF d
<1>7. Reads(<< >>, s \o n, d \o n, << >>)
  <2>1. Reads(<< >>, s \o n, x \o (y \o n), << >>)
    BY <1>1, <1>3, <1>4, <1>5, ReadsOn
  <2>2. QED
    BY <1>5, <2>1
<1>8. Append(s, LF) = s \o n /\ Append(d, LF) = d \o n
  BY <1>1, <1>5, OneByte DEF n
<1>9. Text[s \o n] = d \o n
  <2>1. Text[<< >> \o ((s \o n) \o << >>)] = (d \o n) \o Text[<< >> \o << >>]
    BY <1>1, <1>7 DEF Reads
  <2>2. (s \o n) \o << >> = s \o n /\ << >> \o (s \o n) = s \o n /\ << >> \o << >> = << >>
        /\ (d \o n) \o << >> = d \o n
    BY <1>1, <1>5, Concats
  <2>3. QED
    BY <1>1, <2>1, <2>2
<1>10. c = d
  <2>1. Front(Append(d, LF)) = d
    BY <1>1, <1>5, Fronts DEF Texts
  <2>2. QED
    BY <1>8, <1>9, <2>1 DEF Closed
<1>11. QED
  BY <1>5, <1>6, <1>7, <1>8, <1>9, <1>10 DEF n

(* Two texts with the same first part have the same second part.           *)
LEMMA SameParts ==
  ASSUME NEW s \in Texts, NEW x \in Texts, NEW t \in Texts, NEW y \in Texts,
         s \o x = t \o y, Len(s) = Len(t)
  PROVE  s = t /\ x = y
<1> DEFINE m == Len(s)
           n == Len(x)
           c == s \o x
<1>1. /\ m \in Nat /\ n \in Nat /\ Len(c) = m + n /\ Len(c) = m + Len(y) /\ Len(y) \in Nat
      /\ \A i \in 1 .. m + n : c[i] = IF i <= m THEN s[i] ELSE x[i - m]
      /\ \A i \in 1 .. m + Len(y) : c[i] = IF i <= m THEN t[i] ELSE y[i - m]
  <2>1. /\ m \in Nat /\ n \in Nat /\ Len(s \o x) = m + n /\ Len(y) \in Nat
        /\ \A i \in 1 .. m + n : (s \o x)[i] = IF i <= m THEN s[i] ELSE x[i - m]
    BY ConcatParts, LenProperties DEF Texts
  <2>2. /\ Len(t \o y) = Len(t) + Len(y)
        /\ \A i \in 1 .. Len(t) + Len(y) : (t \o y)[i] = IF i <= Len(t) THEN t[i] ELSE y[i - Len(t)]
    BY ConcatParts DEF Texts
  <2>3. Len(t) = m /\ t \o y = s \o x
    OBVIOUS
  <2> HIDE DEF m, n
  <2>4. QED
    BY <2>1, <2>2, <2>3
<1>2. Len(t) = m /\ s \in Seq(Byte) /\ t \in Seq(Byte) /\ x \in Seq(Byte) /\ y \in Seq(Byte)
  BY DEF Texts
<1>3. Len(x) = n
  OBVIOUS
<1> HIDE DEF m, n, c
<1>4. Len(y) = n
  BY <1>1
<1>5. \A i \in 1 .. m : s[i] = t[i]
  BY <1>1, <1>4
<1>6. \A i \in 1 .. n : x[i] = y[i]
  <2> TAKE i \in 1 .. n
  <2>1. i + m \in 1 .. m + n /\ ~(i + m <= m) /\ (i + m) - m = i
    BY <1>1
  <2>2. QED
    BY <1>1, <1>4, <2>1
<1>7. s = t
  BY <1>2, <1>5, SeqEqual DEF m
<1>8. x = y
  BY <1>2, <1>3, <1>4, <1>6, SeqEqual
<1>9. QED
  BY <1>7, <1>8

(* Where the first line ends.                                              *)
LEMMA FirstLine ==
  ASSUME NEW s \in Texts, NEW x \in Texts, NEW t \in Texts, NEW y \in Texts,
         Plain(s), Plain(t), s \o (<< LF >> \o x) = t \o (<< LF >> \o y)
  PROVE  s = t /\ x = y
<1> DEFINE n == << LF >>
           X == n \o x
           Y == n \o y
           c == s \o X
<1>1. n \in Texts /\ Len(n) = 1 /\ n[1] = LF
  BY LineFeed, OneByte
<1>2. /\ X \in Texts /\ Len(X) = 1 + Len(x) /\ X[1] = LF /\ Len(x) \in Nat
      /\ Y \in Texts /\ Len(Y) = 1 + Len(y) /\ Y[1] = LF /\ Len(y) \in Nat
  <2> HIDE DEF n
  <2>1. /\ Len(X) = Len(n) + Len(x) /\ \A i \in 1 .. Len(n) + Len(x) :
                                         X[i] = IF i <= Len(n) THEN n[i] ELSE x[i - Len(n)]
        /\ Len(Y) = Len(n) + Len(y) /\ \A i \in 1 .. Len(n) + Len(y) :
                                         Y[i] = IF i <= Len(n) THEN n[i] ELSE y[i - Len(n)]
        /\ X \in Texts /\ Y \in Texts
    BY <1>1, ConcatParts DEF Texts
  <2>2. Len(x) \in Nat /\ Len(y) \in Nat
    BY LenProperties DEF Texts
  <2> HIDE DEF X, Y
  <2>3. QED
    BY <1>1, <2>1, <2>2
<1>3. c = t \o Y
  OBVIOUS
<1> HIDE DEF n, X, Y
<1>4. /\ Len(s) \in Nat /\ Len(t) \in Nat
      /\ Len(c) = Len(s) + Len(X) /\ Len(c) = Len(t) + Len(Y)
      /\ \A i \in 1 .. Len(s) + Len(X) : c[i] = IF i <= Len(s) THEN s[i] ELSE X[i - Len(s)]
      /\ \A i \in 1 .. Len(t) + Len(Y) : c[i] = IF i <= Len(t) THEN t[i] ELSE Y[i - Len(t)]
  <2>1. /\ Len(s) \in Nat /\ Len(t) \in Nat /\ Len(s \o X) = Len(s) + Len(X)
        /\ \A i \in 1 .. Len(s) + Len(X) : (s \o X)[i] = IF i <= Len(s) THEN s[i] ELSE X[i - Len(s)]
    BY <1>2, ConcatParts, LenProperties DEF Texts
  <2>2. /\ Len(t \o Y) = Len(t) + Len(Y)
        /\ \A i \in 1 .. Len(t) + Len(Y) : (t \o Y)[i] = IF i <= Len(t) THEN t[i] ELSE Y[i - Len(t)]
    BY <1>2, ConcatParts DEF Texts
  <2>3. QED
    BY <1>3, <2>1, <2>2
<1> HIDE DEF c
<1>5. ~(Len(s) < Len(t))
  <2> SUFFICES ASSUME Len(s) < Len(t) PROVE FALSE
    OBVIOUS
  <2> DEFINE i == Len(s) + 1
  <2>1. /\ i \in 1 .. Len(s) + Len(X) /\ i \in 1 .. Len(t) + Len(Y) /\ i \in 1 .. Len(t)
        /\ ~(i <= Len(s)) /\ i - Len(s) = 1 /\ i <= Len(t)
    BY <1>2, <1>4
  <2>2. c[i] = LF /\ c[i] = t[i]
    BY <1>2, <1>4, <2>1
  <2>3. t[i] # LF
    BY <2>1 DEF Plain
  <2>4. QED
    BY <2>2, <2>3
<1>6. ~(Len(t) < Len(s))
  <2> SUFFICES ASSUME Len(t) < Len(s) PROVE FALSE
    OBVIOUS
  <2> DEFINE i == Len(t) + 1
  <2>1. /\ i \in 1 .. Len(s) + Len(X) /\ i \in 1 .. Len(t) + Len(Y) /\ i \in 1 .. Len(s)
        /\ ~(i <= Len(t)) /\ i - Len(t) = 1 /\ i <= Len(s)
    BY <1>2, <1>4
  <2>2. c[i] = LF /\ c[i] = s[i]
    BY <1>2, <1>4, <2>1
  <2>3. s[i] # LF
    BY <2>1 DEF Plain
  <2>4. QED
    BY <2>2, <2>3
<1>7. Len(s) = Len(t)
  BY <1>4, <1>5, <1>6
<1>8. s = t /\ X = Y
  BY <1>2, <1>3, <1>7, SameParts DEF c
<1>9. x = y
  BY <1>1, <1>8, SameParts DEF X, Y
<1>10. QED
  BY <1>8, <1>9

(* What reads as y, an LF behind each, closes as y.                        *)
LEMMA ReadsClosed ==
  ASSUME NEW s \in Texts, NEW y \in Texts, Reads(<< >>, s \o << LF >>, y \o << LF >>, << >>)
  PROVE  Closed(s) = y
<1> DEFINE n == << LF >>
<1>1. /\ n \in Texts /\ << >> \in Texts /\ Text[<< >>] = << >>
      /\ Append(s, LF) = s \o n /\ Append(y, LF) = y \o n
  BY LineFeed, OneByte, Concats
<1> HIDE DEF n
<1>2. s \o n \in Texts /\ y \o n \in Texts
  BY <1>1, Concats
<1>3. Text[<< >> \o ((s \o n) \o << >>)] = (y \o n) \o Text[<< >> \o << >>]
  BY <1>1 DEF Reads, n
<1>4. /\ << >> \o (s \o n) = s \o n /\ (s \o n) \o << >> = s \o n
      /\ (y \o n) \o << >> = y \o n /\ << >> \o << >> = << >>
  BY <1>1, <1>2, Concats
<1>5. Text[Append(s, LF)] = Append(y, LF)
  BY <1>1, <1>3, <1>4
<1>6. Front(Append(y, LF)) = y
  BY LineFeed, Fronts DEF Texts
<1>7. QED
  BY <1>5, <1>6 DEF Closed

(* ASCII reads as itself.                                                  *)
LEMMA AsciiReads ==
  ASSUME NEW p \in Texts, \A i \in 1 .. Len(p) : p[i] < 128
  PROVE  Reads(<< >>, p, p, << >>)
<1> DEFINE Ascii(t) == \A i \in 1 .. Len(t) : t[i] < 128
           T == {t \in Texts : Ascii(t) => Reads(<< >>, t, t, << >>)}
<1>1. << >> \in T
  <2>1. << >> \in Texts
    BY Concats
  <2>2. ASSUME NEW z \in Texts
        PROVE  Text[<< >> \o (<< >> \o z)] = << >> \o Text[<< >> \o z]
    BY Concats, TextType
  <2>3. Reads(<< >>, << >>, << >>, << >>)
    BY <2>2 DEF Reads
  <2>4. QED
    BY <2>1, <2>3
<1>2. ASSUME NEW t \in Texts, t \in T, NEW e \in Byte
      PROVE  Append(t, e) \in T
  <2> DEFINE r == << e >>
             a == Append(t, e)
  <2>1. r \in Texts /\ a = t \o r /\ << >> \in Texts
    BY ByteAdded
  <2>2. a \in Texts /\ Len(a) = Len(t) + 1 /\ Len(t) \in Nat /\ a[Len(t) + 1] = e
        /\ \A i \in 1 .. Len(t) : a[i] = t[i]
    BY AppendProperties, LenProperties DEF Texts
  <2> HIDE DEF a
  <2>3. ASSUME Ascii(a) PROVE Reads(<< >>, a, a, << >>)
    <3>1. Ascii(t) /\ e < 128
      <4>1. \A i \in 1 .. Len(t) : i \in 1 .. Len(a)
        BY <2>2
      <4>2. Len(t) + 1 \in 1 .. Len(a)
        BY <2>2
      <4>3. QED
        BY <2>2, <2>3, <4>1, <4>2
    <3>2. Reads(<< >>, t, t, << >>)
      BY <1>2, <3>1
    <3>3. ASSUME NEW z \in Texts
          PROVE  Text[<< >> \o (r \o z)] = r \o Text[<< >> \o z]
      <4>1. SequenceLength(e) = 0
        <5> DEFINE k == SequenceLength(e)
        <5>1. k \in {0, 2, 3, 4} /\ (k > 0 => e >= 194) /\ e \in 0 .. 255
          BY Claims DEF Byte
        <5> HIDE DEF k
        <5>2. k = 0
          BY <3>1, <5>1
        <5>3. QED
          BY <5>2 DEF k
      <4>2. Text[r \o z] = r \o Text[z]
        BY <3>1, <4>1, TextOfByte DEF Texts
      <4> HIDE DEF r
      <4>3. << >> \o (r \o z) = r \o z /\ << >> \o z = z
        BY <2>1, Concats
      <4>4. QED
        BY <4>2, <4>3
    <3> HIDE DEF r
    <3>4. Reads(<< >>, r, r, << >>)
      BY <3>3 DEF Reads
    <3>5. Reads(<< >>, t \o r, t \o r, << >>)
      BY <2>1, <3>2, <3>4, ReadsOn
    <3>6. QED
      BY <2>1, <3>5
  <2>4. QED
    BY <2>2, <2>3 DEF a
<1>3. p \in T
  <2> HIDE DEF T
  <2>1. p \in Seq(Byte) /\ << >> \in T /\ \A t \in Seq(Byte) : t \in T => \A e \in Byte : Append(t, e) \in T
    BY <1>1, <1>2 DEF Texts
  <2>2. QED
    BY <2>1, ByAppend
<1>4. QED
  BY <1>3

LEMMA PrefixCloses ==
  ASSUME NEW p \in Texts, \A i \in 1 .. Len(p) : p[i] < 128, NEW r \in Texts
  PROVE  Closed(p \o r) = p \o Closed(r)
<1> DEFINE n == << LF >>
           c == Closed(r)
<1>1. c \in Texts /\ Reads(<< >>, r \o n, c \o n, << >>) /\ n \in Texts /\ << >> \in Texts
  BY LineCloses, LineFeed, Concats
<1>2. Reads(<< >>, p, p, << >>)
  BY AsciiReads
<1> HIDE DEF n, c
<1>3. r \o n \in Texts /\ c \o n \in Texts /\ p \o r \in Texts /\ p \o c \in Texts
      /\ p \o (r \o n) = (p \o r) \o n /\ p \o (c \o n) = (p \o c) \o n
  <2>1. r \o n \in Texts /\ c \o n \in Texts /\ p \o r \in Texts /\ p \o c \in Texts
    BY <1>1, Concats
  <2>2. Rebrackets(p, r, n) /\ Rebrackets(p, c, n)
    BY <1>1, Joins
  <2>3. QED
    BY <2>1, <2>2 DEF Rebrackets
<1>4. Reads(<< >>, p \o (r \o n), p \o (c \o n), << >>)
  BY <1>1, <1>2, <1>3, ReadsOn
<1>5. Reads(<< >>, (p \o r) \o n, (p \o c) \o n, << >>)
  BY <1>3, <1>4
<1>6. QED
  BY <1>3, <1>5, ReadsClosed DEF n, c

LEMMA NothingCloses == Closed(<< >>) = << >>
<1> DEFINE n == << LF >>
<1>1. n \in Texts /\ << >> \in Texts
  BY LineFeed, Concats
<1>2. ASSUME NEW z \in Texts
      PROVE  Text[<< >> \o (n \o z)] = n \o Text[<< >> \o z]
  <2>1. Text[n \o z] = n \o Text[z]
    BY LineFeed
  <2> HIDE DEF n
  <2>2. << >> \o (n \o z) = n \o z /\ << >> \o z = z
    BY <1>1, Concats
  <2>3. QED
    BY <2>1, <2>2
<1> HIDE DEF n
<1>3. Reads(<< >>, n, n, << >>)
  BY <1>2 DEF Reads
<1>4. << >> \o n = n
  BY <1>1, Concats
<1>5. Reads(<< >>, << >> \o n, << >> \o n, << >>)
  BY <1>3, <1>4
<1>6. QED
  BY <1>1, <1>5, ReadsClosed DEF n

(* More bytes, more text.                                                  *)
LEMMA TextGrows ==
  ASSUME NEW f \in Texts, NEW x \in Texts
  PROVE  \E y \in Texts : Text[f \o x] = Text[f] \o y
<1>1. PICK d, u : Decodes(<< >>, f, d, u)
  BY EveryText
<1>2. d \in Texts /\ u \in Texts /\ (u = << >> \/ Unfinished(u)) /\ Reads(<< >>, f, d, u) /\ << >> \in Texts
  BY <1>1, Concats DEF Decodes
<1>3. Text[u] = << >>
  BY <1>2, TextOfNothing
<1>4. Text[<< >> \o (f \o x)] = d \o Text[u \o x] /\ Text[<< >> \o (f \o << >>)] = d \o Text[u \o << >>]
  BY <1>2 DEF Reads
<1>5. u \o x \in Texts /\ f \o x \in Texts /\ << >> \o (f \o x) = f \o x
      /\ f \o << >> = f /\ << >> \o f = f /\ u \o << >> = u /\ d \o << >> = d
  <2>1. f \o x \in Texts
    BY Concats
  <2>2. QED
    BY <1>2, <2>1, Concats
<1>6. Text[u \o x] \in Texts
  BY <1>5, TextType
<1>7. QED
  BY <1>3, <1>4, <1>5, <1>6

(* A well-formed sequence reads as itself.                                 *)
LEMMA WellFormedReads ==
  ASSUME NEW g \in Texts, WellFormed(g)
  PROVE  /\ g # << >> /\ Len(g) = Claimed(g[1]) /\ \A i \in 2 .. Len(g) : g[i] \in Tails
         /\ Reads(<< >>, g, g, << >>)
<1>1. /\ g # << >> /\ Len(g) \in Nat /\ Len(g) >= 1
      /\ Len(g) = Claimed(g[1]) /\ \A i \in 2 .. Len(g) : g[i] \in Tails
  <2>1. g \in Seq(Byte) /\ Len(g) \in {1, 2, 3, 4}
    BY DEF WellFormed, Texts
  <2> DEFINE n == Len(g)
             a == g[1]
             b == g[2]
             c == g[3]
             d == g[4]
  <2>2. /\ n \in {1, 2, 3, 4}
        /\ \/ n = 1 /\ a < 128
           \/ n = 2 /\ a \in 194 .. 223 /\ b \in 128 .. 191
           \/ n = 3 /\ a \in 224 .. 239 /\ b \in 128 .. 191 /\ c \in 128 .. 191
           \/ n = 4 /\ a \in 240 .. 244 /\ b \in 128 .. 191 /\ c \in 128 .. 191 /\ d \in 128 .. 191
    BY <2>1 DEF WellFormed, Tails
  <2>3. g[2] = b /\ g[3] = c /\ g[4] = d /\ \A i \in 1 .. n : g[i] \in Byte
    BY <2>1, ElementOfSeq
  <2>4. Len(<< >>) = 0
    OBVIOUS
  <2>5. n # 0 => g # << >>
    BY <2>4
  <2> HIDE DEF n, b, c, d
  <2>6. n \in Nat /\ n >= 1 /\ n # 0 /\ 1 \in 1 .. n
    BY <2>2
  <2>7. a \in 0 .. 255
    BY <2>3, <2>6 DEF Byte
  <2>8. ASSUME NEW i \in 2 .. n PROVE g[i] \in 128 .. 191
    <3>1. (i = 2 /\ n >= 2) \/ (i = 3 /\ n >= 3) \/ (i = 4 /\ n = 4)
      BY <2>2
    <3>2. (n >= 2 => b \in 128 .. 191) /\ (n >= 3 => c \in 128 .. 191) /\ (n = 4 => d \in 128 .. 191)
      <4> HIDE DEF a
      <4>1. QED
        BY <2>2
    <3>3. QED
      BY <2>3, <3>1, <3>2
  <2>9. n = Claimed(a)
    <3> HIDE DEF a
    <3>1. QED
      BY <2>2, <2>7, SMT DEF Claimed
  <2>10. g # << >>
    BY <2>5, <2>6
  <2>11. QED
    BY <2>6, <2>8, <2>9, <2>10 DEF Tails, n
<1>2. ASSUME NEW z \in Texts
      PROVE  Text[<< >> \o (g \o z)] = g \o Text[<< >> \o z]
  <2> DEFINE y == g \o z
  <2>1. y \in Texts /\ << >> \o y = y /\ << >> \o z = z
    BY Concats
  <2>2. /\ y # << >> /\ y[1] = g[1] /\ GroupLength(y) = Len(g) /\ Group(y) = g /\ Behind(y) = z
    BY <1>1, FirstGroup DEF Texts
  <2> HIDE DEF y
  <2>3. Text[y] = TextStep(y, Text[z])
    BY <2>1, <2>2, TextEquation DEF Texts
  <2>4. ~(GroupLength(y) < Claimed(y[1]))
    BY <1>1, <2>2
  <2>5. Text[y] = g \o Text[z]
    BY <2>2, <2>3, <2>4 DEF TextStep, Character
  <2>6. QED
    BY <2>1, <2>5 DEF y
<1>3. Reads(<< >>, g, g, << >>)
  BY <1>2 DEF Reads
<1>4. QED
  BY <1>1, <1>3

(* Text that is well-formed reads as itself whatever follows.              *)
LEMMA Faithful ==
  ASSUME NEW s \in Texts, WellFormedText(s)
  PROVE  Reads(<< >>, s, s, << >>)
<1> DEFINE T == {t \in Texts : Text[t] = t => Reads(<< >>, t, t, << >>)}
<1>1. ASSUME NEW t \in Texts, \A r \in Texts : Len(r) < Len(t) => r \in T, Text[t] = t
      PROVE  Reads(<< >>, t, t, << >>)
  <2>1. CASE t = << >>
    <3>1. ASSUME NEW z \in Texts
          PROVE  Text[<< >> \o (<< >> \o z)] = << >> \o Text[<< >> \o z]
      BY Concats, TextType
    <3>2. Reads(<< >>, << >>, << >>, << >>)
      BY <3>1 DEF Reads
    <3>3. QED
      BY <2>1, <3>2
  <2>2. CASE t # << >>
    <3> DEFINE g == Group(t)
               r == Behind(t)
    <3>1. g \in Texts /\ r \in Texts /\ Len(r) < Len(t) /\ Len(g) = GroupLength(t)
      BY <2>2, BehindIsShorter DEF Texts
    <3>2. t = g \o r
      <4> DEFINE k == GroupLength(t)
                 n == Len(t)
      <4>1. k \in Nat /\ k <= n /\ n \in Nat /\ t \in Seq(Byte)
        <5>1. k \in 1 .. Claimed(t[1]) /\ k <= Len(t)
          BY <2>2, GroupExists DEF Texts, Groups
        <5>2. t[1] \in Byte
          BY <2>2, ElementOfSeq, EmptySeq, LenProperties DEF Texts
        <5>3. Claimed(t[1]) \in Int
          BY <5>2, SMT DEF Claimed
        <5>4. QED
          BY <5>1, <5>3, LenProperties DEF Texts
      <4> HIDE DEF k
      <4>2. SubSeq(t, 1, k) \o SubSeq(t, k + 1, n) = t
        <5>1. SubSeq(t, 1, k) \o SubSeq(t, k + 1, n) = SubSeq(t, 1, n)
          <6>1. 1 \in 1 .. n + 1 /\ k \in 1 - 1 .. n /\ n \in k .. n
            <7> HIDE DEF n
            <7>1. QED
              BY <4>1
          <6>2. QED
            BY <4>1, <6>1, ConcatAdjacentSubSeq
        <5>2. SubSeq(t, 1, n) = t
          BY <4>1, SubSeqFull
        <5>3. QED
          BY <5>1, <5>2
      <4>3. QED
        BY <4>2 DEF Group, Behind, k
    <3>3. Text[t] = TextStep(t, Text[r])
      BY <2>2, TextEquation DEF Texts
    <3>4. Text[t] = Character(g) \o Text[r]
      BY <1>1, <2>2, <3>3 DEF TextStep
    <3>5. Text[r] \in Texts
      BY <3>1, TextType
    <3>6. WellFormed(g)
      <4> SUFFICES ASSUME ~WellFormed(g) PROVE FALSE
        OBVIOUS
      <4>1. t = Replacement \o Text[r]
        BY <1>1, <3>4 DEF Character
      <4>2. /\ Replacement \in Texts /\ WellFormed(Replacement)
        <5>1. WellFormed(Replacement)
          BY DEF WellFormed, Replacement, Tails
        <5>2. QED
          BY <5>1, ReplacementPlain
      <4>3. Replacement # << >> /\ Len(Replacement) = Claimed(Replacement[1])
            /\ \A i \in 2 .. Len(Replacement) : Replacement[i] \in Tails
        BY <4>2, WellFormedReads
      <4>4. Group(Replacement \o Text[r]) = Replacement
        <5> DEFINE y == Text[r]
                   q == Replacement
        <5>1. y \in Seq(Byte) /\ q \in Seq(Byte) /\ q # << >> /\ Len(q) <= Claimed(q[1])
              /\ Len(q) = Claimed(q[1]) /\ \A i \in 2 .. Len(q) : q[i] \in Tails
          <6>1. Len(q) \in Nat
            BY <4>2, LenProperties DEF Texts
          <6> HIDE DEF q
          <6>2. QED
            BY <3>5, <4>2, <4>3, <6>1 DEF Texts, q
        <5> HIDE DEF y, q
        <5>2. Group(q \o y) = q
          BY <5>1, FirstGroup
        <5>3. QED
          BY <5>2 DEF q, y
      <4>5. QED
        BY <4>1, <4>2, <4>4
    <3>7. g \o Text[r] = g \o r
      BY <1>1, <3>2, <3>4, <3>6 DEF Character
    <3>8. Text[r] = r
      BY <3>1, <3>5, <3>7, SameParts
    <3>9. Reads(<< >>, r, r, << >>)
      BY <1>1, <3>1, <3>8
    <3>10. Reads(<< >>, g, g, << >>)
      BY <3>1, <3>6, WellFormedReads
    <3> HIDE DEF g, r
    <3>11. Reads(<< >>, g \o r, g \o r, << >>)
      BY <3>1, <3>9, <3>10, Concats, ReadsOn
    <3>12. QED
      BY <3>2, <3>11
  <2>3. QED
    BY <2>1, <2>2
<1>2. s \in T
  <2>1. \A t \in Seq(Byte) : (\A r \in Seq(Byte) : Len(r) < Len(t) => r \in T) => t \in T
    BY <1>1 DEF Texts
  <2> HIDE DEF T
  <2>2. QED
    BY <2>1, ByLength DEF Texts
<1>3. QED
  BY <1>2 DEF WellFormedText

LEMMA FaithfulCloses ==
  ASSUME NEW s \in Texts, WellFormedText(s)
  PROVE  Closed(s) = s
<1> DEFINE n == << LF >>
<1>1. Reads(<< >>, s, s, << >>) /\ n \in Texts /\ << >> \in Texts
  BY Faithful, LineFeed, Concats
<1>2. ASSUME NEW z \in Texts
      PROVE  Text[<< >> \o (n \o z)] = n \o Text[<< >> \o z]
  <2>1. Text[n \o z] = n \o Text[z]
    BY LineFeed
  <2> HIDE DEF n
  <2>2. << >> \o (n \o z) = n \o z /\ << >> \o z = z
    BY <1>1, Concats
  <2>3. QED
    BY <2>1, <2>2
<1> HIDE DEF n
<1>3. Reads(<< >>, n, n, << >>)
  BY <1>2 DEF Reads
<1>4. Reads(<< >>, s \o n, s \o n, << >>)
  BY <1>1, <1>3, ReadsOn
<1>5. QED
  BY <1>4, ReadsClosed DEF n

(* So do the lines of such text, one after the other.                      *)
LEMMA FaithfulLine ==
  ASSUME NEW l \in Texts, Plain(l), NEW y \in Texts, WellFormedText((l \o << LF >>) \o y)
  PROVE  Closed(l) = l /\ WellFormedText(y)
<1> DEFINE n == << LF >>
           c == Closed(l)
<1>1. n \in Texts /\ << >> \in Texts /\ c \in Texts /\ Plain(c) /\ Reads(<< >>, l \o n, c \o n, << >>)
  BY LineFeed, Concats, LineCloses
<1>2. Text[y] \in Texts
  BY TextType
<1>3. Text[(l \o n) \o y] = (l \o n) \o y
  BY DEF WellFormedText
<1> HIDE DEF n, c
<1>4. Text[<< >> \o ((l \o n) \o y)] = (c \o n) \o Text[<< >> \o y]
  BY <1>1 DEF Reads
<1> DEFINE w == Text[y]
<1>5. w \in Texts
  BY <1>2
<1>6. << >> \o ((l \o n) \o y) = (l \o n) \o y /\ << >> \o y = y
  <2>1. l \o n \in Texts
    BY <1>1, Concats
  <2>2. (l \o n) \o y \in Texts
    BY <2>1, Concats
  <2>3. QED
    BY <2>2, Concats
<1>7. (c \o n) \o w = (l \o n) \o y
  BY <1>3, <1>4, <1>6
<1> HIDE DEF w
<1>8. (c \o n) \o w = c \o (n \o w) /\ (l \o n) \o y = l \o (n \o y)
  <2>1. Rebrackets(c, n, w) /\ Rebrackets(l, n, y)
    BY <1>1, <1>5, Joins
  <2>2. QED
    BY <2>1 DEF Rebrackets
<1>9. c = l /\ w = y
  BY <1>1, <1>5, <1>7, <1>8, FirstLine DEF n
<1>10. QED
  BY <1>9 DEF c, w, WellFormedText

-----------------------------------------------------------------------------
(***************************************************************************)
(* What the parser makes of a line that the writer sends.                  *)
(***************************************************************************)

(* A field that the writer sends has the name and the value it was given.  *)
LEMMA WireField ==
  ASSUME NEW p, NEW name \in Fields, Introduces(p, name), NEW c \in Texts
  PROVE  /\ p \o c \in Texts /\ p \o c # << >> /\ (Plain(c) => Plain(p \o c))
         /\ Len(p \o c) = Len(p) + Len(c)
         /\ FieldName(p \o c) = name /\ FieldValue(p \o c) = c
<1> DEFINE l == p \o c
           k == Len(name)
           n == Len(c)
<1>1. /\ name \in Texts /\ k \in Nat /\ p \in Texts /\ Len(p) = k + 2 /\ n \in Nat
      /\ p[k + 1] = COLON /\ p[k + 2] = SPACE /\ \A i \in 1 .. k : p[i] = name[i]
      /\ Plain(p)
  BY FieldNames, LenProperties DEF Introduces, Texts, Plain
<1>2. /\ l \in Texts /\ Len(l) = Len(p) + n
      /\ \A i \in 1 .. Len(p) + n : l[i] = IF i <= Len(p) THEN p[i] ELSE c[i - Len(p)]
  BY <1>1, ConcatParts DEF Texts
<1>3. Plain(c) => Plain(l)
  BY <1>1, PlainParts
<1>4. Len(<< >>) = 0 /\ Len(c) = n
  OBVIOUS
<1> HIDE DEF l, k, n
<1>5. /\ Len(l) = k + 2 + n /\ l # << >> /\ l[k + 1] = COLON /\ l[k + 2] = SPACE
      /\ \A i \in 1 .. k : l[i] = name[i]
      /\ \A i \in 1 .. n : l[k + 2 + i] = c[i]
  <2>1. Len(l) = k + 2 + n /\ l # << >>
    BY <1>1, <1>2, <1>4
  <2>2. \A i \in 1 .. k + 2 : i \in 1 .. Len(p) + n /\ i <= Len(p)
    BY <1>1
  <2>3. \A i \in 1 .. k + 2 : l[i] = p[i]
    BY <1>2, <2>2
  <2>4. k + 1 \in 1 .. k + 2 /\ k + 2 \in 1 .. k + 2 /\ \A i \in 1 .. k : i \in 1 .. k + 2
    BY <1>1
  <2>5. \A i \in 1 .. n : k + 2 + i \in 1 .. Len(p) + n /\ ~(k + 2 + i <= Len(p))
                          /\ (k + 2 + i) - Len(p) = i
    BY <1>1
  <2>6. \A i \in 1 .. n : l[k + 2 + i] = c[i]
    BY <1>2, <2>5
  <2>7. QED
    BY <1>1, <2>1, <2>3, <2>4, <2>6
<1>6. HasField(l, name)
  <2> DEFINE q == name \o << COLON >>
  <2>1. COLON \in Byte
    BY DEF COLON, Byte
  <2>2. q = Append(name, COLON) /\ q \in Seq(Byte)
    BY <1>1, <2>1, OneByte, AppendProperties DEF Texts
  <2>3. /\ Len(q) = k + 1 /\ q[k + 1] = COLON /\ \A i \in 1 .. k : q[i] = name[i]
    BY <1>1, <2>1, <2>2, AppendProperties DEF Texts, k
  <2> HIDE DEF q
  <2>4. \A i \in 1 .. k + 1 : i \in 1 .. k \/ i = k + 1
    BY <1>1
  <2>5. Len(q) <= Len(l) /\ \A i \in 1 .. Len(q) : q[i] = l[i]
    BY <1>1, <1>5, <2>3, <2>4
  <2>6. IsPrefix(q, l)
    BY <1>2, <2>2, <2>5, PrefixMeans DEF Texts
  <2>7. QED
    BY <2>6 DEF HasField, q
<1>7. FieldName(l) = name /\ FieldValue(l) = ValueOf(l, name)
  BY <1>2, <1>6, FieldFound DEF Texts
<1>8. ValueOf(l, name) = c
  <2> DEFINE m == Len(l)
             rest == SubSeq(l, k + 2, m)
             one == << SPACE >>
  <2>1. /\ rest \in Seq(Byte) /\ Len(rest) = n + 1
        /\ \A i \in 1 .. n + 1 : rest[i] = l[k + 1 + i]
    <3>1. /\ k + 2 \in 1 .. m + 1 /\ m \in 0 .. m /\ k + 2 <= m /\ m - (k + 2) + 1 = n + 1
          /\ k + 2 \in Int /\ m \in Int /\ \A i \in (k + 2) .. m : i \in 1 .. m
      <4>1. m = k + 2 + n
        BY <1>5
      <4> HIDE DEF m
      <4>2. QED
        BY <1>1, <4>1
    <3>2. l \in Seq(Byte) /\ \A i \in 1 .. m : l[i] \in Byte
      BY <1>2, ElementOfSeq DEF Texts
    <3>3. \A i \in (k + 2) .. m : l[i] \in Byte
      BY <3>1, <3>2
    <3> HIDE DEF m
    <3>4. /\ rest \in Seq(Byte) /\ Len(rest) = m - (k + 2) + 1
          /\ \A i \in 1 .. m - (k + 2) + 1 : rest[i] = l[(k + 2) + i - 1]
      BY <3>1, <3>3, SubSeqProperties
    <3> HIDE DEF rest
    <3>5. \A i \in 1 .. n + 1 : (k + 2) + i - 1 = k + 1 + i
      BY <1>1
    <3>6. QED
      BY <3>1, <3>4, <3>5
  <2> HIDE DEF m, rest
  <2>2. rest[1] = SPACE /\ \A i \in 1 .. n : rest[i + 1] = c[i]
    <3>1. 1 \in 1 .. n + 1 /\ k + 1 + 1 = k + 2
      BY <1>1
    <3>2. \A i \in 1 .. n : i + 1 \in 1 .. n + 1 /\ k + 1 + (i + 1) = k + 2 + i
      BY <1>1
    <3>3. QED
      BY <1>5, <2>1, <3>1, <3>2
  <2>3. IsPrefix(one, rest)
    <3>1. SPACE \in Byte
      BY DEF SPACE, Byte
    <3>2. one \in Seq(Byte) /\ Len(one) = 1 /\ one[1] = SPACE
      BY <3>1, OneByte DEF Texts
    <3> HIDE DEF one
    <3>3. Len(one) <= Len(rest) /\ \A i \in 1 .. Len(one) : one[i] = rest[i]
      BY <1>1, <2>1, <2>2, <3>2
    <3>4. QED
      BY <2>1, <3>2, <3>3, PrefixMeans
  <2>4. Tail(rest) = c
    <3>1. rest # << >>
      BY <1>1, <1>4, <2>1
    <3>2. /\ Tail(rest) \in Seq(Byte) /\ Len(Tail(rest)) = Len(rest) - 1
          /\ \A i \in 1 .. Len(Tail(rest)) : Tail(rest)[i] = rest[i + 1]
      BY <2>1, <3>1, HeadTailProperties
    <3>3. Len(Tail(rest)) = Len(c) /\ Len(c) = n
      BY <1>1, <1>4, <2>1, <3>2
    <3> DEFINE w == Tail(rest)
    <3> HIDE DEF w
    <3>4. w \in Seq(Byte) /\ c \in Seq(Byte) /\ Len(w) = Len(c) /\ \A i \in 1 .. Len(w) : w[i] = c[i]
      BY <2>2, <3>2, <3>3 DEF w, Texts
    <3>5. w = c
      BY <3>4, SeqEqual
    <3>6. QED
      BY <3>5 DEF w
  <2>5. QED
    BY <2>3, <2>4 DEF ValueOf, rest, m, k, one
<1>9. QED
  BY <1>2, <1>3, <1>4, <1>5, <1>7, <1>8 DEF l

(* A keepalive is a comment, a line without a field name.                  *)
LEMMA PingLine ==
  /\ Ping \in Texts /\ Plain(Ping) /\ Ping # << >> /\ FieldName(Ping) = << >> /\ Len(Ping) = 6
  /\ Ping[1] # 239 /\ \A i \in 1 .. Len(Ping) : Ping[i] < 128
<1> DEFINE p == Ping
           none == << >>
           one == << COLON >>
<1>1. /\ p \in Seq(Byte) /\ Len(p) = 6 /\ p[1] = 58 /\ p[2] = 32 /\ p[3] = 112
      /\ p[4] = 105 /\ p[5] = 110 /\ p[6] = 103
  BY DEF Ping, Byte
<1>2. COLON = 58 /\ COLON \in Byte
  BY DEF COLON, Byte
<1>3. one \in Texts /\ Len(one) = 1 /\ one[1] = COLON /\ none \in Texts /\ none \o one = one
      /\ Len(none) = 0
  <2>1. one \in Texts /\ Len(one) = 1 /\ one[1] = COLON
    BY <1>2, OneByte
  <2> HIDE DEF one
  <2>2. none \in Texts /\ none \o one = one
    BY <2>1, Concats
  <2>3. Len(none) = 0
    OBVIOUS
  <2>4. QED
    BY <2>1, <2>2, <2>3
<1> HIDE DEF p, none, one
<1>4. \A i \in 1 .. Len(p) : p[i] \in {58, 32, 112, 105, 110, 103}
  <2>1. \A i \in 1 .. 6 : i \in {1, 2, 3, 4, 5, 6}
    OBVIOUS
  <2>2. QED
    BY <1>1, <2>1
<1>5. Plain(p) /\ \A i \in 1 .. Len(p) : p[i] < 128
  BY <1>4 DEF Plain, LF, CR
<1>6. p # << >> /\ p[1] # 239
  <2>1. Len(p) # Len(none)
    BY <1>1, <1>3
  <2>2. p # none
    BY <2>1
  <2>3. p[1] # 239
    BY <1>1
  <2>4. QED
    BY <2>2, <2>3 DEF none
<1>7. IsPrefix(one, p)
  <2>1. Len(one) <= Len(p) /\ \A i \in 1 .. Len(one) : one[i] = p[i]
    BY <1>1, <1>2, <1>3
  <2>2. QED
    BY <1>1, <1>3, <2>1, PrefixMeans DEF Texts
<1>8. HasField(p, none)
  BY <1>3, <1>7 DEF HasField, one
<1>9. FieldName(p) = none
  <2>1. none \in Seq(Byte) /\ \A i \in 1 .. Len(none) : none[i] # COLON
    BY <1>3 DEF Texts
  <2>2. QED
    BY <1>1, <1>8, <2>1, Named
<1>10. QED
  BY <1>1, <1>5, <1>6, <1>9 DEF p, none, Texts

-----------------------------------------------------------------------------
(***************************************************************************)
(* What has been sent.  The bytes b are whole lines: they read as the text *)
(* d, whatever follows them, and d is the lines L.                         *)
(***************************************************************************)

Sent(b, d, L) ==
  /\ b \in Texts /\ d \in Texts /\ L \in Seq(Texts)
  /\ Reads(<< >>, b, d, << >>)
  /\ LinesOf[d] = Append(L, << >>)
  /\ d # << >> => Last(d) = LF

LEMMA NothingSent == Sent(<< >>, << >>, << >>)
<1>1. << >> \in Texts /\ << >> \in Seq(Texts)
  BY Concats, NothingYet
<1>2. ASSUME NEW z \in Texts
      PROVE  Text[<< >> \o (<< >> \o z)] = << >> \o Text[<< >> \o z]
  BY Concats, TextType
<1>3. Reads(<< >>, << >>, << >>, << >>)
  BY <1>2 DEF Reads
<1>4. QED
  BY <1>1, <1>3, NothingYet DEF Sent

(* One line more.                                                          *)
LEMMA SentLine ==
  ASSUME NEW b, NEW d, NEW L, Sent(b, d, L), NEW r \in Texts, Plain(r),
         NEW c, c = Closed(r)
  PROVE  /\ c \in Texts
         /\ Sent(b \o (r \o << LF >>), d \o (c \o << LF >>), Append(L, c))
<1> DEFINE n == << LF >>
<1>1. /\ n \in Texts /\ << >> \in Texts /\ LF \in Byte
      /\ \A t \in Texts : Append(t, LF) = t \o n
  BY LineFeed, OneByte, Concats
<1>2. c \in Texts /\ Plain(c) /\ Reads(<< >>, r \o n, c \o n, << >>)
  BY LineCloses
<1>3. b \in Texts /\ d \in Texts /\ L \in Seq(Texts) /\ Reads(<< >>, b, d, << >>)
      /\ LinesOf[d] = Append(L, << >>) /\ (d # << >> => Last(d) = LF)
  BY DEF Sent
<1> HIDE DEF n
<1>4. r \o n \in Texts /\ c \o n \in Texts /\ d \o c \in Texts
  BY <1>1, <1>2, <1>3, Concats
<1>5. b \o (r \o n) \in Texts /\ d \o (c \o n) \in Texts
  BY <1>3, <1>4, Concats
<1>6. Reads(<< >>, b \o (r \o n), d \o (c \o n), << >>)
  BY <1>1, <1>2, <1>3, <1>4, ReadsOn
<1> DEFINE t == d \o c
<1>7. d \o (c \o n) = t \o n
  BY <1>1, <1>2, <1>3, Concats, ZenonT(60)
<1>8. LinesOf[t] = Append(L, c)
  <2>1. LinesOf[t] = Append(L, << >> \o c)
    <3> DEFINE e == << >>
    <3>1. d \in Seq(Byte) /\ c \in Seq(Byte) /\ e \in Texts /\ LinesOf[d] = Append(L, e)
          /\ \A i \in 1 .. Len(c) : c[i] \notin {LF, CR}
      BY <1>1, <1>2, <1>3 DEF Texts, Plain
    <3> HIDE DEF e
    <3>2. LinesOf[d \o c] = Append(L, e \o c)
      BY <1>3, <3>1, LinesOfPlain
    <3>3. QED
      BY <3>2 DEF e
  <2>2. << >> \o c = c
    BY <1>2, Concats
  <2>3. QED
    BY <2>1, <2>2
<1>9. ~(t # << >> /\ Last(t) = CR)
  <2>1. CASE c = << >>
    <3>1. t = d
      BY <1>3, <2>1, Concats
    <3>2. LF # CR
      BY DEF LF, CR
    <3>3. QED
      BY <1>3, <3>1, <3>2
  <2>2. CASE c # << >>
    <3>1. Len(c) \in Nat /\ Len(c) # 0 /\ Len(d) \in Nat
      BY <1>2, <1>3, <2>2, LenProperties, EmptySeq DEF Texts
    <3>2. Len(t) = Len(d) + Len(c)
          /\ \A i \in 1 .. Len(d) + Len(c) : t[i] = IF i <= Len(d) THEN d[i] ELSE c[i - Len(d)]
      BY <1>2, <1>3, ConcatParts DEF Texts
    <3> DEFINE m == Len(d)
               k == Len(c)
    <3> HIDE DEF t
    <3>3. Last(t) = c[Len(c)]
      <4>1. Last(t) = t[Len(t)]
        BY DEF Last
      <4>2. Len(t) \in 1 .. Len(d) + Len(c) /\ ~(Len(t) <= Len(d)) /\ Len(t) - Len(d) = Len(c)
        BY <3>1, <3>2
      <4>3. QED
        BY <3>2, <4>1, <4>2
    <3>4. c[Len(c)] \notin {LF, CR}
      <4>1. Len(c) \in 1 .. Len(c)
        BY <3>1
      <4>2. QED
        BY <1>2, <4>1 DEF Plain
    <3>5. QED
      BY <3>3, <3>4
  <2>3. QED
    BY <2>1, <2>2
<1>10. t \in Texts
  BY <1>4
<1> HIDE DEF t
<1>11. LinesOf[t \o n] = Append(Append(L, c), << >>)
  <2>1. LinesOf[Append(t, LF)] = Append(Append(L, c), << >>)
    <3>1. t \in Seq(Byte)
      BY <1>10 DEF Texts
    <3>2. LinesOf[Append(t, LF)] =
            IF LF = LF /\ t # << >> /\ Last(t) = CR THEN Append(L, c)
            ELSE IF LF \in {LF, CR} THEN Append(Append(L, c), << >>)
            ELSE Append(L, Append(c, LF))
      BY <1>1, <1>2, <1>3, <1>8, <3>1, LinesOfByte
    <3>3. QED
      BY <1>9, <3>2
  <2>2. QED
    BY <1>1, <1>10, <2>1
<1>12. Last(t \o n) = LF
  <2>1. Last(Append(t, LF)) = LF
    BY <1>1, <1>10, Fronts DEF Texts
  <2>2. QED
    BY <1>1, <1>10, <2>1
<1>13. Append(L, c) \in Seq(Texts)
  BY <1>2, <1>3, OneMore
<1> DEFINE bb == b \o (r \o n)
           dd == d \o (c \o n)
<1>14. /\ bb \in Texts /\ dd \in Texts /\ Reads(<< >>, bb, dd, << >>)
       /\ LinesOf[dd] = Append(Append(L, c), << >>) /\ Last(dd) = LF
  BY <1>5, <1>6, <1>7, <1>11, <1>12
<1> HIDE DEF bb, dd
<1>15. Sent(bb, dd, Append(L, c))
  BY <1>13, <1>14 DEF Sent
<1>16. QED
  BY <1>2, <1>15 DEF n, bb, dd

-----------------------------------------------------------------------------
(***************************************************************************)
(* What the lines mean: the events so far, no event id, and an open block  *)
(* with event type ty whose frame is x.                                    *)
(***************************************************************************)

Means(A, E, ty, x) ==
  /\ EventsOf[A] = E /\ StreamId(A) = << >>
  /\ EventType(OpenBlock(A)) = ty /\ OpenData(A) = x

Fits(A) == ~TooLong(Append(A, << >>)) /\ ~TooLarge(Append(A, << >>))

LEMMA LineMeans ==
  ASSUME NEW A \in Seq(Texts), NEW E, NEW ty, NEW x, Means(A, E, ty, x),
         NEW l \in Texts, l # << >>, NEW B, B = Append(A, l), NEW v, v = FieldValue(l),
         NEW n, n = FieldName(l)
  PROVE  /\ n = DataName => Means(B, E, ty, x \o v \o << LF >>) /\ HasData(OpenBlock(B))
         /\ n = EventName =>
              Means(B, E, v, x) /\ (HasData(OpenBlock(B)) <=> HasData(OpenBlock(A)))
         /\ n = << >> =>
              Means(B, E, ty, x) /\ (HasData(OpenBlock(B)) <=> HasData(OpenBlock(A)))
<1>1. Adds(A, n, v, B)
  BY FieldLine
<1>2. /\ DataName # EventName /\ DataName # IdName /\ EventName # IdName
      /\ << >> # DataName /\ << >> # EventName /\ << >> # IdName
  BY FieldNames DEF Fields
<1> DEFINE e == << >>
<1>3. e # DataName /\ e # EventName /\ e # IdName
  BY <1>2
<1> HIDE DEF e
<1>4. n = DataName => Means(B, E, ty, x \o v \o << LF >>) /\ HasData(OpenBlock(B))
  BY <1>1, <1>2 DEF Adds, Means
<1>5. n = EventName => Means(B, E, v, x) /\ (HasData(OpenBlock(B)) <=> HasData(OpenBlock(A)))
  BY <1>1, <1>2 DEF Adds, Means
<1>6. n = e => Means(B, E, ty, x) /\ (HasData(OpenBlock(B)) <=> HasData(OpenBlock(A)))
  BY <1>1, <1>3 DEF Adds, Means
<1>7. QED
  BY <1>4, <1>5, <1>6 DEF e

LEMMA LineFits ==
  ASSUME NEW A \in Seq(Texts), Fits(A), NEW l \in Texts, ~Exceeds(MaxLine, Len(l)),
         NEW B, B = Append(A, l), ~Exceeds(MaxFrame, Len(OpenData(B)))
  PROVE  Fits(B)
<1> DEFINE e == << >>
<1>1. e \in Texts /\ Len(e) = 0 /\ ~Exceeds(MaxLine, Len(e))
  BY Concats, LimitsAssumption DEF Exceeds
<1>2. ~TooLong(Append(A, e)) /\ ~TooLarge(Append(A, e))
  BY DEF Fits
<1> HIDE DEF e
<1>3. TooLong(Append(A, l)) <=> Exceeds(MaxLine, Len(l))
  BY <1>1, <1>2, LimitsOfMore
<1>4. ~TooLarge(Append(A, l))
  BY <1>1, <1>2, LimitsOfMore
<1>5. ~TooLong(Append(A, l))
  BY <1>3
<1>6. /\ TooLong(Append(Append(A, l), e)) <=> Exceeds(MaxLine, Len(e))
      /\ TooLarge(Append(Append(A, l), e)) <=> Exceeds(MaxFrame, Len(OpenData(Append(A, l))))
  BY <1>1, <1>4, <1>5, LimitsOfMore
<1>7. QED
  BY <1>1, <1>6 DEF Fits, e

(* A field goes out as one line.                                           *)
IsSent(b, L) == \E d : Sent(b, d, L)

IsField(l, name, v) == FieldName(l) = name /\ FieldValue(l) = v

LEMMA FieldSent ==
  ASSUME NEW b, NEW d, NEW A, Sent(b, d, A), NEW p, NEW name \in Fields, Introduces(p, name),
         NEW r \in Texts, Plain(r), NEW c, c = Closed(r), NEW l, l = p \o c
  PROVE  /\ c \in Texts /\ l \in Texts /\ l # << >> /\ Len(l) = Len(p) + Len(c)
         /\ IsField(l, name, c)
         /\ IsSent(b \o WireLine(p, r), Append(A, l))
<1> DEFINE q == p \o r
           n == << LF >>
<1>1. p \in Texts /\ Plain(p) /\ \A i \in 1 .. Len(p) : p[i] < 128
  BY DEF Introduces, Plain
<1>2. c \in Texts /\ Plain(c)
  BY LineCloses
<1>3. q \in Texts /\ Plain(q)
  BY <1>1, Concats, PlainParts
<1>4. Closed(q) = l
  BY <1>1, PrefixCloses
<1>5. WireLine(p, r) = q \o n
  BY DEF WireLine, NewLine, LF
<1> HIDE DEF q
<1>6. Sent(b \o (q \o n), d \o (l \o n), Append(A, l))
  BY <1>3, <1>4, SentLine
<1>7. QED
  BY <1>2, <1>5, <1>6, WireField DEF IsSent, IsField

LEMMA NamesIntroduced ==
  /\ DataName \in Fields /\ Introduces(DataPrefix, DataName)
  /\ EventName \in Fields /\ Introduces(EventPrefix, EventName)
BY WirePrefixes DEF Fields

(***************************************************************************)
(* The data lines N of an event have gone out, behind the lines A0: k is   *)
(* the part of the data they are, an LF behind each.                       *)
(***************************************************************************)

Kept(l) == Closed(l) = l /\ ~Exceeds(MaxLine, Len(DataPrefix) + Len(l))

Carried(b, E, ty, k, A0, N) ==
  \E d, A, x :
    /\ k \in Texts /\ x \in Texts /\ Sent(b, d, A) /\ Means(A, E, ty, x)
    /\ HasData(OpenBlock(A)) <=> N # << >>
    /\ Reads(<< >>, k, x, << >>)
    /\ Fits(A0) /\ (\A i \in DOMAIN N : Kept(N[i])) /\ ~Exceeds(MaxFrame, Len(k)) =>
         x = k /\ Fits(A)

LEMMA CarriedLine ==
  ASSUME NEW b, NEW E, NEW ty, NEW k, NEW A0, NEW N \in Seq(Texts),
         Carried(b, E, ty, k, A0, N), NEW r \in Texts, Plain(r)
  PROVE  Carried(b \o WireLine(DataPrefix, r), E, ty, k \o (r \o << LF >>), A0, Append(N, r))
<1>1. PICK d, A, x :
        /\ k \in Texts /\ x \in Texts /\ Sent(b, d, A) /\ Means(A, E, ty, x)
        /\ HasData(OpenBlock(A)) <=> N # << >>
        /\ Reads(<< >>, k, x, << >>)
        /\ Fits(A0) /\ (\A i \in DOMAIN N : Kept(N[i])) /\ ~Exceeds(MaxFrame, Len(k)) =>
             x = k /\ Fits(A)
  BY DEF Carried
<1> DEFINE n == << LF >>
           c == Closed(r)
           l == DataPrefix \o c
           B == Append(A, l)
           bb == b \o WireLine(DataPrefix, r)
           kk == k \o (r \o n)
           xx == x \o (c \o n)
           M == Append(N, r)
<1>2. /\ c \in Texts /\ l \in Texts /\ l # << >> /\ Len(l) = Len(DataPrefix) + Len(c)
      /\ FieldName(l) = DataName /\ FieldValue(l) = c
      /\ IsSent(bb, B)
  <2>1. c = Closed(r) /\ l = DataPrefix \o c
    OBVIOUS
  <2>2. DataName \in Fields /\ Introduces(DataPrefix, DataName) /\ Sent(b, d, A)
    BY <1>1, NamesIntroduced
  <2> HIDE DEF c, l
  <2>3. c \in Texts /\ l \in Texts /\ l # << >> /\ Len(l) = Len(DataPrefix) + Len(c)
    BY <2>1, <2>2, FieldSent
  <2>4. FieldName(l) = DataName /\ FieldValue(l) = c
    <3>1. IsField(l, DataName, c)
      BY <2>1, <2>2, FieldSent
    <3>2. QED
      BY <3>1 DEF IsField
  <2>5. IsSent(bb, B)
    BY <2>1, <2>2, FieldSent
  <2>6. QED
    BY <2>3, <2>4, <2>5
<1>3. n \in Texts /\ Len(n) = 1 /\ << >> \in Texts
  BY LineFeed, OneByte, Concats
<1>4. A \in Seq(Texts)
  BY <1>1 DEF Sent
<1>5. Reads(<< >>, r \o n, c \o n, << >>)
  BY LineCloses
<1> HIDE DEF n, c, l
<1>6. r \o n \in Texts /\ c \o n \in Texts
  BY <1>2, <1>3, Concats
<1>7. kk \in Texts /\ xx \in Texts /\ (x \o c) \o n = xx
  <2>1. kk \in Texts
    BY <1>1, <1>6, Concats
  <2>2. x \in Texts /\ c \in Texts /\ n \in Texts
    BY <1>1, <1>2, <1>3
  <2>3. xx \in Texts
    BY <1>6, <2>2, Concats
  <2>4. (x \o c) \o n = xx
    BY <2>2, Concats
  <2>5. QED
    BY <2>1, <2>3, <2>4
<1>8. Reads(<< >>, kk, xx, << >>)
  BY <1>1, <1>3, <1>5, <1>6, ReadsOn
<1>9. Means(B, E, ty, xx) /\ HasData(OpenBlock(B))
  <2>1. Means(B, E, ty, x \o c \o << LF >>) /\ HasData(OpenBlock(B))
    <3> HIDE DEF B
    <3>1. B = Append(A, l) /\ c = FieldValue(l) /\ FieldName(l) = DataName
      BY <1>2 DEF B
    <3>2. QED
      BY <1>1, <1>2, <1>4, <3>1, LineMeans
  <2>2. QED
    BY <1>7, <2>1 DEF n
<1>10. M # << >> /\ DOMAIN N = 1 .. Len(N) /\ DOMAIN M = 1 .. Len(N) + 1 /\ Len(N) \in Nat
       /\ M[Len(N) + 1] = r /\ \A i \in 1 .. Len(N) : M[i] = N[i]
  <2>1. M # << >>
    BY Fronts
  <2>2. QED
    BY <2>1, OneMore
<1> HIDE DEF M
<1>11. ASSUME Fits(A0), \A i \in DOMAIN M : Kept(M[i]), ~Exceeds(MaxFrame, Len(kk))
       PROVE  xx = kk /\ Fits(B)
  <2>1. Kept(r) /\ \A i \in DOMAIN N : Kept(N[i])
    <3>1. Len(N) + 1 \in DOMAIN M /\ \A i \in 1 .. Len(N) : i \in DOMAIN M
      BY <1>10
    <3>2. QED
      BY <1>10, <1>11, <3>1
  <2>2. Len(kk) = Len(k) + Len(r \o n) /\ Len(r \o n) \in Nat /\ Len(k) \in Nat /\ MaxFrame \in Nat
    BY <1>1, <1>6, ConcatParts, LenProperties, LimitsAssumption DEF Texts
  <2>3. ~Exceeds(MaxFrame, Len(k))
    <3> HIDE DEF kk
    <3>1. QED
      BY <1>11, <2>2 DEF Exceeds
  <2>4. x = k /\ Fits(A)
    BY <1>1, <1>11, <2>1, <2>3
  <2>5. c = r
    BY <2>1 DEF Kept, c
  <2>6. xx = kk
    BY <2>4, <2>5
  <2>7. ~Exceeds(MaxLine, Len(l))
    BY <1>2, <2>1, <2>5 DEF Kept
  <2>8. ~Exceeds(MaxFrame, Len(OpenData(B)))
    BY <1>9, <1>11, <2>6 DEF Means
  <2>9. Fits(B)
    BY <1>2, <1>4, <2>4, <2>7, <2>8, LineFits
  <2>10. QED
    BY <2>6, <2>9
<1>12. PICK e : Sent(bb, e, B)
  BY <1>2 DEF IsSent
<1> HIDE DEF B, bb, kk, xx
<1>13. Carried(bb, E, ty, kk, A0, M)
  BY <1>7, <1>8, <1>9, <1>10, <1>11, <1>12 DEF Carried
<1>14. QED
  BY <1>13 DEF bb, kk, M, n

-----------------------------------------------------------------------------
(***************************************************************************)
(* The lines of the data, byte by byte.                                    *)
(***************************************************************************)

NoLf(s) == \A i \in 1 .. Len(s) : s[i] # LF

NoCrs(lines) == \A i \in DOMAIN lines : ~Contains(lines[i], Return)

LEMMA SplitByte ==
  ASSUME NEW t \in Texts, NEW N \in Seq(Texts), NEW l \in Texts, DataLines[t] = Append(N, l),
         NEW e \in Byte
  PROVE  DataLines[Append(t, e)] =
           IF e = LF THEN Append(Append(N, l), << >>) ELSE Append(N, Append(l, e))
<1> DEFINE a == Append(t, e)
           M == Append(N, l)
<1>1. a \in Texts /\ a # << >> /\ Front(a) = t /\ Last(a) = e
  BY Fronts, ZenonT(60) DEF Texts
<1>2. Front(M) = N /\ Last(M) = l
  BY Fronts
<1>3. LF = NewLine
  BY DEF LF, NewLine
<1> HIDE DEF a, M
<1>4. DataLines[a] = SplitStep(a, DataLines[t])
  BY <1>1, DataLinesEquation
<1>5. DataLines[a] = SplitStep(a, M)
  BY <1>4 DEF M
<1>6. QED
  BY <1>1, <1>2, <1>3, <1>5 DEF SplitStep, a, M

(* The two ways a byte goes on.                                            *)
LEMMA LineParts ==
  ASSUME NEW l \in Texts, NoLf(l), NEW e \in Byte
  PROVE  /\ e # LF => NoLf(Append(l, e)) /\ Append(l, e) \in Texts
         /\ ~Contains(l, Return) => Plain(l)
<1>1. /\ Append(l, e) \in Texts /\ Len(Append(l, e)) = Len(l) + 1 /\ Len(l) \in Nat
      /\ \A i \in 1 .. Len(l) : Append(l, e)[i] = l[i]
      /\ Append(l, e)[Len(l) + 1] = e
  BY AppendProperties, LenProperties DEF Texts
<1> DEFINE a == Append(l, e)
<1>2. /\ a \in Texts /\ Len(a) = Len(l) + 1 /\ Len(l) \in Nat
      /\ \A i \in 1 .. Len(l) : a[i] = l[i]
      /\ a[Len(l) + 1] = e
  BY <1>1
<1> HIDE DEF a
<1>3. e # LF => NoLf(a)
  <2>1. \A i \in 1 .. Len(l) + 1 : i \in 1 .. Len(l) \/ i = Len(l) + 1
    BY <1>2
  <2>2. QED
    BY <1>2, <2>1 DEF NoLf
<1>4. ~Contains(l, Return) => Plain(l)
  BY DEF Contains, Return, CR, Plain, NoLf
<1>5. QED
  BY <1>2, <1>3, <1>4 DEF a

LEMMA NoCrsParts ==
  ASSUME NEW N \in Seq(Texts), NEW l \in Texts, NoCrs(Append(N, l))
  PROVE  NoCrs(N) /\ ~Contains(l, Return)
<1> DEFINE M == Append(N, l)
<1>1. /\ DOMAIN N = 1 .. Len(N) /\ DOMAIN M = 1 .. Len(N) + 1 /\ Len(N) \in Nat
      /\ M[Len(N) + 1] = l /\ \A i \in 1 .. Len(N) : M[i] = N[i]
  BY OneMore
<1>2. NoCrs(M)
  OBVIOUS
<1> HIDE DEF M
<1>3. Len(N) + 1 \in DOMAIN M /\ \A i \in 1 .. Len(N) : i \in DOMAIN M
  BY <1>1
<1>4. QED
  BY <1>1, <1>2, <1>3 DEF NoCrs

(* The bytes t are the lines N, an LF behind each, and the line l.         *)
CutAs(t, N, l, b, E, ty, A0) ==
  /\ N \in Seq(Texts) /\ l \in Texts /\ DataLines[t] = Append(N, l) /\ NoLf(l)
  /\ NoCrs(N) => \E k \in Texts : t = k \o l /\ Carried(b \o DataFields[N], E, ty, k, A0, N)

LEMMA DataSent ==
  ASSUME NEW b, NEW d, NEW A0, Sent(b, d, A0), NEW E, NEW ty, Means(A0, E, ty, << >>),
         ~HasData(OpenBlock(A0)), NEW s \in Texts, NEW lines, lines = DataLines[s], NoCrs(lines)
  PROVE  Carried(b \o DataFields[lines], E, ty, s \o << LF >>, A0, lines)
<1> DEFINE T == {t \in Texts : \E N, l : CutAs(t, N, l, b, E, ty, A0)}
<1>1. << >> \in T
  <2> DEFINE e == << >>
  <2>1. e \in Texts /\ e \in Seq(Texts) /\ e \o e = e /\ b \in Texts /\ b \o e = b
    BY Concats, NothingYet DEF Sent
  <2>2. DataLines[e] = Append(e, e)
    <3>1. Append(<< >>, << >>) = << << >> >>
      OBVIOUS
    <3>2. QED
      BY <3>1, DataLinesEquation
  <2>3. DataFields[e] = e
    BY DataFieldsEquation
  <2>4. NoLf(e) /\ NoCrs(e)
    BY DEF NoLf, NoCrs
  <2>5. Reads(e, e, e, e)
    BY NothingSent DEF Sent
  <2>6. Means(A0, E, ty, e)
    OBVIOUS
  <2> HIDE DEF e
  <2>7. Carried(b, E, ty, e, A0, e)
    <3>1. Reads(<< >>, e, e, << >>) /\ (HasData(OpenBlock(A0)) <=> e # << >>)
      BY <2>5 DEF e
    <3>2. QED
      BY <2>1, <2>6, <3>1 DEF Carried
  <2>8. CutAs(e, e, e, b, E, ty, A0)
    BY <2>1, <2>2, <2>3, <2>4, <2>7 DEF CutAs
  <2>9. QED
    BY <2>1, <2>8 DEF e
<1>2. ASSUME NEW t \in Texts, t \in T, NEW e \in Byte
      PROVE  Append(t, e) \in T
  <2>1. PICK N, l : CutAs(t, N, l, b, E, ty, A0)
    BY <1>2
  <2>2. /\ N \in Seq(Texts) /\ l \in Texts /\ DataLines[t] = Append(N, l) /\ NoLf(l)
        /\ NoCrs(N) => \E k \in Texts : t = k \o l /\ Carried(b \o DataFields[N], E, ty, k, A0, N)
    BY <2>1 DEF CutAs
  <2> DEFINE a == Append(t, e)
             r == << e >>
  <2>3. a \in Texts /\ a = t \o r /\ r \in Texts /\ << >> \in Texts
    BY ByteAdded
  <2>4. DataLines[a] = IF e = LF THEN Append(Append(N, l), << >>) ELSE Append(N, Append(l, e))
    BY <2>2, SplitByte
  <2>5. Append(l, e) = l \o r
    BY <2>2, OneByte
  <2>6. CASE e # LF
    <3> DEFINE m == Append(l, e)
    <3>1. m \in Texts /\ NoLf(m)
      BY <2>2, <2>6, LineParts
    <3> HIDE DEF a, r
    <3>2. ASSUME NoCrs(N)
          PROVE  \E k \in Texts : a = k \o m /\ Carried(b \o DataFields[N], E, ty, k, A0, N)
      <4>1. PICK k \in Texts : t = k \o l /\ Carried(b \o DataFields[N], E, ty, k, A0, N)
        BY <2>2, <3>2
      <4>2. (k \o l) \o r = k \o (l \o r)
        <5>1. k \in Texts /\ l \in Texts /\ r \in Texts
          BY <2>2, <2>3
        <5>2. QED
          BY <5>1, Concats
      <4>3. a = k \o m
        BY <2>3, <2>5, <4>1, <4>2
      <4>4. QED
        BY <4>1, <4>3
    <3> HIDE DEF m
    <3>3. CutAs(a, N, m, b, E, ty, A0)
      BY <2>2, <2>4, <2>6, <3>1, <3>2 DEF CutAs, m
    <3>4. QED
      BY <2>3, <3>3 DEF a
  <2>7. CASE e = LF
    <3> DEFINE M == Append(N, l)
               z == << >>
    <3>1. /\ M \in Seq(Texts) /\ DataLines[a] = Append(M, z) /\ NoLf(z) /\ z \in Texts
          /\ M # << >> /\ Front(M) = N /\ Last(M) = l
      <4>1. M \in Seq(Texts) /\ M # << >> /\ Front(M) = N /\ Last(M) = l
        BY <2>2, Fronts
      <4>2. NoLf(z)
        BY DEF NoLf
      <4>3. QED
        BY <2>3, <2>4, <2>7, <4>1, <4>2
    <3> HIDE DEF a, z
    <3>2. ASSUME NoCrs(M)
          PROVE  \E k \in Texts : a = k \o z /\ Carried(b \o DataFields[M], E, ty, k, A0, M)
      <4>1. NoCrs(N) /\ ~Contains(l, Return)
        BY <2>2, <3>2, NoCrsParts
      <4>2. PICK k \in Texts : t = k \o l /\ Carried(b \o DataFields[N], E, ty, k, A0, N)
        BY <2>2, <4>1
      <4>3. Plain(l)
        BY <2>2, <4>1, LineParts
      <4> DEFINE w == WireLine(DataPrefix, l)
                 f == DataFields[N]
                 kk == k \o (l \o << LF >>)
      <4>4. Carried((b \o f) \o w, E, ty, kk, A0, M)
        BY <2>2, <4>2, <4>3, CarriedLine
      <4>5. DataFields[M] = f \o w /\ f \in Texts
        <5> HIDE DEF M
        <5>1. QED
          BY <2>2, <3>1, DataFieldsEquation
      <4>6. w \in Texts
        BY <2>2, WireLineType, NamesIntroduced DEF Introduces
      <4>7. b \in Texts
        BY DEF Sent
      <4> HIDE DEF w, f
      <4>8. (b \o f) \o w = b \o DataFields[M]
        <5>1. Rebrackets(b, f, w)
          BY <4>5, <4>6, <4>7, Joins
        <5>2. QED
          BY <4>5, <5>1 DEF Rebrackets
      <4>9. kk = a /\ kk \in Texts
        <5>1. r = << LF >>
          BY <2>7
        <5> HIDE DEF r
        <5>2. (k \o l) \o r = k \o (l \o r)
          <6>1. k \in Texts /\ l \in Texts /\ r \in Texts
            BY <2>2, <2>3
          <6>2. QED
            BY <6>1, Concats
        <5>3. QED
          BY <2>3, <4>2, <5>1, <5>2
      <4> HIDE DEF kk
      <4>10. a \o z = a
        BY <2>3, Concats DEF z
      <4>11. QED
        BY <2>3, <4>4, <4>8, <4>9, <4>10
    <3> HIDE DEF M
    <3>3. CutAs(a, M, z, b, E, ty, A0)
      BY <3>1, <3>2 DEF CutAs
    <3>4. QED
      BY <2>3, <3>3 DEF a
  <2>8. QED
    BY <2>6, <2>7
<1>3. s \in T
  <2> HIDE DEF T
  <2>1. s \in Seq(Byte) /\ << >> \in T /\ \A t \in Seq(Byte) : t \in T => \A e \in Byte : Append(t, e) \in T
    BY <1>1, <1>2 DEF Texts
  <2>2. QED
    BY <2>1, ByAppend
<1>4. PICK N, l : CutAs(s, N, l, b, E, ty, A0)
  BY <1>3
<1>5. /\ N \in Seq(Texts) /\ l \in Texts /\ lines = Append(N, l) /\ NoLf(l)
      /\ NoCrs(N) => \E k \in Texts : s = k \o l /\ Carried(b \o DataFields[N], E, ty, k, A0, N)
  BY <1>4 DEF CutAs
<1>6. NoCrs(N) /\ ~Contains(l, Return)
  BY <1>5, NoCrsParts
<1>7. PICK k \in Texts : s = k \o l /\ Carried(b \o DataFields[N], E, ty, k, A0, N)
  BY <1>5, <1>6
<1>8. Plain(l)
  <2>1. LF \in Byte
    BY LineFeed
  <2>2. QED
    BY <1>5, <1>6, <2>1, LineParts
<1> DEFINE w == WireLine(DataPrefix, l)
           f == DataFields[N]
           n == << LF >>
           kk == k \o (l \o n)
<1>9. Carried((b \o f) \o w, E, ty, kk, A0, lines)
  BY <1>5, <1>7, <1>8, CarriedLine
<1>10. DataFields[lines] = f \o w /\ f \in Texts
  <2>1. lines \in Seq(Texts) /\ lines # << >> /\ Front(lines) = N /\ Last(lines) = l
    BY <1>5, Fronts
  <2>2. QED
    BY <1>5, <2>1, DataFieldsEquation
<1>11. w \in Texts
  BY <1>5, WireLineType, NamesIntroduced DEF Introduces
<1>12. b \in Texts /\ n \in Texts
  BY LineFeed DEF Sent
<1> HIDE DEF w, f, n
<1>13. (b \o f) \o w = b \o DataFields[lines]
  <2>1. Rebrackets(b, f, w)
    BY <1>10, <1>11, <1>12, Joins
  <2>2. QED
    BY <1>10, <2>1 DEF Rebrackets
<1>14. kk = s \o n
  <2>1. k \in Texts /\ l \in Texts /\ n \in Texts /\ s = k \o l
    BY <1>5, <1>7, <1>12
  <2>2. QED
    <3>1. Rebrackets(k, l, n)
      BY <2>1, Joins
    <3>2. QED
      BY <2>1, <3>1 DEF Rebrackets
<1>15. QED
  BY <1>9, <1>13, <1>14 DEF n

(* The lines of well-formed data close as themselves.                      *)
KeptAs(t, y, N, l) ==
  /\ N \in Seq(Texts) /\ l \in Texts /\ DataLines[t] = Append(N, l) /\ NoLf(l)
  /\ NoCrs(N) => WellFormedText(l \o y) /\ \A i \in DOMAIN N : Closed(N[i]) = N[i]

LEMMA LinesKept ==
  ASSUME NEW s \in Texts, WellFormedText(s), NEW lines, lines = DataLines[s], NoCrs(lines)
  PROVE  \A i \in DOMAIN lines : Closed(lines[i]) = lines[i]
<1> DEFINE Good(t) == \A y \in Texts : WellFormedText(t \o y) => \E N, l : KeptAs(t, y, N, l)
           T == {t \in Texts : Good(t)}
<1>1. << >> \in T
  <2> DEFINE e == << >>
  <2>1. e \in Texts /\ e \in Seq(Texts) /\ NoLf(e) /\ \A i \in DOMAIN e : Closed(e[i]) = e[i]
    BY Concats, NothingYet DEF NoLf
  <2>2. DataLines[e] = Append(e, e)
    <3>1. Append(<< >>, << >>) = << << >> >>
      OBVIOUS
    <3>2. QED
      BY <3>1, DataLinesEquation
  <2> HIDE DEF e
  <2>3. ASSUME NEW y \in Texts, WellFormedText(e \o y) PROVE KeptAs(e, y, e, e)
    BY <2>1, <2>2, <2>3 DEF KeptAs
  <2>4. Good(e)
    BY <2>3
  <2>5. QED
    BY <2>1, <2>4 DEF e
<1>2. ASSUME NEW t \in Texts, t \in T, NEW e \in Byte
      PROVE  Append(t, e) \in T
  <2> DEFINE a == Append(t, e)
             r == << e >>
  <2>1. a \in Texts /\ a = t \o r /\ r \in Texts /\ << >> \in Texts
    BY ByteAdded
  <2>2. ASSUME NEW y \in Texts, WellFormedText(a \o y)
        PROVE  \E N, l : KeptAs(a, y, N, l)
    <3> HIDE DEF a, r
    <3>1. r \o y \in Texts /\ a \o y = t \o (r \o y)
      <4>1. r \o y \in Texts /\ Rebrackets(t, r, y)
        BY <2>1, Concats, Joins
      <4>2. QED
        BY <2>1, <4>1 DEF Rebrackets
    <3>2. WellFormedText(t \o (r \o y))
      BY <2>2, <3>1
    <3>3. PICK N, l : KeptAs(t, r \o y, N, l)
      BY <1>2, <3>1, <3>2
    <3>4. /\ N \in Seq(Texts) /\ l \in Texts /\ DataLines[t] = Append(N, l) /\ NoLf(l)
          /\ NoCrs(N) => WellFormedText(l \o (r \o y)) /\ \A i \in DOMAIN N : Closed(N[i]) = N[i]
      BY <3>3 DEF KeptAs
    <3>5. DataLines[a] = IF e = LF THEN Append(Append(N, l), << >>) ELSE Append(N, Append(l, e))
      BY <3>4, SplitByte DEF a
    <3>6. Append(l, e) = l \o r /\ (l \o r) \o y = l \o (r \o y)
      <4>1. l \in Texts /\ r \in Texts /\ y \in Texts
        BY <2>1, <3>4
      <4>2. Append(l, e) = l \o r
        BY <4>1, OneByte DEF r
      <4>3. QED
        BY <4>1, <4>2, Concats
    <3>7. CASE e # LF
      <4> DEFINE m == Append(l, e)
      <4>1. m \in Texts /\ NoLf(m)
        BY <3>4, <3>7, LineParts
      <4>2. m \o y = l \o (r \o y)
        BY <3>6
      <4> HIDE DEF m
      <4>3. KeptAs(a, y, N, m)
        BY <3>4, <3>5, <3>7, <4>1, <4>2 DEF KeptAs, m
      <4>4. QED
        BY <4>3
    <3>8. CASE e = LF
      <4> DEFINE M == Append(N, l)
                 z == << >>
      <4>1. /\ M \in Seq(Texts) /\ DataLines[a] = Append(M, z) /\ NoLf(z) /\ z \in Texts
            /\ z \o y = y
        <5>1. M \in Seq(Texts)
          BY <3>4, Fronts
        <5>2. NoLf(z)
          BY DEF NoLf
        <5>3. z \in Texts /\ z \o y = y
          BY Concats
        <5>4. QED
          BY <3>5, <3>8, <5>1, <5>2, <5>3
      <4>2. /\ DOMAIN N = 1 .. Len(N) /\ DOMAIN M = 1 .. Len(N) + 1 /\ Len(N) \in Nat
            /\ M[Len(N) + 1] = l /\ \A i \in 1 .. Len(N) : M[i] = N[i]
            /\ \A i \in 1 .. Len(N) + 1 : i \in 1 .. Len(N) \/ i = Len(N) + 1
        BY <3>4, OneMore
      <4> HIDE DEF z
      <4>3. ASSUME NoCrs(M)
            PROVE  WellFormedText(y) /\ \A i \in DOMAIN M : Closed(M[i]) = M[i]
        <5>1. NoCrs(N) /\ ~Contains(l, Return)
          BY <3>4, <4>3, NoCrsParts
        <5>2. Plain(l)
          BY <3>4, <5>1, LineParts
        <5>3. WellFormedText((l \o << LF >>) \o y)
          BY <3>4, <3>6, <3>8, <5>1 DEF r
        <5>4. Closed(l) = l /\ WellFormedText(y)
          BY <3>4, <5>2, <5>3, FaithfulLine
        <5> HIDE DEF M
        <5>5. \A i \in DOMAIN M : Closed(M[i]) = M[i]
          BY <3>4, <4>2, <5>1, <5>4
        <5>6. QED
          BY <5>4, <5>5
      <4> HIDE DEF M
      <4>4. KeptAs(a, y, M, z)
        BY <4>1, <4>3 DEF KeptAs
      <4>5. QED
        BY <4>4
    <3>9. QED
      BY <3>7, <3>8
  <2>3. QED
    BY <2>1, <2>2
<1>3. s \in T
  <2> HIDE DEF T
  <2>1. s \in Seq(Byte) /\ << >> \in T /\ \A t \in Seq(Byte) : t \in T => \A e \in Byte : Append(t, e) \in T
    BY <1>1, <1>2 DEF Texts
  <2>2. QED
    BY <2>1, ByAppend
<1>4. << >> \in Texts /\ s \o << >> = s
  BY Concats
<1>5. PICK N, l : KeptAs(s, << >>, N, l)
  BY <1>3, <1>4
<1>6. /\ N \in Seq(Texts) /\ l \in Texts /\ lines = Append(N, l)
      /\ NoCrs(N) => WellFormedText(l \o << >>) /\ \A i \in DOMAIN N : Closed(N[i]) = N[i]
  BY <1>5 DEF KeptAs
<1>7. NoCrs(N)
  BY <1>6, NoCrsParts
<1>8. WellFormedText(l)
  <2>1. l \o << >> = l
    BY <1>6, Concats
  <2>2. QED
    BY <1>6, <1>7, <2>1
<1>9. Closed(l) = l
  BY <1>6, <1>8, FaithfulCloses
<1>10. /\ DOMAIN N = 1 .. Len(N) /\ DOMAIN lines = 1 .. Len(N) + 1 /\ Len(N) \in Nat
       /\ lines[Len(N) + 1] = l /\ \A i \in 1 .. Len(N) : lines[i] = N[i]
       /\ \A i \in 1 .. Len(N) + 1 : i \in 1 .. Len(N) \/ i = Len(N) + 1
  BY <1>6, OneMore
<1>11. QED
  BY <1>6, <1>7, <1>9, <1>10

-----------------------------------------------------------------------------
(***************************************************************************)
(* What the writer produces in one call.                                   *)
(***************************************************************************)

(* Between two events: E are the events so far, no block is open.          *)
Quiet(A, E) == EventsOf[A] = E /\ StreamId(A) = << >> /\ OpenBlock(A) = << >>

LEMMA QuietMeans ==
  ASSUME NEW A, NEW E, Quiet(A, E)
  PROVE  Means(A, E, << >>, << >>) /\ ~HasData(OpenBlock(A))
<1> DEFINE e == << >>
<1>1. OpenBlock(A) = e /\ EventType(e) = e /\ ~HasData(e)
  BY EmptyBlock DEF Quiet
<1>2. EventsOf[A] = E /\ StreamId(A) = e
  BY DEF Quiet
<1> HIDE DEF e
<1>3. EventType(OpenBlock(A)) = e /\ ~HasData(OpenBlock(A))
  BY <1>1
<1>4. OpenData(A) = e
  BY <1>3 DEF OpenData, e
<1>5. QED
  BY <1>2, <1>3, <1>4 DEF Means, e

(* The empty line.                                                         *)
LEMMA BlankSent ==
  ASSUME NEW b, NEW d, NEW A, Sent(b, d, A)
  PROVE  /\ IsSent(b \o << LF >>, Append(A, << >>))
         /\ OpenBlock(Append(A, << >>)) = << >>
         /\ StreamId(Append(A, << >>)) = StreamId(A)
         /\ EventsOf[Append(A, << >>)] =
              IF HasData(OpenBlock(A)) THEN Append(EventsOf[A], EventOf(A)) ELSE EventsOf[A]
         /\ Fits(A) => Fits(Append(A, << >>))
<1> DEFINE e == << >>
           n == << LF >>
           B == Append(A, e)
<1>1. e \in Texts /\ n \in Texts /\ A \in Seq(Texts) /\ Plain(e) /\ Len(e) = 0
  BY Concats, LineFeed DEF Sent, Plain
<1>2. Closed(e) = e
  BY NothingCloses
<1>3. OpenBlock(B) = e /\ OpenData(B) = e
  BY <1>1, OpenBlockOfMore, DataOfMore
<1>4. /\ ~HasField(e, IdName)
      /\ EventsOf[B] = IF HasData(OpenBlock(A)) THEN Append(EventsOf[A], EventOf(A))
                       ELSE EventsOf[A]
  BY <1>1, EventsOfMore, BlankHasNoField DEF Fields
<1> HIDE DEF e, n
<1>5. StreamId(B) = StreamId(A)
  BY <1>1, <1>4, IdOfMore
<1>6. e \o n = n
  BY <1>1, Concats DEF e
<1>7. IsSent(b \o n, B)
  <2>1. Sent(b \o (e \o n), d \o (e \o n), B)
    BY <1>1, <1>2, SentLine DEF n
  <2>2. QED
    BY <1>6, <2>1 DEF IsSent
<1>8. Fits(A) => Fits(B)
  <2>1. ~Exceeds(MaxLine, Len(e)) /\ ~Exceeds(MaxFrame, Len(e))
    BY <1>1, LimitsAssumption DEF Exceeds
  <2>2. ~Exceeds(MaxFrame, Len(OpenData(B)))
    BY <1>3, <2>1
  <2>3. QED
    BY <1>1, <2>1, <2>2, LineFits
<1>9. QED
  BY <1>3, <1>4, <1>5, <1>7, <1>8 DEF e, n

(* The event field, when the event has a type.                             *)
LEMMA TypeSent ==
  ASSUME NEW b, NEW d, NEW A, Sent(b, d, A), NEW E, Means(A, E, << >>, << >>),
         ~HasData(OpenBlock(A)), NEW type \in Texts, Plain(type), NEW c, c = Closed(type)
  PROVE  \E e, B : /\ Sent(b \o TypeLine(type), e, B) /\ Means(B, E, c, << >>)
                   /\ ~HasData(OpenBlock(B))
                   /\ Fits(A) /\ (type # << >> => ~Exceeds(MaxLine, Len(EventPrefix) + Len(c)))
                        => Fits(B)
<1>1. CASE type = << >>
  <2>1. b \in Texts /\ b \o << >> = b
    BY Concats DEF Sent
  <2>2. TypeLine(type) = << >> /\ c = << >>
    BY <1>1, NothingCloses DEF TypeLine
  <2>3. b \o TypeLine(type) = b
    BY <2>1, <2>2
  <2>4. QED
    BY <2>2, <2>3
<1>2. CASE type # << >>
  <2> DEFINE l == EventPrefix \o c
             B == Append(A, l)
             bb == b \o WireLine(EventPrefix, type)
             none == << >>
  <2>1. TypeLine(type) = WireLine(EventPrefix, type)
    BY <1>2 DEF TypeLine
  <2>2. EventName \in Fields /\ Introduces(EventPrefix, EventName)
    BY NamesIntroduced
  <2>3. l = EventPrefix \o c
    OBVIOUS
  <2> HIDE DEF l
  <2>4. l \in Texts /\ l # << >> /\ Len(l) = Len(EventPrefix) + Len(c)
    BY <2>2, <2>3, FieldSent
  <2>5. IsField(l, EventName, c)
    BY <2>2, <2>3, FieldSent
  <2>6. IsSent(bb, B)
    BY <2>2, <2>3, FieldSent
  <2>7. A \in Seq(Texts)
    BY DEF Sent
  <2>8. Means(B, E, c, none) /\ (HasData(OpenBlock(B)) <=> HasData(OpenBlock(A)))
    <3>1. B = Append(A, l) /\ c = FieldValue(l) /\ EventName = FieldName(l) /\ Means(A, E, none, none)
      BY <2>5 DEF IsField
    <3> HIDE DEF B, none
    <3>2. QED
      BY <2>4, <2>7, <3>1, LineMeans
  <2>9. OpenData(B) = none /\ ~Exceeds(MaxFrame, Len(none))
    <3>1. OpenData(B) = none
      BY <2>8 DEF Means
    <3>2. Len(none) = 0
      OBVIOUS
    <3> HIDE DEF none
    <3>3. ~Exceeds(MaxFrame, Len(none))
      BY <3>2, LimitsAssumption DEF Exceeds
    <3>4. QED
      BY <3>1, <3>3
  <2>10. ASSUME Fits(A), ~Exceeds(MaxLine, Len(EventPrefix) + Len(c)) PROVE Fits(B)
    <3>1. ~Exceeds(MaxLine, Len(l)) /\ ~Exceeds(MaxFrame, Len(OpenData(B)))
      BY <2>4, <2>9, <2>10
    <3>2. QED
      BY <2>4, <2>7, <2>10, <3>1, LineFits
  <2>11. PICK e : Sent(bb, e, B)
    BY <2>6 DEF IsSent
  <2> HIDE DEF B, bb
  <2>12. QED
    BY <1>2, <2>1, <2>8, <2>10, <2>11 DEF bb
<1>3. QED
  BY <1>1, <1>2

(* What the checks of the writer let through.                              *)
NoTighter(limit, writers) == limit = 0 \/ writers \in 1 .. limit

LEMMA Accepted ==
  ASSUME NEW type \in Texts, NEW s \in Texts, WriteError(type, s) = "OK",
         NEW lines, lines = DataLines[s]
  PROVE  /\ Plain(type) /\ NoCrs(lines)
         /\ NoTighter(MaxFrame, WriterMaxFrame) => ~Exceeds(MaxFrame, Len(s) + 1)
         /\ NoTighter(MaxLine, WriterMaxLine) =>
              /\ type # << >> => ~Exceeds(MaxLine, Len(EventPrefix) + Len(type))
              /\ \A i \in DOMAIN lines : ~Exceeds(MaxLine, Len(DataPrefix) + Len(lines[i]))
<1>1. /\ ~FrameTooLarge(s) /\ ~Contains(type, NewLine) /\ ~Contains(type, Return)
      /\ ~(type # << >> /\ LineTooLong(EventPrefix, type))
      /\ DataError(s) = "OK"
  BY SMT DEF WriteError
<1>2. Unsendable(lines) = {}
  BY <1>1, SMT DEF DataError
<1>3. \A i \in DOMAIN lines : ~Contains(lines[i], Return) /\ ~LineTooLong(DataPrefix, lines[i])
  BY <1>2 DEF Unsendable
<1>4. Plain(type)
  BY <1>1 DEF Contains, NewLine, Return, Plain, LF, CR
<1>5. MaxLine \in Nat /\ MaxFrame \in Nat /\ WriterMaxLine \in Nat /\ WriterMaxFrame \in Nat
  BY LimitsAssumption, WireAssumption
<1>6. Len(s) \in Nat /\ Len(type) \in Nat /\ Len(EventPrefix) \in Nat /\ Len(DataPrefix) \in Nat
  BY LenProperties, NamesIntroduced DEF Introduces, Texts
<1>7. \A i \in DOMAIN lines : Len(lines[i]) \in Nat
  <2>1. lines \in Seq(Texts)
    BY DataLinesEquation
  <2>2. \A i \in DOMAIN lines : lines[i] \in Texts
    BY <2>1, ElementOfSeq
  <2>3. QED
    BY <2>2, LenProperties DEF Texts
<1>8. ASSUME NoTighter(MaxFrame, WriterMaxFrame) PROVE ~Exceeds(MaxFrame, Len(s) + 1)
  BY <1>1, <1>5, <1>6, <1>8 DEF NoTighter, Exceeds, FrameTooLarge
<1>9. ASSUME NoTighter(MaxLine, WriterMaxLine), NEW p, NEW l, Len(p) \in Nat, Len(l) \in Nat,
             ~LineTooLong(p, l)
      PROVE  ~Exceeds(MaxLine, Len(p) + Len(l))
  BY <1>5, <1>9 DEF NoTighter, Exceeds, LineTooLong
<1>10. ASSUME NoTighter(MaxLine, WriterMaxLine), type # << >>
       PROVE  ~Exceeds(MaxLine, Len(EventPrefix) + Len(type))
  BY <1>1, <1>6, <1>9, <1>10
<1>11. ASSUME NoTighter(MaxLine, WriterMaxLine), NEW i \in DOMAIN lines
       PROVE  ~Exceeds(MaxLine, Len(DataPrefix) + Len(lines[i]))
  BY <1>3, <1>6, <1>7, <1>9, <1>11
<1>12. QED
  BY <1>3, <1>4, <1>8, <1>10, <1>11 DEF NoCrs

(* Both ends have limits that fit: what may be sent may be received.       *)
LimitsFit == NoTighter(MaxLine, WriterMaxLine) /\ NoTighter(MaxFrame, WriterMaxFrame)

(* An event that is accepted is, on the way, just that event.              *)
LEMMA EventSent ==
  ASSUME NEW b, NEW d, NEW A, Sent(b, d, A), NEW E, Quiet(A, E),
         NEW type \in Texts, NEW s \in Texts, WriteError(type, s) = "OK",
         NEW w, w = [type |-> type, data |-> s]
  PROVE  \E B : /\ IsSent(b \o Output(type, s), B) /\ Quiet(B, Append(E, Seen(w)))
                /\ LimitsFit /\ Fits(A) /\ WellFormedText(type) /\ WellFormedText(s) => Fits(B)
<1> DEFINE lines == DataLines[s]
           c == Closed(type)
           n == << LF >>
           head == TypeLine(type)
           body == DataFields[lines]
<1>1. /\ Plain(type) /\ NoCrs(lines)
      /\ NoTighter(MaxFrame, WriterMaxFrame) => ~Exceeds(MaxFrame, Len(s) + 1)
      /\ NoTighter(MaxLine, WriterMaxLine) =>
           /\ type # << >> => ~Exceeds(MaxLine, Len(EventPrefix) + Len(type))
           /\ \A i \in DOMAIN lines : ~Exceeds(MaxLine, Len(DataPrefix) + Len(lines[i]))
  BY Accepted
<1>2. lines \in Seq(Texts) /\ lines # << >>
  BY DataLinesEquation
<1>3. Means(A, E, << >>, << >>) /\ ~HasData(OpenBlock(A))
  BY QuietMeans
<1>4. PICK e, A1 : /\ Sent(b \o head, e, A1) /\ Means(A1, E, c, << >>)
                   /\ ~HasData(OpenBlock(A1))
                   /\ Fits(A) /\ (type # << >> => ~Exceeds(MaxLine, Len(EventPrefix) + Len(c)))
                        => Fits(A1)
  <2> HIDE DEF c, head
  <2>1. c = Closed(type) /\ head = TypeLine(type)
    BY DEF c, head
  <2>2. QED
    BY <1>1, <1>3, <2>1, TypeSent
<1>5. Carried((b \o head) \o body, E, c, s \o n, A1, lines)
  BY <1>1, <1>4, DataSent
<1>6. PICK f, A2, x :
        /\ x \in Texts /\ Sent((b \o head) \o body, f, A2) /\ Means(A2, E, c, x)
        /\ HasData(OpenBlock(A2))
        /\ Reads(<< >>, s \o n, x, << >>)
        /\ Fits(A1) /\ (\A i \in DOMAIN lines : Kept(lines[i])) /\ ~Exceeds(MaxFrame, Len(s \o n)) =>
             Fits(A2)
  <2> HIDE DEF c, body, head, n
  <2>1. QED
    BY <1>2, <1>5 DEF Carried
<1>7. x = Closed(s) \o n
  <2> DEFINE y == Closed(s) \o n
             q == s \o n
             none == << >>
  <2>1. /\ Closed(s) \in Texts /\ Reads(none, q, y, none)
    BY LineCloses
  <2>2. none \in Texts /\ Text[none \o none] = none /\ \A t \in Texts : t \o none = t
    <3>1. none \in Texts /\ \A t \in Texts : t \o none = t
      BY Concats
    <3>2. none \o none = none /\ Text[none] = none
      BY <3>1, LineFeed
    <3>3. QED
      BY <3>1, <3>2
  <2>3. y \in Texts
    BY <2>1, LineFeed, Concats
  <2>4. Reads(none, q, x, none)
    BY <1>6
  <2> HIDE DEF y, q, none
  <2>5. Text[none \o (q \o none)] = y \o Text[none \o none]
    BY <2>1, <2>2 DEF Reads
  <2>6. Text[none \o (q \o none)] = x \o Text[none \o none]
    BY <2>2, <2>4 DEF Reads
  <2>7. x \o none = x /\ y \o none = y
    BY <1>6, <2>2, <2>3
  <2>8. x = y
    BY <2>2, <2>5, <2>6, <2>7
  <2>9. QED
    BY <2>8 DEF y
<1>8. A2 \in Seq(Texts)
  BY <1>6 DEF Sent
<1> DEFINE B == Append(A2, << >>)
           out == ((b \o head) \o body) \o n
<1>9. /\ IsSent(out, B) /\ OpenBlock(B) = << >> /\ StreamId(B) = StreamId(A2)
      /\ EventsOf[B] = Append(EventsOf[A2], EventOf(A2))
      /\ Fits(A2) => Fits(B)
  BY <1>6, BlankSent
<1>10. EventOf(A2) = Seen(w)
  <2>1. EventType(OpenBlock(A2)) = c /\ StreamId(A2) = << >> /\ OpenData(A2) = x
    BY <1>6 DEF Means
  <2>2. Joined[OpenBlock(A2)] = WithoutFinalLf(x)
    BY <1>6, <1>8, <2>1, DataOfMore, Concats
  <2>3. WithoutFinalLf(x) = Closed(s)
    <3> DEFINE t == Closed(s)
    <3>1. t \in Texts
      BY LineCloses
    <3>2. x = Append(t, LF)
      BY <1>7, <3>1, LineFeed, OneByte
    <3> HIDE DEF t
    <3>3. x # << >> /\ Front(x) = t /\ Last(x) = LF
      BY <3>1, <3>2, LineFeed, Fronts DEF Texts
    <3>4. QED
      BY <3>3 DEF WithoutFinalLf, Front, Last, t
  <2>4. c = << >> <=> type = << >>
    <3>1. type # << >> => c # << >>
      BY LineCloses
    <3>2. type = << >> => c = << >>
      BY NothingCloses
    <3>3. QED
      BY <3>1, <3>2
  <2>5. w.type = type /\ w.data = s
    OBVIOUS
  <2> HIDE DEF c
  <2>6. EventOf(A2) = [type |-> IF c = << >> THEN Message ELSE c,
                       data |-> Closed(s), id |-> << >>]
    BY <2>1, <2>2, <2>3 DEF EventOf, BlockEvent
  <2>7. Seen(w) = [type |-> IF type = << >> THEN Message ELSE c,
                   data |-> Closed(s), id |-> << >>]
    BY <2>5 DEF Seen, c
  <2>8. QED
    BY <2>4, <2>6, <2>7
<1>11. Quiet(B, Append(E, Seen(w)))
  BY <1>6, <1>9, <1>10 DEF Quiet, Means
<1>12. out = b \o Output(type, s)
  <2>1. b \in Texts /\ n \in Texts /\ body \in Texts
    BY <1>2, DataFieldsEquation, LineFeed DEF Sent
  <2>2. head \in Texts
    BY NamesIntroduced, WireLineType, Concats DEF TypeLine, Introduces
  <2>3. Output(type, s) = (head \o body) \o n
    BY DEF Output, NewLine, LF
  <2> HIDE DEF head, body, n
  <2>4. head \o body \in Texts /\ b \o head \in Texts
    BY <2>1, <2>2, Concats
  <2>5. (b \o head) \o body = b \o (head \o body)
    BY <2>1, <2>2, Concats
  <2>6. (b \o (head \o body)) \o n = b \o ((head \o body) \o n)
    <3>1. Rebrackets(b, head \o body, n)
      BY <2>1, <2>4, Joins
    <3>2. QED
      BY <3>1 DEF Rebrackets
  <2>7. QED
    BY <2>3, <2>5, <2>6
<1>13. ASSUME LimitsFit, Fits(A), WellFormedText(type), WellFormedText(s) PROVE Fits(B)
  <2>1. c = type
    BY <1>13, FaithfulCloses
  <2>2. Fits(A1)
    BY <1>1, <1>4, <1>13, <2>1 DEF LimitsFit
  <2>3. \A i \in DOMAIN lines : Closed(lines[i]) = lines[i]
    BY <1>1, <1>13, LinesKept
  <2>4. \A i \in DOMAIN lines : Kept(lines[i])
    BY <1>1, <1>13, <2>3 DEF Kept, LimitsFit
  <2>5. Len(s \o n) = Len(s) + 1
    <3>1. n \in Texts /\ Len(n) = 1
      BY LineFeed, OneByte
    <3> HIDE DEF n
    <3>2. Len(s \o n) = Len(s) + Len(n)
      BY <3>1, ConcatParts DEF Texts
    <3>3. QED
      BY <3>1, <3>2
  <2>6. ~Exceeds(MaxFrame, Len(s \o n))
    BY <1>1, <1>13, <2>5 DEF LimitsFit
  <2>7. QED
    BY <1>6, <1>9, <2>2, <2>4, <2>6
<1> HIDE DEF B, out
<1>14. QED
  BY <1>9, <1>11, <1>12, <1>13

(* A keepalive is no event, and opens no block.                            *)
LEMMA KeepaliveSent ==
  ASSUME NEW b, NEW d, NEW A, Sent(b, d, A), NEW E, Quiet(A, E)
  PROVE  \E B : /\ IsSent(b \o WriteKeepalive, B) /\ Quiet(B, E)
                /\ LimitsFit /\ Fits(A) => Fits(B)
<1> DEFINE n == << LF >>
           out == (Ping \o n) \o n
<1>1. b \in Texts /\ A \in Seq(Texts) /\ n \in Texts /\ Ping \in Texts /\ Plain(Ping) /\ Len(Ping) = 6
      /\ Ping # << >> /\ FieldName(Ping) = << >>
  BY PingLine, LineFeed DEF Sent
<1>2. CASE WriteKeepalive = << >>
  <2>1. b \o WriteKeepalive = b
    BY <1>1, <1>2, Concats
  <2>2. IsSent(b \o WriteKeepalive, A)
    BY <2>1 DEF IsSent
  <2>3. QED
    BY <2>2
<1>3. CASE /\ ~(WriterMaxLine > 0 /\ Len(Ping) > WriterMaxLine)
           /\ WriteKeepalive = out
  <2> DEFINE B1 == Append(A, Ping)
             B == Append(B1, << >>)
  <2>1. Closed(Ping) = Ping
    <3>1. \A i \in 1 .. Len(Ping) : Ping[i] < 128
      BY PingLine
    <3>2. << >> \in Texts /\ Ping \o << >> = Ping
      BY <1>1, Concats
    <3>3. Closed(Ping \o << >>) = Ping \o Closed(<< >>)
      BY <1>1, <3>1, <3>2, PrefixCloses
    <3>4. QED
      BY <3>2, <3>3, NothingCloses
  <2>2. Sent(b \o (Ping \o n), d \o (Ping \o n), B1)
    BY <1>1, <2>1, SentLine
  <2>3. Means(A, E, << >>, << >>) /\ ~HasData(OpenBlock(A))
    BY QuietMeans
  <2>4. Means(B1, E, << >>, << >>) /\ ~HasData(OpenBlock(B1))
    <3> DEFINE none == << >>
    <3>1. Means(A, E, none, none) /\ FieldName(Ping) = none /\ Ping # none
      BY <1>1, <2>3
    <3>2. \A v : v = FieldValue(Ping) =>
            (none = << >> => Means(B1, E, none, none)
                             /\ (HasData(OpenBlock(B1)) <=> HasData(OpenBlock(A))))
      <4> HIDE DEF none
      <4>1. QED
        BY <1>1, <3>1, LineMeans DEF none
    <3>3. QED
      BY <2>3, <3>2
  <2>5. /\ IsSent((b \o (Ping \o n)) \o n, B)
        /\ OpenBlock(B) = << >> /\ StreamId(B) = StreamId(B1)
        /\ EventsOf[B] = EventsOf[B1]
        /\ Fits(B1) => Fits(B)
    BY <2>2, <2>4, BlankSent
  <2>6. Quiet(B, E)
    BY <2>4, <2>5 DEF Quiet, Means
  <2>7. (b \o (Ping \o n)) \o n = b \o WriteKeepalive
    <3> HIDE DEF n
    <3>1. Ping \o n \in Texts
      BY <1>1, Concats
    <3>2. (b \o (Ping \o n)) \o n = b \o ((Ping \o n) \o n)
      BY <1>1, <3>1, Concats
    <3>3. QED
      BY <1>3, <3>2
  <2>8. ASSUME LimitsFit, Fits(A) PROVE Fits(B)
    <3>1. MaxLine \in Nat /\ MaxFrame \in Nat /\ WriterMaxLine \in Nat
      BY LimitsAssumption, WireAssumption
    <3>2. ~Exceeds(MaxLine, Len(Ping))
      BY <1>1, <1>3, <2>8, <3>1 DEF LimitsFit, NoTighter, Exceeds
    <3>3. OpenData(B1) = << >> /\ Len(<< >>) = 0
      BY <2>4 DEF Means
    <3>4. ~Exceeds(MaxFrame, Len(OpenData(B1)))
      <4> DEFINE k == Len(OpenData(B1))
      <4>1. k = 0
        BY <3>3
      <4> HIDE DEF k
      <4>2. ~Exceeds(MaxFrame, k)
        BY <3>1, <4>1 DEF Exceeds
      <4>3. QED
        BY <4>2 DEF k
    <3>5. Fits(B1)
      BY <1>1, <2>8, <3>2, <3>4, LineFits
    <3>6. QED
      BY <2>5, <3>5
  <2> HIDE DEF B, B1
  <2>9. QED
    BY <2>5, <2>6, <2>7, <2>8
<1>4. WriteKeepalive = << >> \/ (/\ ~(WriterMaxLine > 0 /\ Len(Ping) > WriterMaxLine)
                                 /\ WriteKeepalive = out)
  <2>1. Ping \o << LF, LF >> = out
    <3>1. << LF, LF >> = n \o n
      <4>1. << LF, LF >> = Append(n, LF)
        OBVIOUS
      <4>2. QED
        BY <1>1, <4>1, LineFeed, OneByte
    <3> HIDE DEF n
    <3>2. Ping \o (n \o n) = (Ping \o n) \o n
      BY <1>1, Concats
    <3>3. QED
      BY <3>1, <3>2
  <2> HIDE DEF out
  <2>2. QED
    BY <2>1 DEF WriteKeepalive, NewLine, LF
<1>5. QED
  BY <1>2, <1>3, <1>4

-----------------------------------------------------------------------------
(***************************************************************************)
(* What was sent and what the parser makes of the part it was fed.         *)
(***************************************************************************)

(* No byte order mark: no first byte of one.                               *)
NoMark(s) == s # << >> => s[1] # 239

LEMMA NoMarkParts ==
  ASSUME NEW s \in Texts, NEW x \in Texts, NoMark(s)
  PROVE  /\ NoMark(x) => NoMark(s \o x)
         /\ s # << >> => s \o x # << >> /\ NoMark(s \o x)
<1>1. CASE s = << >>
  BY <1>1, Concats
<1>2. CASE s # << >>
  <2> DEFINE m == Len(s)
             n == Len(x)
             c == s \o x
  <2>1. m \in Nat /\ n \in Nat /\ m # 0
    BY <1>2, LenProperties, EmptySeq DEF Texts
  <2>2. Len(c) = m + n /\ \A i \in 1 .. m + n : c[i] = IF i <= m THEN s[i] ELSE x[i - m]
    BY ConcatParts DEF Texts
  <2> HIDE DEF m, n, c
  <2>3. 1 \in 1 .. m + n /\ 1 <= m /\ Len(c) # 0
    BY <2>1, <2>2
  <2>4. c[1] = s[1] /\ c # << >>
    BY <2>2, <2>3
  <2>5. QED
    BY <1>2, <2>4 DEF NoMark, c
<1>3. QED
  BY <1>1, <1>2

(* A part of a text without one has none.                                  *)
LEMMA NoMarkBefore ==
  ASSUME NEW s \in Texts, NEW x \in Texts, NoMark(s \o x)
  PROVE  NoMark(s)
<1>1. CASE s = << >>
  BY <1>1 DEF NoMark
<1>2. CASE s # << >>
  <2> DEFINE m == Len(s)
             n == Len(x)
             c == s \o x
  <2>1. m \in Nat /\ n \in Nat /\ m # 0
    BY <1>2, LenProperties, EmptySeq DEF Texts
  <2>2. Len(c) = m + n /\ \A i \in 1 .. m + n : c[i] = IF i <= m THEN s[i] ELSE x[i - m]
    BY ConcatParts DEF Texts
  <2>0. NoMark(c)
    OBVIOUS
  <2> HIDE DEF m, n, c
  <2>3. 1 \in 1 .. m + n /\ 1 <= m /\ Len(c) # 0
    BY <2>1, <2>2
  <2>4. c[1] = s[1] /\ c # << >>
    BY <2>2, <2>3
  <2>5. QED
    BY <2>0, <2>4 DEF NoMark
<1>3. QED
  BY <1>1, <1>2

(* Without a byte order mark all bytes are text.                           *)
LEMMA NoMarkText ==
  ASSUME NEW s \in Texts, NoMark(s)
  PROVE  AfterBom(s) = s
<1>1. CASE s = << >>
  BY <1>1, BomUndecided
<1>2. CASE s # << >>
  <2> DEFINE B == BOM
             m == Len(s)
  <2>1. B \in Seq(Byte) /\ Len(B) = 3 /\ B[1] = 239
    BY DEF BOM, Byte
  <2>2. m \in Nat /\ m # 0 /\ s \in Seq(Byte)
    BY <1>2, LenProperties, EmptySeq DEF Texts
  <2>3. s[1] # B[1]
    BY <1>2, <2>1 DEF NoMark
  <2> HIDE DEF B
  <2>4. 1 \in 1 .. Len(B)
    BY <2>1
  <2>5. 1 \in 1 .. Len(s)
    BY <2>2
  <2>6. ~IsPrefix(B, s)
    BY <2>1, <2>2, <2>3, <2>4, PrefixMeans
  <2>7. ~IsPrefix(s, B)
    BY <2>1, <2>2, <2>3, <2>5, PrefixMeans
  <2>8. QED
    BY <2>6, <2>7 DEF AfterBom, IsStrictPrefix, B
<1>3. QED
  BY <1>1, <1>2

(* No line the writer makes begins with one.                               *)
LEMMA OutputUnmarked ==
  ASSUME NEW type \in Texts, NEW s \in Texts
  PROVE  Output(type, s) \in Texts /\ NoMark(Output(type, s))
<1> DEFINE n == << LF >>
           T == {t \in Seq(Texts) : NoMark(DataFields[t])}
<1>1. n \in Texts /\ NoMark(n)
  <2>1. n \in Texts /\ n[1] = LF /\ LF # 239
    BY LineFeed, OneByte DEF LF
  <2>2. QED
    BY <2>1 DEF NoMark
<1>2. ASSUME NEW p \in Texts, p # << >>, NoMark(p), NEW r \in Texts
      PROVE  WireLine(p, r) \in Texts /\ NoMark(WireLine(p, r))
  <2>1. r \o n \in Texts
    BY <1>1, Concats
  <2>2. p \o r \o n = p \o (r \o n)
    BY <1>1, <1>2, Concats
  <2>3. p \o (r \o n) \in Texts
    BY <2>1, Concats
  <2>4. NoMark(p \o (r \o n))
    BY <1>2, <2>1, NoMarkParts
  <2>5. WireLine(p, r) = p \o r \o n
    BY DEF WireLine, NewLine, LF
  <2>6. QED
    BY <2>2, <2>3, <2>4, <2>5
<1>3. /\ DataPrefix \in Texts /\ DataPrefix # << >> /\ NoMark(DataPrefix)
      /\ EventPrefix \in Texts /\ EventPrefix # << >> /\ NoMark(EventPrefix)
  <2>1. DataPrefix \in Texts /\ EventPrefix \in Texts
    BY WirePrefixes DEF Introduces
  <2>2. DataPrefix[1] = 100 /\ EventPrefix[1] = 101 /\ Len(DataPrefix) = 6 /\ Len(EventPrefix) = 7
    BY DEF DataPrefix, EventPrefix
  <2>3. DataPrefix # << >> /\ EventPrefix # << >>
    <3>1. Len(<< >>) = 0
      OBVIOUS
    <3>2. QED
      BY <2>2, <3>1
  <2>4. QED
    BY <2>1, <2>2, <2>3 DEF NoMark
<1> HIDE DEF n
<1>4. \A t \in Seq(Texts) : t \in T
  <2>1. << >> \in T
    <3>1. << >> \in Seq(Texts) /\ NoMark(<< >>)
      BY NothingYet DEF NoMark
    <3>2. QED
      BY <3>1, DataFieldsEquation
  <2>2. ASSUME NEW t \in Seq(Texts), t \in T, NEW l \in Texts PROVE Append(t, l) \in T
    <3>1. Append(t, l) \in Seq(Texts) /\ Append(t, l) # << >>
          /\ Front(Append(t, l)) = t /\ Last(Append(t, l)) = l
      BY Fronts
    <3>2. DataFields[Append(t, l)] = DataFields[t] \o WireLine(DataPrefix, l)
      BY <3>1, DataFieldsEquation
    <3>3. DataFields[t] \in Texts /\ NoMark(DataFields[t])
      BY <2>2, DataFieldsEquation
    <3>4. WireLine(DataPrefix, l) \in Texts /\ NoMark(WireLine(DataPrefix, l))
      BY <1>2, <1>3
    <3>5. NoMark(DataFields[t] \o WireLine(DataPrefix, l))
      BY <3>3, <3>4, NoMarkParts
    <3>6. QED
      BY <3>1, <3>2, <3>5
  <2> HIDE DEF T
  <2>3. QED
    BY <2>1, <2>2, ByAppend
<1>5. PICK body \in Texts : body = DataFields[DataLines[s]] /\ NoMark(body)
  <2>1. DataLines[s] \in Seq(Texts)
    BY DataLinesEquation
  <2>2. QED
    BY <1>4, <2>1, DataFieldsEquation
<1>6. PICK head \in Texts : head = TypeLine(type) /\ NoMark(head)
  <2>1. CASE type = << >>
    BY <2>1, Concats DEF TypeLine, NoMark
  <2>2. CASE type # << >>
    BY <1>2, <1>3, <2>2 DEF TypeLine
  <2>3. QED
    BY <2>1, <2>2
<1>7. head \o body \in Texts /\ NoMark(head \o body)
  <2>1. head \o body \in Texts
    BY Concats
  <2>2. QED
    BY <1>5, <1>6, <2>1, NoMarkParts
<1>8. (head \o body) \o n \in Texts /\ NoMark((head \o body) \o n)
  <2>1. (head \o body) \o n \in Texts
    BY <1>1, <1>7, Concats
  <2>2. QED
    BY <1>1, <1>7, <2>1, NoMarkParts
<1>9. Output(type, s) = (head \o body) \o n
  BY <1>5, <1>6 DEF Output, NewLine, LF, n
<1>10. QED
  BY <1>8, <1>9

LEMMA KeepaliveUnmarked == WriteKeepalive \in Texts /\ NoMark(WriteKeepalive)
<1> DEFINE n == << LF >>
           nn == << NewLine, NewLine >>
<1>1. Ping \in Texts /\ Ping # << >> /\ NoMark(Ping)
  BY PingLine DEF NoMark
<1>2. nn \in Texts
  BY DEF NewLine, Byte, Texts
<1> HIDE DEF nn
<1>3. Ping \o nn \in Texts /\ NoMark(Ping \o nn)
  <2>1. Ping \o nn \in Texts
    BY <1>1, <1>2, Concats
  <2>2. QED
    BY <1>1, <1>2, <2>1, NoMarkParts
<1>4. << >> \in Texts /\ NoMark(<< >>)
  BY Concats DEF NoMark
<1>5. QED
  BY <1>3, <1>4 DEF WriteKeepalive, nn

(* The events of the part that was fed are the first ones of all; and when *)
(* all lines fit, so do those of the part.                                 *)
LEMMA FedPart ==
  ASSUME NEW b, NEW A, IsSent(b, A), NoMark(b), NEW f \in Texts, NEW y \in Texts, b = f \o y
  PROVE  /\ IsPrefix(StreamEvents(f), EventsOf[A])
         /\ TooLong(AllLines(f)) => ~Fits(A)
         /\ TooLarge(AllLines(f)) => ~Fits(A)
         /\ y = << >> => StreamEvents(f) = EventsOf[A]
<1>1. PICK d : Sent(b, d, A)
  BY DEF IsSent
<1>2. /\ b \in Texts /\ d \in Texts /\ A \in Seq(Texts) /\ LinesOf[d] = Append(A, << >>)
      /\ Reads(<< >>, b, d, << >>)
  BY <1>1 DEF Sent
<1>3. Text[b] = d
  <2> DEFINE e == << >>
  <2>1. /\ e \in Texts /\ e \o (b \o e) = b /\ d \o e = d /\ e \o e = e
    <3>1. b \o << >> = b /\ << >> \o b = b /\ d \o << >> = d /\ << >> \in Texts
      BY <1>2, Concats
    <3>2. << >> \o << >> = << >>
      BY <3>1, Concats
    <3>3. QED
      BY <3>1, <3>2
  <2>2. Text[e] = e
    BY TextOfNothing
  <2>3. Reads(e, b, d, e)
    BY <1>2
  <2> HIDE DEF e
  <2>4. Text[e \o (b \o e)] = d \o Text[e \o e]
    BY <2>1, <2>3 DEF Reads
  <2>5. QED
    BY <2>1, <2>2, <2>4
<1>4. NoMark(f)
  BY NoMarkBefore
<1>5. StreamText(b) = d /\ StreamText(f) = Text[f]
  BY <1>2, <1>3, <1>4, NoMarkText DEF StreamText
<1>6. PICK t \in Texts, x \in Texts : t = Text[f] /\ d = t \o x
  BY <1>3, TextGrows, TextType
<1>7. /\ IsPrefix(EventsOf[Front(LinesOf[t])], EventsOf[Front(LinesOf[d])])
      /\ TooLong(LinesOf[t]) => TooLong(LinesOf[d])
      /\ TooLarge(LinesOf[t]) => TooLarge(LinesOf[d])
  BY <1>6, ShownStays DEF Texts
<1>8. Front(LinesOf[d]) = A
  <2>1. << >> \in Texts
    BY Concats
  <2>2. QED
    BY <1>2, <2>1, Fronts
<1>9. AllLines(f) = LinesOf[t] /\ StreamEvents(f) = EventsOf[Front(LinesOf[t])]
  BY <1>5, <1>6 DEF AllLines, StreamEvents, StreamLines
<1>10. y = << >> => t = d
  BY <1>3, <1>6, Concats
<1>11. QED
  BY <1>2, <1>7, <1>8, <1>9, <1>10 DEF Fits

-----------------------------------------------------------------------------
(***************************************************************************)
(* The two ends together.                                                  *)
(***************************************************************************)

Writes == [type : Texts, data : Texts]

SeenOf(ws) == [i \in DOMAIN ws |-> Seen(ws[i])]

Faultless(ws) ==
  \A i \in DOMAIN ws : WellFormedText(ws[i].data) /\ WellFormedText(ws[i].type)

(* b is all that was sent, A its lines: their events are those of the      *)
(* writes, and what the parser was fed is the first part of it; while all  *)
(* is well the rest is on the wire.                                        *)
OnWire(b, A) ==
  /\ IsSent(b, A) /\ Quiet(A, SeenAll) /\ b \in Texts /\ NoMark(b)
  /\ \E y \in Texts : b = fed \o y /\ (lastError = OK => y = wire)
  /\ LimitsFit /\ Faultless(written) => Fits(A)

IsSequence(s) == \E S : s \in Seq(S)

WireInv ==
  /\ Inv /\ StreamInv /\ IsSequence(events)
  /\ wire \in Texts /\ written \in Seq(Writes)
  /\ \E b, A : OnWire(b, A)

(* One write more is one event more to be seen.                            *)
LEMMA SeenOneMore ==
  ASSUME NEW ws \in Seq(Writes), NEW w \in Writes, NEW more, more = Append(ws, w)
  PROVE  /\ SeenOf(more) = Append(SeenOf(ws), Seen(w))
         /\ Faultless(more) => Faultless(ws) /\ WellFormedText(w.data) /\ WellFormedText(w.type)
<1> DEFINE U == {Seen(v) : v \in Writes}
           n == Len(ws)
           s == [i \in DOMAIN ws |-> Seen(ws[i])]
           t == [i \in DOMAIN more |-> Seen(more[i])]
           e == Seen(w)
<1>1. /\ n \in Nat /\ DOMAIN ws = 1 .. n /\ DOMAIN more = 1 .. n + 1
      /\ \A i \in 1 .. n : ws[i] \in Writes /\ more[i] = ws[i]
      /\ more[n + 1] = w
  <2> HIDE DEF Writes
  <2>1. n \in Nat /\ DOMAIN ws = 1 .. n /\ \A i \in 1 .. n : ws[i] \in Writes
    BY LenProperties, ElementOfSeq
  <2>2. more \in Seq(Writes) /\ Len(more) = n + 1 /\ more[n + 1] = w
        /\ \A i \in 1 .. n : more[i] = ws[i]
    BY AppendProperties
  <2>3. DOMAIN more = 1 .. n + 1
    BY <2>2, LenProperties
  <2>4. QED
    BY <2>1, <2>2, <2>3
<1> HIDE DEF n
<1>2. /\ e \in U /\ \A i \in 1 .. n : Seen(ws[i]) \in U
  BY <1>1
<1>3. s = [i \in 1 .. n |-> Seen(ws[i])] /\ t = [i \in 1 .. n + 1 |-> Seen(more[i])]
  BY <1>1
<1>4. /\ \A i \in 1 .. n : s[i] = Seen(ws[i]) /\ t[i] = s[i]
      /\ t[n + 1] = e
  <2>1. \A i \in 1 .. n : i \in 1 .. n + 1
    BY <1>1
  <2>2. n + 1 \in 1 .. n + 1
    BY <1>1
  <2>3. QED
    BY <1>1, <1>3, <2>1, <2>2
<1>5. s \in [1 .. n -> U] /\ t \in [1 .. n + 1 -> U]
  <2>1. \A i \in 1 .. n + 1 : i \in 1 .. n \/ i = n + 1
    BY <1>1
  <2>2. \A i \in 1 .. n + 1 : Seen(more[i]) \in U
    BY <1>1, <1>2, <2>1
  <2> HIDE DEF U
  <2>3. QED
    BY <1>2, <1>3, <2>2
<1> HIDE DEF U, s, t, e
<1>6. s \in Seq(U) /\ Len(s) = n /\ t \in Seq(U) /\ Len(t) = n + 1
  BY <1>1, <1>5
<1>7. /\ Append(s, e) \in Seq(U) /\ Len(Append(s, e)) = n + 1
      /\ \A i \in 1 .. n : Append(s, e)[i] = s[i]
      /\ Append(s, e)[n + 1] = e
  BY <1>2, <1>6, AppendProperties
<1>8. \A i \in 1 .. n + 1 : t[i] = Append(s, e)[i]
  <2>1. \A i \in 1 .. n + 1 : i \in 1 .. n \/ i = n + 1
    BY <1>1
  <2>2. QED
    BY <1>4, <1>7, <2>1
<1>9. t = Append(s, e)
  BY <1>6, <1>7, <1>8, SeqEqual
<1>10. Faultless(more) => Faultless(ws) /\ WellFormedText(w.data) /\ WellFormedText(w.type)
  <2>1. (\A i \in 1 .. n : i \in DOMAIN more) /\ n + 1 \in DOMAIN more
    BY <1>1
  <2>2. QED
    BY <1>1, <2>1 DEF Faultless
<1>11. QED
  BY <1>9, <1>10 DEF s, t, e, SeenOf

(* Nothing has been written or fed.                                        *)
LEMMA InitWire == WireInit => WireInv
<1> SUFFICES ASSUME WireInit PROVE WireInv
  OBVIOUS
<1> DEFINE e == << >>
<1>1. Init /\ wire = e /\ written = e /\ fed = e
  BY DEF WireInit, Init
<1>2. Inv /\ StreamInv
  BY <1>1, InitInv, InitStream
<1>3. e \in Texts /\ e \o e = e /\ NoMark(e)
  BY Concats DEF NoMark
<1>4. IsSent(e, e)
  BY NothingSent DEF IsSent
<1>5. SeenAll = e
  BY <1>1 DEF SeenAll
<1>6. EventsOf[e] = e /\ StreamId(e) = e /\ OpenBlock(e) = e
  BY EventsEquation, EmptyBlock, NothingYet
<1>7. Fits(e)
  BY NothingYet DEF Fits
<1>8. wire \in Texts /\ written \in Seq(Writes) /\ IsSequence(events)
  <2>1. events = e /\ e \in Seq(Writes)
    BY <1>1 DEF Init
  <2>2. QED
    BY <1>1, <1>3, <2>1 DEF IsSequence
<1> HIDE DEF e
<1>9. Quiet(e, SeenAll)
  BY <1>5, <1>6 DEF Quiet, e
<1>10. \E y \in Texts : e = fed \o y /\ (lastError = OK => y = wire)
  BY <1>1, <1>3
<1>11. OnWire(e, e)
  BY <1>3, <1>4, <1>7, <1>9, <1>10 DEF OnWire
<1>12. QED
  BY <1>2, <1>8, <1>11 DEF WireInv

(* Bytes are sent: x behind b, and the events become E.                    *)
LEMMA MoreOnWire ==
  ASSUME WireInv, UNCHANGED vars, NEW b, NEW A, OnWire(b, A), NEW x \in Texts, NoMark(x),
         wire' = wire \o x, written' \in Seq(Writes),
         NEW B, IsSent(b \o x, B), Quiet(B, SeenAll'),
         LimitsFit /\ Faultless(written') => Fits(B)
  PROVE  WireInv'
<1>1. Inv' /\ StreamInv'
  <2>1. Inv'
    BY NextInv DEF WireInv
  <2>2. StreamInv'
    BY NothingHappens DEF WireInv
  <2>3. QED
    BY <2>1, <2>2
<1>0. IsSequence(events')
  BY DEF WireInv, vars
<1>2. fed' = fed /\ lastError' = lastError /\ fed \in Texts /\ wire \in Texts /\ b \in Texts
  BY DEF vars, history, WireInv, Inv, TypeOK, Texts, OnWire
<1>3. PICK y \in Texts : b = fed \o y /\ (lastError = OK => y = wire)
  BY DEF OnWire
<1>4. /\ wire \o x \in Texts /\ b \o x \in Texts /\ y \o x \in Texts
      /\ (fed \o y) \o x = fed \o (y \o x)
  BY <1>2, Concats
<1>5. NoMark(b \o x)
  BY <1>2, NoMarkParts DEF OnWire
<1>6. \E z \in Texts : b \o x = fed' \o z /\ (lastError' = OK => z = wire')
  BY <1>2, <1>3, <1>4
<1>7. OnWire(b \o x, B)'
  BY <1>4, <1>5, <1>6 DEF OnWire
<1>8. QED
  BY <1>0, <1>1, <1>4, <1>7 DEF WireInv

(* The server writes an event: it is sent as that event, or refused.       *)
LEMMA WriteWire ==
  ASSUME WireInv, NEW type \in Types, NEW payload \in Datas, Write(type, payload)
  PROVE  WireInv'
<1>1. PICK b, A : OnWire(b, A)
  BY DEF WireInv
<1>2. type \in Texts /\ payload \in Texts
  BY WireAssumption DEF Texts
<1>3. /\ UNCHANGED vars /\ written \in Seq(Writes) /\ wire \in Texts
      /\ IsSent(b, A) /\ Quiet(A, SeenAll) /\ (LimitsFit /\ Faultless(written) => Fits(A))
      /\ b \in Texts
  BY <1>1 DEF Write, WireInv, OnWire
<1>4. CASE WriteError(type, payload) = "OK"
  <2> DEFINE w == [type |-> type, data |-> payload]
             x == Output(type, payload)
  <2>1. /\ x \in Texts /\ NoMark(x) /\ w \in Writes /\ w.type = type /\ w.data = payload
        /\ w = [type |-> type, data |-> payload]
    BY <1>2, OutputUnmarked DEF Writes
  <2>2. wire' = wire \o x /\ written' = Append(written, w)
    BY <1>4 DEF Write, WriteEvent
  <2> HIDE DEF w, x
  <2>3. PICK B : /\ IsSent(b \o x, B) /\ Quiet(B, Append(SeenAll, Seen(w)))
                 /\ LimitsFit /\ Fits(A) /\ WellFormedText(type) /\ WellFormedText(payload)
                      => Fits(B)
    <3>1. PICK d : Sent(b, d, A)
      BY <1>3 DEF IsSent
    <3>2. \E B : /\ IsSent(b \o Output(type, payload), B)
                 /\ Quiet(B, Append(SeenAll, Seen(w)))
                 /\ LimitsFit /\ Fits(A) /\ WellFormedText(type) /\ WellFormedText(payload)
                      => Fits(B)
      BY <1>2, <1>3, <1>4, <2>1, <3>1, EventSent
    <3>3. QED
      BY <3>2 DEF x
  <2>4. /\ SeenAll' = Append(SeenAll, Seen(w))
        /\ Faultless(written') => Faultless(written) /\ WellFormedText(w.data) /\ WellFormedText(w.type)
    <3>1. PICK ws, more : ws = written /\ more = written' /\ ws \in Seq(Writes)
      BY <1>3
    <3>2. more = Append(ws, w)
      BY <2>2, <3>1
    <3>3. /\ SeenOf(more) = Append(SeenOf(ws), Seen(w))
          /\ Faultless(more) => Faultless(ws) /\ WellFormedText(w.data) /\ WellFormedText(w.type)
      BY <2>1, <3>1, <3>2, SeenOneMore
    <3>4. SeenAll = SeenOf(ws) /\ SeenAll' = SeenOf(more)
      BY <3>1 DEF SeenAll, SeenOf
    <3>5. QED
      BY <3>1, <3>3, <3>4
  <2>5. written' \in Seq(Writes)
    BY <1>3, <2>1, <2>2, AppendProperties
  <2>6. Quiet(B, SeenAll')
    BY <2>3, <2>4
  <2>7. LimitsFit /\ Faultless(written') => Fits(B)
    BY <1>3, <2>1, <2>3, <2>4
  <2>8. QED
    BY <1>1, <1>3, <2>1, <2>2, <2>3, <2>5, <2>6, <2>7, MoreOnWire
<1>5. CASE WriteError(type, payload) # "OK"
  <2> DEFINE x == << >>
  <2>1. wire' = wire \o x /\ written' = written
    BY <1>5 DEF Write, WriteEvent
  <2>2. x \in Texts /\ NoMark(x) /\ b \o x = b
    BY <1>3, Concats DEF NoMark
  <2> HIDE DEF x
  <2>3. SeenAll' = SeenAll /\ (Faultless(written') <=> Faultless(written))
    BY <2>1 DEF SeenAll
  <2>4. IsSent(b \o x, A) /\ Quiet(A, SeenAll') /\ (LimitsFit /\ Faultless(written') => Fits(A))
    BY <1>3, <2>2, <2>3
  <2>5. QED
    BY <1>1, <1>3, <2>1, <2>2, <2>4, MoreOnWire
<1>6. QED
  BY <1>4, <1>5

(* A keepalive is sent, and no event.                                      *)
LEMMA KeepaliveWire ==
  ASSUME WireInv, Keepalive
  PROVE  WireInv'
<1>1. PICK b, A : OnWire(b, A)
  BY DEF WireInv
<1> DEFINE x == WriteKeepalive
<1>2. /\ UNCHANGED vars /\ written' = written /\ written \in Seq(Writes)
      /\ wire' = wire \o x
      /\ IsSent(b, A) /\ Quiet(A, SeenAll) /\ (LimitsFit /\ Faultless(written) => Fits(A))
  BY <1>1 DEF Keepalive, WireInv, OnWire
<1>3. x \in Texts /\ NoMark(x)
  BY KeepaliveUnmarked
<1>4. SeenAll' = SeenAll /\ (Faultless(written') <=> Faultless(written))
  BY <1>2 DEF SeenAll
<1>5. PICK B : /\ IsSent(b \o x, B) /\ Quiet(B, SeenAll)
               /\ LimitsFit /\ Fits(A) => Fits(B)
  <2>1. PICK d : Sent(b, d, A)
    BY <1>2 DEF IsSent
  <2>2. QED
    BY <1>2, <2>1, KeepaliveSent
<1> HIDE DEF x
<1>6. Quiet(B, SeenAll') /\ (LimitsFit /\ Faultless(written') => Fits(B))
  BY <1>2, <1>4, <1>5
<1>7. QED
  BY <1>1, <1>2, <1>3, <1>5, <1>6, MoreOnWire

(* What the parser does with what it was fed leaves the wire alone.        *)
LEMMA SameOnWire ==
  ASSUME WireInv, Inv', StreamInv', UNCHANGED wireVars, fed' = fed, IsSequence(events'),
         lastError' = OK => lastError = OK
  PROVE  WireInv'
<1>1. PICK b, A : OnWire(b, A)
  BY DEF WireInv
<1>2. wire' = wire /\ written' = written
  BY DEF wireVars
<1>3. SeenAll' = SeenAll /\ (Faultless(written') <=> Faultless(written))
  BY <1>2 DEF SeenAll
<1>4. OnWire(b, A)'
  BY <1>1, <1>2, <1>3 DEF OnWire
<1>5. QED
  BY <1>2, <1>4 DEF WireInv

(* What arrives and what is left are what was on the wire.                 *)
LEMMA CutAt ==
  ASSUME NEW s \in Texts, NEW k \in Nat, k <= Len(s)
  PROVE  /\ SubSeq(s, 1, k) \in Texts /\ SubSeq(s, k + 1, Len(s)) \in Texts
         /\ s = SubSeq(s, 1, k) \o SubSeq(s, k + 1, Len(s))
<1> DEFINE n == Len(s)
<1>1. /\ n \in Nat /\ n = Len(s) /\ s \in Seq(Byte) /\ \A i \in 1 .. n : s[i] \in Byte
  BY LenProperties, ElementOfSeq DEF Texts
<1> HIDE DEF n
<1>2. /\ (\A i \in 1 .. k : s[i] \in Byte) /\ (\A i \in k + 1 .. n : s[i] \in Byte)
      /\ 1 \in Int /\ k \in Int /\ k + 1 \in Int /\ n \in Int
  BY <1>1
<1>3. SubSeq(s, 1, k) \in Seq(Byte) /\ SubSeq(s, k + 1, n) \in Seq(Byte)
  BY <1>1, <1>2, SubSeqProperties
<1>4. SubSeq(s, 1, k) \o SubSeq(s, k + 1, n) = SubSeq(s, 1, n)
  <2>1. 1 \in 1 .. n + 1 /\ k \in 1 - 1 .. n /\ n \in k .. n
    BY <1>1
  <2>2. QED
    BY <1>1, <2>1, ConcatAdjacentSubSeq
<1>5. SubSeq(s, 1, n) = s
  BY <1>1, SubSeqFull
<1>6. QED
  BY <1>3, <1>4, <1>5 DEF Texts, n

(* A piece of what is on the wire arrives and is fed.                      *)
LEMMA ReceiveWire ==
  ASSUME WireInv, NEW n \in Pieces, Receive(n)
  PROVE  WireInv'
<1>1. PICK b, A : OnWire(b, A)
  BY DEF WireInv
<1>2. PICK k \in Nat : k = Smaller(n, Len(wire)) /\ k <= Len(wire)
  <2>1. Len(wire) \in Nat /\ n \in Nat
    BY WireAssumption, LenProperties DEF WireInv, Texts
  <2>2. QED
    BY <2>1 DEF Smaller
<1>3. PICK chunk, rest : /\ chunk = SubSeq(wire, 1, k)
                         /\ rest = SubSeq(wire, k + 1, Len(wire))
  OBVIOUS
<1>4. chunk \in Texts /\ rest \in Texts /\ wire = chunk \o rest
  <2>1. wire \in Texts
    BY DEF WireInv
  <2>2. k \in Nat /\ k <= Len(wire)
    BY <1>2
  <2>3. /\ SubSeq(wire, 1, k) \in Texts /\ SubSeq(wire, k + 1, Len(wire)) \in Texts
        /\ wire = SubSeq(wire, 1, k) \o SubSeq(wire, k + 1, Len(wire))
    BY <2>1, <2>2, CutAt
  <2>4. QED
    BY <1>3, <2>3, Zenon
<1>5. /\ FeedAccepted(chunk) \/ FeedOverTotal(chunk)
      /\ wire' = rest /\ written' = written
  BY <1>2, <1>3 DEF Receive
<1>6. chunk \in Seq(Byte) /\ Feed(chunk)
  BY <1>4, <1>5 DEF Feed, Texts
<1>7. Inv' /\ StreamInv'
  BY <1>6, FeedStep, FeedStream DEF WireInv
<1>8. SeenAll' = SeenAll /\ (Faultless(written') <=> Faultless(written))
  BY <1>5 DEF SeenAll
<1>9. PICK y \in Texts : b = fed \o y /\ (lastError = OK => y = wire)
  BY <1>1 DEF OnWire
<1>10. fed \in Texts /\ lastError = OK
  BY <1>5 DEF WireInv, Inv, TypeOK, Texts, FeedAccepted, FeedOverTotal
<1>11. \E z \in Texts : b = fed' \o z /\ (lastError' = OK => z = wire')
  <2>1. CASE FeedAccepted(chunk)
    <3>1. fed' = fed \o chunk
      BY <2>1 DEF FeedAccepted
    <3>2. (fed \o chunk) \o rest = fed \o (chunk \o rest)
      BY <1>4, <1>10, Concats
    <3>3. b = fed' \o rest
      BY <1>4, <1>9, <1>10, <3>1, <3>2
    <3>4. QED
      BY <1>4, <1>5, <3>3
  <2>2. CASE FeedOverTotal(chunk)
    <3>1. fed' = fed /\ lastError' # OK
      BY <2>2 DEF FeedOverTotal, Fail, history, OK
    <3>2. QED
      BY <1>9, <3>1
  <2>3. QED
    BY <1>5, <2>1, <2>2
<1>12. OnWire(b, A)'
  BY <1>1, <1>8, <1>11 DEF OnWire
<1>13. IsSequence(events')
  BY <1>5 DEF WireInv, FeedAccepted, FeedOverTotal
<1>14. QED
  BY <1>4, <1>5, <1>7, <1>12, <1>13 DEF WireInv

(* sse_process_byte.                                                       *)
LEMMA ParseWire ==
  ASSUME WireInv, Parse
  PROVE  WireInv'
<1>1. Inv /\ StreamInv /\ Process /\ UNCHANGED wireVars
  BY DEF WireInv, Parse
<1>2. Inv'
  BY <1>1, ProcessStep
<1>3. StreamInv'
  BY <1>1, <1>2, NextStream DEF Next
<1>4. lastError = OK
  BY <1>1 DEF Process, Inv
<1>5. fed' = fed
  BY <1>1 DEF Process, HoldBom, DropBom, ReplayBom, SkipLf, BreakSequence, ContinueSequence,
              StartByte, FrameAborted, BlankLine, Dispatch, DispatchAborted, DataField,
              EventField, IdField, RetryField, OtherLine, history
<1>6. events' = events \/ events' = Append(events, Event)
  BY <1>1 DEF Process, HoldBom, DropBom, ReplayBom, SkipLf, BreakSequence, ContinueSequence,
              StartByte, FrameAborted, BlankLine, Dispatch, DispatchAborted, DataField,
              EventField, IdField, RetryField, OtherLine
<1>7. IsSequence(events')
  <2>1. PICK S : events \in Seq(S)
    BY DEF WireInv, IsSequence
  <2>2. PICK e : e = Event
    OBVIOUS
  <2> DEFINE T == S \cup {e}
  <2>3. S \subseteq T /\ e \in T
    OBVIOUS
  <2> HIDE DEF T
  <2>4. events \in Seq(T)
    BY <2>1, <2>3, SeqMonotonic
  <2>5. Append(events, e) \in Seq(T)
    BY <2>3, <2>4, AppendProperties
  <2>6. events' \in Seq(T)
    BY <1>6, <2>2, <2>4, <2>5
  <2>7. QED
    BY <2>6 DEF IsSequence
<1>8. QED
  BY <1>1, <1>2, <1>3, <1>4, <1>5, <1>7, SameOnWire

(* Every step of either end keeps the invariant.                           *)
LEMMA NextWire == WireInv /\ [WireNext]_allVars => WireInv'
<1> SUFFICES ASSUME WireInv, [WireNext]_allVars PROVE WireInv'
  OBVIOUS
<1>1. CASE UNCHANGED allVars
  <2>1. UNCHANGED vars /\ UNCHANGED wireVars
    BY <1>1 DEF allVars
  <2>2. Inv' /\ StreamInv'
    BY <2>1, NextInv, NothingHappens DEF WireInv
  <2>3. fed' = fed /\ lastError' = lastError
    BY <2>1 DEF vars, history
  <2>4. IsSequence(events')
    BY <2>1 DEF vars, WireInv
  <2>5. QED
    BY <2>1, <2>2, <2>3, <2>4, SameOnWire
<1>2. CASE WireNext
  BY <1>2, WriteWire, KeepaliveWire, ReceiveWire, ParseWire DEF WireNext
<1>3. QED
  BY <1>1, <1>2

LEMMA WireInvariance == WireSpec => []WireInv
BY InitWire, NextWire, PTL DEF WireSpec

(* What the parser has handed over and how it has failed, by the stream.   *)
LEMMA HandedOver ==
  ASSUME Inv, StreamInv
  PROVE  /\ IsPrefix(events, StreamEvents(fed))
         /\ lastError = "OVERFLOW_LINE" => TooLong(AllLines(fed))
         /\ lastError = "OVERFLOW_FRAME" => TooLarge(AllLines(fed))
         /\ Returned /\ lastError = OK => events = StreamEvents(fed)
<1>1. CASE lastError = OK
  <2>1. PICK d \in Texts, L \in Seq(Texts) : Standing(d, L) /\ Ahead(d)
    BY <1>1 DEF StreamInv, Understood
  <2>2. IsPrefix(events, StreamEvents(fed))
    BY <2>1, StandingShows
  <2>3. Returned => events = StreamEvents(fed)
    BY <1>1, ReadWhole DEF StreamEvents
  <2>4. lastError # "OVERFLOW_LINE" /\ lastError # "OVERFLOW_FRAME"
    BY <1>1 DEF OK
  <2>5. QED
    BY <2>2, <2>3, <2>4
<1>2. CASE lastError # OK
  BY <1>2 DEF StreamInv, ShownOnly
<1>3. QED
  BY <1>1, <1>2

(* First events of first events are first events.                          *)
LEMMA PrefixOfPrefix ==
  ASSUME NEW S, NEW r, Len(r) \in Nat, NEW s \in Seq(S), NEW t \in Seq(S),
         IsPrefix(r, s), IsPrefix(s, t)
  PROVE  IsPrefix(r, t)
<1> DEFINE n == Len(r)
           a == SubSeq(s, 1, n)
           c == SubSeq(t, 1, n)
<1>1. n \in Nat /\ Len(s) \in Nat /\ Len(t) \in Nat
  BY LenProperties
<1>2. n <= Len(s) /\ SubSeq(r, 1, n) = a
  BY DEF IsPrefix
<1>3. Len(s) <= Len(t) /\ \A i \in 1 .. Len(s) : s[i] = t[i]
  BY PrefixMeans
<1> HIDE DEF n
<1>4. /\ n <= Len(t) /\ 1 \in Int /\ n \in Int
      /\ \A i \in 1 .. n : i \in 1 .. Len(s) /\ i \in 1 .. Len(t)
  BY <1>1, <1>2, <1>3
<1>5. (\A i \in 1 .. n : s[i] \in S) /\ \A i \in 1 .. n : t[i] \in S
  BY <1>4, ElementOfSeq
<1>6. /\ a \in Seq(S) /\ Len(a) = (IF 1 <= n THEN n - 1 + 1 ELSE 0)
      /\ \A i \in 1 .. n - 1 + 1 : a[i] = s[1 + i - 1]
  BY <1>4, <1>5, SubSeqProperties
<1>7. /\ c \in Seq(S) /\ Len(c) = (IF 1 <= n THEN n - 1 + 1 ELSE 0)
      /\ \A i \in 1 .. n - 1 + 1 : c[i] = t[1 + i - 1]
  BY <1>4, <1>5, SubSeqProperties
<1> HIDE DEF a, c
<1>8. Len(a) = n /\ \A i \in 1 .. n : i \in 1 .. n - 1 + 1 /\ 1 + i - 1 = i
  BY <1>1, <1>6
<1>9. \A i \in 1 .. Len(a) : a[i] = c[i]
  BY <1>3, <1>4, <1>6, <1>7, <1>8
<1>10. a = c
  BY <1>6, <1>7, <1>9, SeqEqual
<1>11. n <= Len(t) /\ SubSeq(r, 1, n) = c
  BY <1>2, <1>4, <1>10
<1>12. QED
  BY <1>11 DEF IsPrefix, n, c

(* The invariant says what the parser makes of what the server wrote.      *)
LEMMA WireShows ==
  ASSUME WireInv
  PROVE  /\ IsPrefix(events, SeenAll)
         /\ Returned /\ lastError = OK /\ wire = << >> => events = SeenAll
         /\ LimitsFit /\ Faultless(written) => lastError \notin {"OVERFLOW_LINE", "OVERFLOW_FRAME"}
<1>1. PICK b, A : OnWire(b, A)
  BY DEF WireInv
<1>2. /\ IsSent(b, A) /\ NoMark(b) /\ EventsOf[A] = SeenAll
      /\ LimitsFit /\ Faultless(written) => Fits(A)
  BY <1>1 DEF OnWire, Quiet
<1>3. PICK y \in Texts : b = fed \o y /\ (lastError = OK => y = wire)
  BY <1>1 DEF OnWire
<1>4. fed \in Texts
  BY DEF WireInv, Inv, TypeOK, Texts
<1>5. /\ IsPrefix(StreamEvents(fed), SeenAll)
      /\ TooLong(AllLines(fed)) => ~Fits(A)
      /\ TooLarge(AllLines(fed)) => ~Fits(A)
      /\ y = << >> => StreamEvents(fed) = SeenAll
  <2>1. IsPrefix(StreamEvents(fed), EventsOf[A])
    BY <1>2, <1>3, <1>4, FedPart
  <2>2. (TooLong(AllLines(fed)) => ~Fits(A)) /\ (TooLarge(AllLines(fed)) => ~Fits(A))
    BY <1>2, <1>3, <1>4, FedPart
  <2>3. y = << >> => StreamEvents(fed) = EventsOf[A]
    BY <1>2, <1>3, <1>4, FedPart
  <2>4. QED
    BY <1>2, <2>1, <2>2, <2>3
<1>6. /\ IsPrefix(events, StreamEvents(fed))
      /\ lastError = "OVERFLOW_LINE" => TooLong(AllLines(fed))
      /\ lastError = "OVERFLOW_FRAME" => TooLarge(AllLines(fed))
      /\ Returned /\ lastError = OK => events = StreamEvents(fed)
  BY HandedOver DEF WireInv
<1>7. IsPrefix(events, SeenAll)
  <2>1. AllLines(fed) \in Seq(Texts) \ {<< >>}
    BY <1>4, AfterBomType, TextType, LinesEquation DEF AllLines, StreamText, Texts
  <2>2. StreamLines(fed) \in Seq(Texts)
    BY <2>1, Fronts DEF StreamLines
  <2>3. A \in Seq(Texts)
    BY <1>2 DEF IsSent, Sent
  <2>4. StreamEvents(fed) \in Seq(Dispatched) /\ SeenAll \in Seq(Dispatched)
    BY <1>2, <2>2, <2>3, EventsEquation DEF StreamEvents, Texts
  <2>5. PICK S : events \in Seq(S)
    BY DEF WireInv, IsSequence
  <2>6. Len(events) \in Nat
    BY <2>5, LenProperties
  <2>7. QED
    BY <1>5, <1>6, <2>4, <2>6, PrefixOfPrefix
<1>8. QED
  BY <1>2, <1>3, <1>5, <1>6, <1>7

(* Every event that sse_write_event accepts, and nothing else, reaches     *)
(* on_event, in order and unchanged, whatever pieces the stream arrives    *)
(* in, however the parser is configured, and with keepalives in between:   *)
(* all of them once sse_feed has returned SSE_OK for the whole stream, and *)
(* the first ones of them when it has failed.                              *)
THEOREM WhatIsWrittenIsRead == WireSpec => []RoundTrip
<1>1. WireInv => RoundTrip
  BY WireShows DEF RoundTrip
<1>2. QED
  BY <1>1, WireInvariance, PTL

(* When the parser's max_line_bytes and max_frame_bytes are no tighter     *)
(* than the writer's, no event of well-formed text that the writer accepts *)
(* makes sse_feed fail for a line or a frame too long: both ends count the *)
(* same bytes, field names and separating LFs included.                    *)
THEOREM WriterKeepsTheLimits ==
  ASSUME LimitsFit
  PROVE  WireSpec => []SameLimitsAgree
<1>1. WireInv => SameLimitsAgree
  BY WireShows DEF SameLimitsAgree, Faultless
<1>2. QED
  BY <1>1, WireInvariance, PTL

=============================================================================
