--------------------------- MODULE ChatStreamProofs ---------------------------
(***************************************************************************)
(* For every set of events, argument limit, word size and number of        *)
(* frames: a chat stream keeps its types and bounds, and what it promises. *)
(***************************************************************************)
EXTENDS ChatStream, SequenceTheorems, WellFoundedInduction, TLAPS

Accumulator == [active : BOOLEAN, sawArgs : BOOLEAN, frozen : BOOLEAN,
                args : Seq(Raw \cup Plain)]
Callback == [call : CallNames, index : ToolIndices \cup {NoIndex},
             args : Seq(Raw \cup Plain)]

(* The callbacks of a delta event's text are well-formed, and none of them *)
(* completes a tool call.                                                  *)
LEMMA TextCallsType ==
  ASSUME NEW e
  PROVE  /\ TextCalls(e) \in Seq(Callback)
         /\ \A p \in DOMAIN TextCalls(e) : TextCalls(e)[p].call # "args_complete"
<1> DEFINE Part(p) == IF p \in e.parts /\ (p = "usage" => IncludeUsage)
                      THEN << Call(p, NoIndex, << >>) >>
                      ELSE << >>
           Text == {c \in Callback : c.call # "args_complete"}
<1>1. ASSUME NEW p \in Parts PROVE Part(p) \in Seq(Text)
  <2>1. Call(p, NoIndex, << >>) \in Text
    BY DEF Call, Callback, CallNames, Parts
  <2>2. QED
    BY <2>1
<1>2. Part("content") \in Seq(Text) /\ Part("reasoning") \in Seq(Text)
        /\ Part("usage") \in Seq(Text)
  BY <1>1 DEF Parts
<1>3. TextCalls(e) = Part("content") \o Part("reasoning") \o Part("usage")
  BY DEF TextCalls
<1> HIDE DEF Part
<1>4. TextCalls(e) \in Seq(Text)
  BY <1>2, <1>3
<1>5. QED
  BY <1>4

(* So are those of a tool delta.                                           *)
LEMMA DeltaCallsType ==
  ASSUME NEW d \in Delta
  PROVE  /\ DeltaCalls(d) \in Seq(Callback)
         /\ \A p \in DOMAIN DeltaCalls(d) : DeltaCalls(d)[p].call # "args_complete"
<1> DEFINE Text == {c \in Callback : c.call # "args_complete"}
<1>1. d.index \in ToolIndices /\ d.args \in Seq(Raw)
  BY DEF Delta
<1>2. d.args \in Seq(Raw \cup Plain)
  BY <1>1
<1>3. /\ Call("tool_call_delta", d.index, << >>) \in Text
      /\ Call("args_fragment", d.index, d.args) \in Text
  BY <1>1, <1>2 DEF Call, Callback, CallNames
<1> HIDE DEF Text
<1>4. DeltaCalls(d) \in Seq(Text)
  BY <1>3 DEF DeltaCalls
<1>5. QED
  BY <1>4 DEF Text

(* accum_feed_delta.                                                       *)
LEMMA AccumulateType ==
  ASSUME NEW a \in Accumulator, NEW d \in Delta
  PROVE  /\ Accumulate(a, d) \in Accumulator
         /\ Accumulate(a, d).active
         /\ Accumulate(a, d).frozen = a.frozen
         /\ Accumulate(a, d).args = IF d.hasArgs THEN a.args \o d.args ELSE a.args
<1>1. d.args \in Seq(Raw \cup Plain) /\ d.hasArgs \in BOOLEAN
  BY DEF Delta
<1>2. a.sawArgs \/ d.hasArgs \in BOOLEAN
  BY <1>1
<1>3. (IF d.hasArgs THEN a.args \o d.args ELSE a.args) \in Seq(Raw \cup Plain)
  BY <1>1 DEF Accumulator
<1>4. QED
  BY <1>2, <1>3 DEF Accumulate, Accumulator

(* Where the array covers the entry that is written next, its number of    *)
(* entries has not wrapped, and neither has its size.                      *)
LEMMA WrappedType ==
  ASSUME NEW n \in Nat
  PROVE  Wrapped(n) \in 0 .. SizeMax /\ Wrapped(n) <= n
BY WordAssumption DEF Wrapped

LEMMA GrownType ==
  ASSUME NEW d, d.index \in ToolIndices, accumsCount \in 0 .. SizeMax, Covers(d)
  PROVE  /\ Grown(d) \in 0 .. SizeMax
         /\ Grown(d) > d.index
         /\ Grown(d) >= accumsCount
         /\ \/ Grown(d) = accumsCount
            \/ Grown(d) = d.index + 1 /\ Grown(d) * AccumSize <= SizeMax
<1>1. d.index \in Nat /\ accumsCount \in Nat
  BY WordAssumption DEF ToolIndices
<1>2. CASE d.index < accumsCount
  <2>1. Grown(d) = accumsCount
    BY <1>1, <1>2 DEF Grown
  <2>2. QED
    BY <1>1, <1>2, <2>1
<1>3. CASE d.index >= accumsCount
  <2>1. Grown(d) = NewCount(d)
    BY <1>3 DEF Grown
  <2>2. d.index < NewCount(d) /\ NewCount(d) * AccumSize <= Asked(d)
    BY <1>3 DEF Covers
  <2>3. NewCount(d) \in 0 .. SizeMax /\ NewCount(d) <= d.index + 1
    BY <1>1, WrappedType DEF NewCount
  <2>4. NewCount(d) * AccumSize \in Nat
    BY <2>3, WordAssumption
  <2>5. Asked(d) \in 0 .. SizeMax
    BY <2>4, WrappedType DEF Asked
  <2>6. NewCount(d) * AccumSize <= SizeMax
    BY <2>2, <2>4, <2>5, WordAssumption
  <2>7. QED
    BY <1>1, <1>3, <2>1, <2>2, <2>3, <2>6
<1>4. QED
  BY <1>1, <1>2, <1>3

(* Unescaping gives plain characters, one for one, where every character   *)
(* is a streamed one.                                                      *)
LEMMA CompletableType ==
  ASSUME NEW args, Unescaped(args) \in ValidJson
  PROVE  Unescaped(args) \in Seq(Raw \cup Plain)
<1>1. Unescaped(args) \in Seq(Plain)
  BY AlphabetAssumption
<1>2. QED
  BY <1>1

(* The actions that leave the tool calls and callbacks alone, and those    *)
(* that a proof about them has to look at.                                 *)
Elsewhere ==
  \/ SetupFails \/ NoHandle \/ Perform \/ RequestAbort
  \/ ChunkArrives \/ ChunkEnds \/ FeedFails
  \/ EmptyBody \/ TransferFails \/ FrameAborted
  \/ (\E e \in Events : IgnoreEvent(e) \/ DoneEvent(e))
  \/ GrowFails \/ GrowOverruns \/ NoFinish \/ Return

LEMMA ElsewhereNothingChanges ==
  Elsewhere => UNCHANGED << accums, accumsCount, cursor, toolCallsFinalized, calls >>
BY DEF Elsewhere, SetupFails, NoHandle, Perform, RequestAbort, ChunkArrives, ChunkEnds,
       FeedFails, EmptyBody, TransferFails, FrameAborted, IgnoreEvent, DoneEvent,
       GrowFails, GrowOverruns, NoFinish, Return, accumulators

(* TypeOK in three parts.                                                  *)
HandlerOK ==
  /\ at \in Locations
  /\ event \in Event \cup {NoEvent}
  /\ deltas \in Seq(Delta)
  /\ error \in {"NONE", "FAILED", "CANCELLED"}
  /\ sseError \in {"OK", "ABORT", "OVERFLOW"}
  /\ frames \in 0 .. FrameBound

FlagsOK ==
  /\ wantAbort \in BOOLEAN
  /\ sawDone \in BOOLEAN
  /\ protocolError \in BOOLEAN
  /\ received \in BOOLEAN
  /\ transfer \in [ok : BOOLEAN, tls : BOOLEAN, httpError : BOOLEAN]
  /\ skipped \in BOOLEAN

ToolsOK ==
  /\ accums \in [ToolIndices -> Accumulator]
  /\ accumsCount \in 0 .. SizeMax
  /\ cursor \in 0 .. SizeMax
  /\ toolCallsFinalized \in BOOLEAN
  /\ calls \in Seq(Callback)

LEMMA TypeParts == TypeOK <=> HandlerOK /\ FlagsOK /\ ToolsOK
BY DEF TypeOK, HandlerOK, FlagsOK, ToolsOK, Accumulator, Callback

LEMMA TypeInit == Init => TypeOK
<1> SUFFICES ASSUME Init PROVE TypeOK
  OBVIOUS
<1>1. accums \in [ToolIndices -> Accumulator]
  BY DEF Init, Accumulator
<1>2. calls \in Seq(Callback)
  BY DEF Init
<1>3. frames \in 0 .. FrameBound /\ accumsCount \in 0 .. SizeMax
        /\ cursor \in 0 .. SizeMax
  BY LimitsAssumption, WordAssumption DEF Init
<1>4. transfer \in [ok : BOOLEAN, tls : BOOLEAN, httpError : BOOLEAN]
  BY DEF Init, NoTransfer, Broken
<1>5. FlagsOK
  BY <1>4, Zenon DEF Init, FlagsOK
<1>6. HandlerOK
  BY <1>3 DEF Init, HandlerOK, Locations
<1>7. ToolsOK
  BY <1>1, <1>2, <1>3 DEF Init, ToolsOK
<1>8. QED
  BY <1>5, <1>6, <1>7, TypeParts

LEMMA HandlerStep ==
  ASSUME TypeOK, Next
  PROVE  HandlerOK'
<1>0. HandlerOK
  BY DEF TypeOK, HandlerOK
<1> USE <1>0 DEF HandlerOK, Locations, accumulators, handler, errors, ending, framing,
            SetError, Cancel, StopTransfer, EventHandled, ProtocolFails,
            LeaveFinalize
<1>1. CASE SetupFails \/ NoHandle \/ Perform \/ RequestAbort \/ Return
  BY <1>1 DEF SetupFails, NoHandle, Perform, RequestAbort, Return
<1>2. CASE ChunkArrives \/ ChunkEnds \/ FeedFails
  BY <1>2 DEF ChunkArrives, ChunkEnds, FeedFails
<1>3. CASE EmptyBody \/ TransferFails \/ TransferEnds
  BY <1>3 DEF EmptyBody, TransferFails, TransferEnds
<1>4. CASE FrameAborted
  BY <1>4, LimitsAssumption DEF FrameAborted
<1>5. ASSUME NEW e \in Events, IgnoreEvent(e) \/ DoneEvent(e) \/ DeltaEvent(e)
      PROVE  HandlerOK'
  <2>1. e \in Event
    BY EventsAssumption
  <2>2. e.deltas \in Seq(Delta)
    BY <2>1 DEF Event
  <2>3. frames < FrameBound /\ frames' = frames + 1
    BY <1>5 DEF IgnoreEvent, DoneEvent, DeltaEvent, Frame
  <2>4. frames' \in 0 .. FrameBound
    BY <2>3, LimitsAssumption
  <2>5. QED
    BY <1>5, <2>1, <2>2, <2>4 DEF IgnoreEvent, DoneEvent, DeltaEvent
<1>6. CASE GrowFails
  BY <1>6 DEF GrowFails
<1>d. CASE GrowOverruns
  BY <1>d DEF GrowOverruns
<1>c. CASE DeltaRefused
  BY <1>c DEF DeltaRefused
<1>7. CASE DeltaTaken
  BY <1>7 DEF DeltaTaken
<1>a. CASE ArgsIncomplete
  <2>1. /\ at' \in Locations
        /\ event' \in Event \cup {NoEvent}
        /\ error' \in {"NONE", "FAILED", "CANCELLED"}
        /\ UNCHANGED << sseError, frames >>
    BY <1>a DEF ArgsIncomplete
  <2>2. deltas' = deltas \/ deltas' = << >>
    BY <1>a DEF ArgsIncomplete
  <2>3. deltas \in Seq(Delta) /\ << >> \in Seq(Delta)
    OBVIOUS
  <2>4. deltas' \in Seq(Delta)
    BY ONLY <2>2, <2>3
  <2>5. QED
    BY <2>1, <2>4
<1>8. CASE NoFinish \/ Finish \/ FinishTools
  BY <1>8 DEF NoFinish, Finish, FinishTools, DeltasDone
<1>9. CASE SkipInactive \/ CompleteArgs
  BY <1>9 DEF SkipInactive, CompleteArgs
<1>b. CASE Finalized
  <2>1. at' \in Locations /\ event' \in Event \cup {NoEvent}
    BY <1>b DEF Finalized
  <2>2. deltas' \in Seq(Delta)
    <3>1. deltas' = deltas \/ deltas' = << >>
      BY <1>b DEF Finalized
    <3>2. deltas \in Seq(Delta) /\ << >> \in Seq(Delta)
      OBVIOUS
    <3>3. QED
      BY ONLY <3>1, <3>2
  <2>3. UNCHANGED << error, sseError >>
    BY <1>b DEF Finalized
  <2>4. UNCHANGED << frames >>
    BY <1>b DEF Finalized
  <2>5. QED BY <2>1, <2>2, <2>3, <2>4
<1>10. QED
  BY <1>1, <1>2, <1>3, <1>4, <1>5, <1>6, <1>7, <1>8, <1>9, <1>a, <1>b, <1>c, <1>d
     DEF Next

LEMMA FlagsStep ==
  ASSUME TypeOK, Next
  PROVE  FlagsOK'
<1>0. FlagsOK
  BY DEF TypeOK, FlagsOK
<1>t. ASSUME NEW b \in BOOLEAN
      PROVE  /\ Broken(b) \in [ok : BOOLEAN, tls : BOOLEAN, httpError : BOOLEAN]
             /\ Ended(b) \in [ok : BOOLEAN, tls : BOOLEAN, httpError : BOOLEAN]
  BY DEF Broken, Ended
<1> USE <1>0 DEF FlagsOK, accumulators, handler, errors, ending, framing
<1>1. CASE SetupFails \/ Perform \/ RequestAbort \/ Return
  BY <1>1 DEF SetupFails, Perform, RequestAbort, Return
<1>2. CASE NoHandle
  BY <1>2, <1>t DEF NoHandle
<1>3. CASE ChunkArrives \/ ChunkEnds \/ FeedFails
  BY <1>3, <1>t DEF ChunkArrives, ChunkEnds, FeedFails, StopTransfer, Cancel, NoTransfer
<1>4. CASE EmptyBody
  BY <1>4, <1>t DEF EmptyBody, Cancel
<1>5. CASE TransferFails
  BY <1>5, <1>t DEF TransferFails
<1>6. CASE TransferEnds
  BY <1>6, <1>t DEF TransferEnds
<1>7. CASE FrameAborted
  BY <1>7, <1>t DEF FrameAborted, StopTransfer, Cancel, NoTransfer
<1>8. ASSUME NEW e \in Events, IgnoreEvent(e) \/ DoneEvent(e) \/ DeltaEvent(e)
      PROVE  FlagsOK'
  <2>1. skipped' \in BOOLEAN
    BY <1>8 DEF IgnoreEvent, DoneEvent, DeltaEvent, Frame
  <2>2. QED
    BY <1>8, <2>1 DEF IgnoreEvent, DoneEvent, DeltaEvent
<1>9. CASE GrowFails \/ GrowOverruns \/ DeltaRefused \/ ArgsIncomplete
  BY <1>9 DEF GrowFails, GrowOverruns, DeltaRefused, ArgsIncomplete, ProtocolFails
<1>10. CASE DeltaTaken \/ NoFinish \/ Finish \/ FinishTools
  BY <1>10 DEF DeltaTaken, NoFinish, Finish, FinishTools
<1>11. CASE SkipInactive \/ CompleteArgs \/ Finalized
  BY <1>11 DEF SkipInactive, CompleteArgs, Finalized
<1>12. QED
  BY <1>1, <1>2, <1>3, <1>4, <1>5, <1>6, <1>7, <1>8, <1>9, <1>10, <1>11 DEF Next

(* Arguments are unescaped once: an accumulator that is not frozen holds   *)
(* streamed characters, and those finalize_tool_calls has yet to look at   *)
(* are not frozen.                                                         *)
Streamed ==
  /\ \A i \in ToolIndices : ~accums[i].frozen => accums[i].args \in Seq(Raw)
  /\ \A i \in ToolIndices : accums[i].frozen => toolCallsFinalized
  /\ at = "finalize" =>
       toolCallsFinalized /\ \A i \in ToolIndices : accums[i].frozen => i < cursor

LEMMA UnescapedType ==
  ASSUME NEW args \in Seq(Raw)
  PROVE  /\ Unescaped(args) \in Seq(Raw \cup Plain)
         /\ Len(Unescaped(args)) = Len(args)
<1>1. DOMAIN args = 1 .. Len(args) /\ Len(args) \in Nat
  OBVIOUS
<1>2. \A p \in 1 .. Len(args) : Unescape[args[p]] \in Raw \cup Plain
  BY AlphabetAssumption
<1>3. Unescaped(args) = [p \in 1 .. Len(args) |-> Unescape[args[p]]]
  BY <1>1 DEF Unescaped
<1>4. QED
  BY <1>1, <1>2, <1>3

LEMMA ElsewhereFinalizes ==
  Elsewhere /\ at' = "finalize" => at = "finalize"
BY DEF Elsewhere, SetupFails, NoHandle, Perform, RequestAbort, ChunkArrives, ChunkEnds,
       FeedFails, EmptyBody, TransferFails, FrameAborted, IgnoreEvent, DoneEvent, Frame,
       GrowFails, GrowOverruns, NoFinish, Return, StopTransfer, EventHandled

LEMMA ToolsStep ==
  ASSUME TypeOK, Streamed, Next
  PROVE  ToolsOK' /\ Streamed'
<1>1. ToolsOK /\ deltas \in Seq(Delta)
  BY TypeParts DEF HandlerOK
<1>2. CASE Elsewhere
  BY <1>1, <1>2, ElsewhereNothingChanges, ElsewhereFinalizes DEF ToolsOK, Streamed
<1>3. CASE TransferEnds
  <2>1. /\ UNCHANGED << accums, accumsCount, cursor, calls >>
        /\ toolCallsFinalized' = TRUE \/ UNCHANGED toolCallsFinalized
        /\ at' = "finalize" => ~toolCallsFinalized /\ toolCallsFinalized'
    BY <1>3 DEF TransferEnds
  <2>2. ToolsOK'
    BY <1>1, <2>1 DEF ToolsOK
  <2>3. QED
    BY <2>1, <2>2 DEF Streamed
<1>4. CASE FinishTools
  <2>1. /\ UNCHANGED << accums, accumsCount, cursor, calls >>
        /\ toolCallsFinalized' = TRUE
        /\ ~toolCallsFinalized
    BY <1>4 DEF FinishTools
  <2>2. ToolsOK'
    BY <1>1, <2>1 DEF ToolsOK
  <2>3. QED
    BY <2>1, <2>2 DEF Streamed
<1>5. ASSUME NEW e \in Events, DeltaEvent(e)
      PROVE  ToolsOK' /\ Streamed'
  <2>1. UNCHANGED << accums, accumsCount, cursor, toolCallsFinalized >> /\ at' = "deltas"
    BY <1>5 DEF DeltaEvent, accumulators
  <2>2. calls' \in Seq(Callback)
    BY <1>1, <1>5, TextCallsType DEF DeltaEvent, ToolsOK
  <2>3. QED
    BY <1>1, <2>1, <2>2 DEF ToolsOK, Streamed
<1>6. ASSUME deltas # << >>, Covers(Head(deltas))
      PROVE  /\ Head(deltas) \in Delta
             /\ Head(deltas).index \in ToolIndices
             /\ Grown(Head(deltas)) \in 0 .. SizeMax
             /\ accums[Head(deltas).index] \in Accumulator
  <2>1. Head(deltas) \in Delta
    BY <1>1, <1>6
  <2>2. Head(deltas).index \in ToolIndices
    BY <2>1 DEF Delta
  <2>3. Head(deltas).index \in 0 .. SizeMax /\ accumsCount \in 0 .. SizeMax
    BY <1>1, <2>2 DEF ToolIndices, ToolsOK
  <2>4. Grown(Head(deltas)) \in 0 .. SizeMax
    BY <1>6, <2>2, <2>3, GrownType
  <2>5. QED
    BY <1>1, <2>1, <2>2, <2>4 DEF ToolsOK
<1>7. CASE DeltaTaken
  <2> DEFINE d == Head(deltas)
             b == Accumulate(accums[d.index], d)
  <2>1. /\ deltas # << >> /\ Covers(d)
        /\ ~accums[d.index].frozen
        /\ accums' = [accums EXCEPT ![d.index] = b]
        /\ accumsCount' = Grown(d)
        /\ calls' = calls \o DeltaCalls(d)
        /\ UNCHANGED << cursor, toolCallsFinalized >>
        /\ at = "deltas" /\ at' = at
    BY <1>7 DEF DeltaTaken
  <2>2. /\ d \in Delta /\ d.index \in ToolIndices
        /\ accums[d.index] \in Accumulator /\ Grown(d) \in 0 .. SizeMax
    BY <1>6, <2>1
  <2>3. d.args \in Seq(Raw)
    BY <2>2 DEF Delta
  <2> HIDE DEF d
  <2>4. /\ b \in Accumulator
        /\ b.frozen = accums[d.index].frozen
        /\ b.args = IF d.hasArgs THEN accums[d.index].args \o d.args
                                 ELSE accums[d.index].args
    BY <2>2, AccumulateType
  <2> HIDE DEF b
  <2>5. accums' \in [ToolIndices -> Accumulator]
    BY <1>1, <2>1, <2>2, <2>4 DEF ToolsOK
  <2>6. calls' \in Seq(Callback)
    BY <1>1, <2>1, <2>2, DeltaCallsType DEF ToolsOK
  <2>7. ToolsOK'
    BY <1>1, <2>1, <2>2, <2>5, <2>6 DEF ToolsOK
  <2>8. b.args \in Seq(Raw)
    BY <2>1, <2>2, <2>3, <2>4 DEF Streamed
  <2>9. \A i \in ToolIndices : accums'[i] = IF i = d.index THEN b ELSE accums[i]
    BY <1>1, <2>1 DEF ToolsOK
  <2>10. Streamed'
    BY <2>1, <2>4, <2>8, <2>9 DEF Streamed
  <2>11. QED
    BY <2>7, <2>10
<1>8. CASE DeltaRefused
  <2> DEFINE d == Head(deltas)
             b == [accums[d.index] EXCEPT !.active = TRUE, !.sawArgs = TRUE]
  <2>1. /\ deltas # << >> /\ Covers(d)
        /\ accums' = accums \/ accums' = [accums EXCEPT ![d.index] = b]
        /\ accumsCount' = Grown(d)
        /\ calls' = calls \o DeltaCalls(d)
        /\ UNCHANGED << cursor, toolCallsFinalized >>
        /\ at' = "feed"
    BY <1>8 DEF DeltaRefused, EventHandled
  <2>2. /\ d \in Delta /\ d.index \in ToolIndices
        /\ accums[d.index] \in Accumulator /\ Grown(d) \in 0 .. SizeMax
    BY <1>6, <2>1
  <2>3. /\ b \in Accumulator
        /\ b.frozen = accums[d.index].frozen
        /\ b.args = accums[d.index].args
    BY <2>2 DEF Accumulator
  <2> HIDE DEF d, b
  <2>4. accums' \in [ToolIndices -> Accumulator]
    BY <1>1, <2>1, <2>3 DEF ToolsOK
  <2>5. calls' \in Seq(Callback)
    BY <1>1, <2>1, <2>2, DeltaCallsType DEF ToolsOK
  <2>6. ToolsOK'
    BY <1>1, <2>1, <2>2, <2>4, <2>5 DEF ToolsOK
  <2>7. \A i \in ToolIndices : accums'[i].frozen = accums[i].frozen
                                /\ accums'[i].args = accums[i].args
    BY <1>1, <2>1, <2>3 DEF ToolsOK
  <2>8. Streamed'
    BY <2>1, <2>7 DEF Streamed
  <2>9. QED
    BY <2>6, <2>8
<1>9. ASSUME NEW e PROVE FinishCall(e) \in Callback
  BY DEF FinishCall, Call, Callback, CallNames
<1>10. CASE Finish
  <2>1. /\ UNCHANGED << accums, accumsCount, cursor, toolCallsFinalized >>
        /\ at' = "feed"
        /\ calls' = Append(calls, FinishCall(event))
    BY <1>10 DEF Finish, accumulators, EventHandled
  <2>2. ToolsOK'
    BY <1>1, <1>9, <2>1 DEF ToolsOK
  <2>3. QED
    BY <2>1, <2>2 DEF Streamed
<1>11. CASE Finalized
  <2>1. /\ UNCHANGED << accums, accumsCount, cursor, toolCallsFinalized >>
        /\ at' # "finalize"
        /\ calls' = calls \/ calls' = Append(calls, FinishCall(event))
    BY <1>11 DEF Finalized, accumulators, EventHandled, LeaveFinalize
  <2>2. ToolsOK'
    BY <1>1, <1>9, <2>1 DEF ToolsOK
  <2>3. QED
    BY <2>1, <2>2 DEF Streamed
<1>12. ASSUME at = "finalize", cursor < accumsCount
       PROVE  /\ cursor \in ToolIndices
              /\ cursor + 1 \in 0 .. SizeMax
              /\ accums[cursor] \in Accumulator
              /\ accums[cursor].args \in Seq(Raw)
  <2>1. cursor \in 0 .. SizeMax /\ accumsCount \in 0 .. SizeMax
    BY <1>1 DEF ToolsOK
  <2>2. cursor \in ToolIndices /\ cursor + 1 \in 0 .. SizeMax
    BY <1>12, <2>1, WordAssumption DEF ToolIndices
  <2>3. ~accums[cursor].frozen
    BY <1>12, <2>1, <2>2 DEF Streamed
  <2>4. QED
    BY <1>1, <2>2, <2>3 DEF Streamed, ToolsOK
<1>13. CASE SkipInactive
  <2>1. /\ at = "finalize" /\ cursor < accumsCount
        /\ cursor' = cursor + 1
        /\ UNCHANGED << accums, accumsCount, toolCallsFinalized, calls >>
    BY <1>13 DEF SkipInactive
  <2>2. ToolsOK'
    BY <1>1, <1>12, <2>1 DEF ToolsOK
  <2>3. cursor \in Int /\ ToolIndices \subseteq Int
    BY <1>12, <2>1 DEF ToolIndices
  <2>4. QED
    BY <2>1, <2>2, <2>3 DEF Streamed
<1>14. CASE CompleteArgs \/ ArgsIncomplete
  <2> DEFINE u == Unescaped(accums[cursor].args)
             b == [accums[cursor] EXCEPT !.frozen = TRUE, !.args = u]
             c == Call("args_complete", cursor, u)
  <2>1. /\ at = "finalize" /\ cursor < accumsCount
        /\ accums' = [accums EXCEPT ![cursor] = b]
        /\ UNCHANGED << accumsCount, toolCallsFinalized >>
    BY <1>14 DEF CompleteArgs, ArgsIncomplete
  <2>2. \/ cursor' = cursor + 1 /\ calls' = Append(calls, c)
        \/ UNCHANGED << cursor, calls >> /\ at' # "finalize"
    BY <1>14 DEF CompleteArgs, ArgsIncomplete, LeaveFinalize, EventHandled
  <2>3. u \in Seq(Raw \cup Plain)
    BY <1>12, <2>1, UnescapedType
  <2> HIDE DEF u
  <2>4. b \in Accumulator /\ b.frozen
    BY <1>12, <2>1, <2>3 DEF Accumulator
  <2>5. c \in Callback
    BY <1>12, <2>1, <2>3 DEF Call, Callback, CallNames
  <2> HIDE DEF b, c
  <2>6. accums' \in [ToolIndices -> Accumulator]
    BY <1>1, <2>1, <2>4 DEF ToolsOK
  <2>7. calls' \in Seq(Callback)
    <3>1. calls \in Seq(Callback)
      BY <1>1 DEF ToolsOK
    <3>2. calls' = Append(calls, c) \/ calls' = calls
      BY <2>2
    <3>3. Append(calls, c) \in Seq(Callback)
      BY ONLY <2>5, <3>1, AppendProperties
    <3>4. QED
      BY ONLY <3>1, <3>2, <3>3
  <2>8. ToolsOK'
    <3>1. accumsCount' \in 0 .. SizeMax /\ toolCallsFinalized' \in BOOLEAN
      BY <1>1, <2>1 DEF ToolsOK
    <3>2. cursor' \in 0 .. SizeMax
      BY <1>1, <1>12, <2>1, <2>2 DEF ToolsOK
    <3>3. QED
      BY <2>6, <2>7, <3>1, <3>2 DEF ToolsOK
  <2>9. \A i \in ToolIndices : accums'[i] = IF i = cursor THEN b ELSE accums[i]
    BY <1>1, <1>12, <2>1 DEF ToolsOK
  <2>10. cursor \in Int /\ ToolIndices \subseteq Int
    BY <1>12, <2>1 DEF ToolIndices
  <2>11. toolCallsFinalized
    BY <2>1 DEF Streamed
  <2>12. QED
    BY <2>1, <2>2, <2>4, <2>8, <2>9, <2>10, <2>11 DEF Streamed
<1>15. QED
  BY <1>2, <1>3, <1>4, <1>5, <1>7, <1>8, <1>10, <1>11, <1>13, <1>14 DEF Next, Elsewhere

LEMMA TypeNext ==
  TypeOK /\ Streamed /\ [Next]_vars => TypeOK' /\ Streamed'
<1> SUFFICES ASSUME TypeOK, Streamed, [Next]_vars PROVE TypeOK' /\ Streamed'
  OBVIOUS
<1>1. CASE Next
  <2>1. HandlerOK' /\ FlagsOK' /\ ToolsOK' /\ Streamed'
    BY <1>1, HandlerStep, FlagsStep, ToolsStep
  <2>2. QED
    BY <2>1 DEF TypeOK, HandlerOK, FlagsOK, ToolsOK, Accumulator, Callback
<1>2. CASE UNCHANGED vars
  BY <1>2 DEF vars, handler, accumulators, errors, ending, framing, TypeOK, Streamed
<1>3. QED
  BY <1>1, <1>2

LEMMA TypeInvariant == Spec => [](TypeOK /\ Streamed)
<1>1. Init => Streamed
  <2>1. << >> \in Seq(Raw)
    OBVIOUS
  <2>2. Init => \A i \in ToolIndices : ~accums[i].frozen /\ accums[i].args = << >>
    BY DEF Init
  <2>3. Init => at # "finalize"
    BY DEF Init
  <2>4. QED
    BY <2>1, <2>2, <2>3 DEF Streamed
<1>2. QED
  BY <1>1, TypeInit, TypeNext, PTL DEF Spec

(* Whatever the server sends, the call's state has its type.               *)
THEOREM TypeCorrect == Spec => []TypeOK
BY TypeInvariant, PTL

(* What of AccumulatorsBounded does not speak of the callbacks made, in     *)
(* terms of the test that growbuf_append makes.                             *)
NothingOver ==
  /\ cursor <= accumsCount
  /\ \A i \in ToolIndices :
       /\ ~Over(Len(accums[i].args))
       /\ accums[i].active => i < accumsCount
       /\ accums[i].sawArgs => accums[i].active
       /\ accums[i].frozen => toolCallsFinalized /\ i <= cursor

(* Whatever the server sends, and however it cuts it, no accumulator       *)
(* outgrows the limit, and none that holds something lies outside the      *)
(* array that finalize_tool_calls goes through.                            *)
LEMMA AccumulatorsStep ==
  ASSUME TypeOK, Streamed, NothingOver, Next
  PROVE  NothingOver'
<1>1. ToolsOK /\ deltas \in Seq(Delta) /\ ToolIndices \subseteq Int
  BY TypeParts DEF HandlerOK, ToolIndices
<1>2. CASE Elsewhere
  BY <1>2, ElsewhereNothingChanges DEF NothingOver, Over
<1>3. CASE TransferEnds \/ FinishTools
  <2>1. /\ UNCHANGED << accums, accumsCount, cursor >>
        /\ toolCallsFinalized => toolCallsFinalized'
    BY <1>3 DEF TransferEnds, FinishTools
  <2>2. QED
    BY <2>1 DEF NothingOver, Over
<1>4. CASE \/ \E e \in Events : DeltaEvent(e)
           \/ Finish
           \/ Finalized
  <2>1. UNCHANGED << accums, accumsCount, cursor, toolCallsFinalized >>
    BY <1>4 DEF DeltaEvent, Finish, Finalized, accumulators
  <2>2. QED
    BY <2>1 DEF NothingOver, Over
<1>5. ASSUME deltas # << >>, Covers(Head(deltas))
      PROVE  LET d == Head(deltas)
             IN  /\ d \in Delta
                 /\ d.index \in ToolIndices
                 /\ accums[d.index] \in Accumulator
                 /\ Grown(d) \in Int
                 /\ Grown(d) > d.index
                 /\ Grown(d) >= accumsCount
  <2>1. Head(deltas) \in Delta
    BY <1>1, <1>5
  <2>2. Head(deltas).index \in ToolIndices
    BY <2>1 DEF Delta
  <2>3. accumsCount \in 0 .. SizeMax
    BY <1>1 DEF ToolsOK
  <2>4. /\ Grown(Head(deltas)) \in 0 .. SizeMax
        /\ Grown(Head(deltas)) > Head(deltas).index
        /\ Grown(Head(deltas)) >= accumsCount
    BY <1>5, <2>2, <2>3, GrownType
  <2>5. accums[Head(deltas).index] \in Accumulator
    BY <1>1, <2>2 DEF ToolsOK
  <2>6. Grown(Head(deltas)) \in Int
    BY <2>4
  <2>7. QED
    BY <2>1, <2>2, <2>4, <2>5, <2>6
<1>6. CASE DeltaTaken
  <2> DEFINE d == Head(deltas)
             a == accums[d.index]
             b == Accumulate(a, d)
  <2>1. /\ deltas # << >> /\ Covers(d)
        /\ ~a.frozen
        /\ d.hasArgs => Fits(a, d)
        /\ accums' = [accums EXCEPT ![d.index] = b]
        /\ accumsCount' = Grown(d)
        /\ UNCHANGED << cursor, toolCallsFinalized >>
    BY <1>6 DEF DeltaTaken
  <2>2. /\ d \in Delta /\ d.index \in ToolIndices /\ a \in Accumulator
        /\ Grown(d) \in Int /\ Grown(d) > d.index /\ Grown(d) >= accumsCount
    BY <1>5, <2>1
  <2>3. ~Over(Len(a.args))
    BY <2>2 DEF NothingOver
  <2>4. d.args \in Seq(Raw \cup Plain) /\ a.args \in Seq(Raw \cup Plain)
    BY <2>2 DEF Delta, Accumulator
  <2> HIDE DEF d, a
  <2>5. b.active /\ b.frozen = a.frozen
        /\ b.args = IF d.hasArgs THEN a.args \o d.args ELSE a.args
    BY <2>2, AccumulateType
  <2> HIDE DEF b
  <2>6. ~Over(Len(b.args))
    <3>1. CASE d.hasArgs /\ d.args # << >>
      <4>1. ~Over(Len(a.args) + Len(d.args))
        BY <2>1, <3>1 DEF Fits
      <4>2. Len(b.args) = Len(a.args) + Len(d.args)
        BY <2>4, <2>5, <3>1
      <4>3. QED
        BY <4>1, <4>2
    <3>2. CASE d.hasArgs /\ d.args = << >>
      <4>1. b.args = a.args
        BY <2>4, <2>5, <3>2
      <4>2. QED
        BY <2>3, <4>1
    <3>3. CASE ~d.hasArgs
      BY <2>3, <2>5, <3>3
    <3>4. QED
      BY <3>1, <3>2, <3>3
  <2>9. \A i \in ToolIndices : accums'[i] = IF i = d.index THEN b ELSE accums[i]
    BY <1>1, <2>1 DEF ToolsOK, a
  <2>10. QED
    <3>1. accumsCount \in Int /\ cursor \in Int
      BY <1>1 DEF ToolsOK
    <3>3. ASSUME NEW i \in ToolIndices
          PROVE  /\ ~Over(Len(accums'[i].args))
                 /\ accums'[i].active => i < accumsCount'
                 /\ accums'[i].sawArgs => accums'[i].active
                 /\ accums'[i].frozen => toolCallsFinalized /\ i <= cursor
      <4>1. CASE i = d.index
        <5>1. accums'[i] = b
          BY <2>9, <4>1
        <5>2. i < accumsCount'
          BY <2>1, <2>2, <4>1
        <5>3. QED
          BY <2>1, <2>5, <2>6, <5>1, <5>2
      <4>2. CASE i # d.index
        <5>1. accums'[i] = accums[i] /\ i \in Int
          BY <1>1, <2>9, <4>2
        <5>2. accumsCount' \in Int /\ accumsCount' >= accumsCount
          BY <2>1, <2>2
        <5>3. QED
          BY <3>1, <5>1, <5>2 DEF NothingOver
      <4>3. QED
        BY <4>1, <4>2
    <3>4. cursor' <= accumsCount'
      BY <2>1, <2>2, <3>1 DEF NothingOver
    <3>5. QED
      BY <2>1, <3>3, <3>4 DEF NothingOver, Over
<1>7. CASE DeltaRefused
  <2> DEFINE d == Head(deltas)
             b == [accums[d.index] EXCEPT !.active = TRUE, !.sawArgs = TRUE]
  <2>1. /\ deltas # << >> /\ Covers(d)
        /\ accums' = accums \/ accums' = [accums EXCEPT ![d.index] = b]
        /\ accumsCount' = Grown(d)
        /\ UNCHANGED << cursor, toolCallsFinalized >>
    BY <1>7 DEF DeltaRefused
  <2>2. /\ d \in Delta /\ d.index \in ToolIndices /\ accums[d.index] \in Accumulator
        /\ Grown(d) \in Int /\ Grown(d) > d.index /\ Grown(d) >= accumsCount
    BY <1>5, <2>1
  <2>3. b.frozen = accums[d.index].frozen /\ b.args = accums[d.index].args /\ b.active
    BY <2>2 DEF Accumulator
  <2> HIDE DEF d, b
  <2>4. \/ accums' = accums
        \/ \A i \in ToolIndices : accums'[i] = IF i = d.index THEN b ELSE accums[i]
    BY <1>1, <2>1 DEF ToolsOK
  <2>5. accumsCount \in Int /\ cursor \in Int
    BY <1>1 DEF ToolsOK
  <2>6. QED
    BY <1>1, <2>1, <2>2, <2>3, <2>4, <2>5 DEF NothingOver, Over
<1>8. CASE SkipInactive
  <2>1. /\ cursor < accumsCount
        /\ cursor' = cursor + 1
        /\ UNCHANGED << accums, accumsCount, toolCallsFinalized >>
    BY <1>8 DEF SkipInactive
  <2>2. accumsCount \in Int /\ cursor \in Int
    BY <1>1 DEF ToolsOK
  <2>3. QED
    BY <1>1, <2>1, <2>2 DEF NothingOver, Over
<1>9. CASE CompleteArgs \/ ArgsIncomplete
  <2> DEFINE u == Unescaped(accums[cursor].args)
             b == [accums[cursor] EXCEPT !.frozen = TRUE, !.args = u]
  <2>1. /\ at = "finalize" /\ cursor < accumsCount
        /\ accums[cursor].active
        /\ accums' = [accums EXCEPT ![cursor] = b]
        /\ cursor' = cursor + 1 \/ cursor' = cursor
        /\ UNCHANGED << accumsCount, toolCallsFinalized >>
    BY <1>9 DEF CompleteArgs, ArgsIncomplete
  <2>2. accumsCount \in 0 .. SizeMax /\ cursor \in 0 .. SizeMax
    BY <1>1 DEF ToolsOK
  <2>3. cursor \in ToolIndices
    BY <2>1, <2>2, WordAssumption DEF ToolIndices
  <2>4. toolCallsFinalized /\ ~accums[cursor].frozen
    BY <2>1, <2>2, <2>3 DEF Streamed
  <2>5. accums[cursor] \in Accumulator /\ Len(u) = Len(accums[cursor].args)
    BY <1>1, <2>3, <2>4, UnescapedType DEF Streamed, ToolsOK
  <2> HIDE DEF u
  <2>6. b.active = accums[cursor].active /\ b.sawArgs = accums[cursor].sawArgs /\ b.args = u
    BY <2>5 DEF Accumulator
  <2> HIDE DEF b
  <2>7. \A i \in ToolIndices : accums'[i] = IF i = cursor THEN b ELSE accums[i]
    BY <1>1, <2>1, <2>3 DEF ToolsOK
  <2>8. ~Over(Len(accums[cursor].args))
    BY <2>3 DEF NothingOver
  <2>9. ~Over(Len(b.args))
    BY <2>5, <2>6, <2>8
  <2>10. cursor \in Int /\ cursor' \in Int /\ cursor <= cursor' /\ cursor' <= accumsCount
    BY <2>1, <2>2
  <2>11. ASSUME NEW i \in ToolIndices
         PROVE  /\ ~Over(Len(accums'[i].args))
                /\ accums'[i].active => i < accumsCount
                /\ accums'[i].sawArgs => accums'[i].active
                /\ accums'[i].frozen => i <= cursor'
    <3>1. CASE i = cursor
      BY <2>1, <2>2, <2>6, <2>7, <2>9, <2>10, <3>1
    <3>2. CASE i # cursor
      <4>1. accums'[i] = accums[i] /\ i \in Int
        BY <1>1, <2>7, <3>2
      <4>2. QED
        BY <2>10, <4>1 DEF NothingOver
    <3>3. QED
      BY <3>1, <3>2
  <2>12. QED
    BY <2>1, <2>4, <2>10, <2>11 DEF NothingOver, Over
<1>10. QED
  BY <1>2, <1>3, <1>4, <1>6, <1>7, <1>8, <1>9 DEF Next, Elsewhere

LEMMA NothingOverInvariant == Spec => []NothingOver
<1>1. Init => NothingOver
  BY LimitsAssumption DEF Init, NothingOver, Over
<1>2. TypeOK /\ Streamed /\ NothingOver /\ [Next]_vars => NothingOver'
  <2>1. UNCHANGED vars /\ NothingOver => NothingOver'
    BY DEF vars, accumulators, NothingOver, Over
  <2>2. QED
    BY <2>1, AccumulatorsStep
<1>3. QED
  BY <1>1, <1>2, TypeInvariant, PTL DEF Spec

-----------------------------------------------------------------------------
(***************************************************************************)
(* The chat stream implements StreamCall: the flags of src/src/llm.c,      *)
(* which several callbacks set and the end of the call reads, add up to a  *)
(* call that reports what ended it first.                                  *)
(***************************************************************************)
(* Where the call is, and what it can have met on its way there.           *)
Located ==
  /\ at # "returned" => outcome = Pending
  /\ at \in {"setup", "transfer", "deltas", "finalize"} => cause = "none"
  /\ at = "feed" => cause \in {"none", "protocol"}
  /\ at \in {"setup", "transfer", "feed"} => event = NoEvent
  /\ at = "deltas" => ~sawDone
  /\ at = "finalize" /\ event # NoEvent => ~sawDone
  /\ at = "finalize" /\ event = NoEvent => transfer.ok

(* What ended the call, told from the flags.                               *)
Account(c) ==
  CASE c = "none" ->
         /\ error = "NONE" /\ ~protocolError /\ sseError = "OK"
         /\ at = "verdict" => transfer.ok
    [] c = "abort"    -> error = "CANCELLED" /\ ~protocolError
    [] c = "protocol" -> error = "FAILED" /\ protocolError
    [] c = "sse"      -> /\ error = "FAILED" /\ ~protocolError
                         /\ sseError = "OVERFLOW" /\ ~transfer.ok
    [] OTHER ->
         /\ c \in {"transport", "tls", "init"}
         /\ error = "NONE" /\ ~protocolError /\ sseError = "OK" /\ ~transfer.ok
         /\ c = "transport" => ~transfer.tls
         /\ c = "tls" => transfer.tls

Accounted == at # "returned" => Account(cause)

(* finalize_tool_calls goes through the accumulators once.                 *)
CompletedBelow ==
  \A p \in DOMAIN calls : calls[p].call = "args_complete" => calls[p].index < cursor

PromiseInv == Located /\ Accounted /\ CompletedBelow

-----------------------------------------------------------------------------
LEMMA LocatedStep ==
  ASSUME Located, Accounted, Next
  PROVE  Located'
<1> USE DEF Located, accumulators, handler, errors, ending, framing,
            FirstCause, Cancel, StopTransfer, EventHandled, ProtocolFails
<1>1. CASE SetupFails \/ NoHandle \/ Perform \/ RequestAbort \/ Return
  BY <1>1 DEF SetupFails, NoHandle, Perform, RequestAbort, Return
<1>2. CASE ChunkArrives \/ FeedFails \/ FrameAborted
  BY <1>2 DEF ChunkArrives, FeedFails, FrameAborted
<1>3. CASE ChunkEnds
  BY <1>3 DEF ChunkEnds, Accounted, Account
<1>4. CASE EmptyBody \/ TransferFails \/ TransferEnds
  BY <1>4 DEF EmptyBody, TransferFails, TransferEnds, Ended
<1>5. ASSUME NEW e \in Events, IgnoreEvent(e) \/ DoneEvent(e) \/ DeltaEvent(e)
      PROVE  Located'
  <2>1. CASE IgnoreEvent(e) \/ DoneEvent(e)
    BY <2>1 DEF IgnoreEvent, DoneEvent, Frame
  <2>2. CASE DeltaEvent(e)
    <3>1. /\ at = "feed" /\ at' = "deltas"
          /\ ~protocolError /\ ~sawDone
          /\ UNCHANGED << cause, outcome, sawDone >>
      BY <2>2 DEF DeltaEvent, Frame, Ignored
    <3>2. cause # "protocol"
      BY <3>1 DEF Accounted, Account
    <3>3. QED
      BY <3>1, <3>2
  <2>3. QED
    BY <1>5, <2>1, <2>2
<1>6. CASE GrowFails \/ GrowOverruns \/ DeltaRefused
  BY <1>6 DEF GrowFails, GrowOverruns, DeltaRefused
<1>7. CASE DeltaTaken
  BY <1>7 DEF DeltaTaken
<1>8. CASE NoFinish \/ Finish \/ FinishTools
  BY <1>8 DEF NoFinish, Finish, FinishTools, DeltasDone, NoEvent
<1>9. CASE SkipInactive \/ CompleteArgs
  BY <1>9 DEF SkipInactive, CompleteArgs
<1>10. CASE ArgsIncomplete
  BY <1>10 DEF ArgsIncomplete, LeaveFinalize
<1>11. CASE Finalized
  BY <1>11 DEF Finalized, LeaveFinalize
<1>12. QED
  BY <1>1, <1>2, <1>3, <1>4, <1>5, <1>6, <1>7, <1>8, <1>9, <1>10, <1>11 DEF Next

LEMMA AccountedStep ==
  ASSUME Located, Accounted, Next
  PROVE  Accounted'
<1> USE DEF Accounted, Account, accumulators, handler, errors, ending, framing,
            FirstCause, SetError, Cancel, StopTransfer, ProtocolFails
<1>1. CASE SetupFails \/ Perform \/ RequestAbort \/ Return
  BY <1>1 DEF SetupFails, Perform, RequestAbort, Return
<1>2. CASE NoHandle \/ TransferFails
  BY <1>2 DEF NoHandle, TransferFails, Located, Broken
<1>3. CASE ChunkArrives \/ ChunkEnds \/ FeedFails \/ FrameAborted
  BY <1>3 DEF ChunkArrives, ChunkEnds, FeedFails, FrameAborted, Located, NoTransfer, Broken
<1>4. CASE EmptyBody \/ TransferEnds
  BY <1>4 DEF EmptyBody, TransferEnds, Located, Ended
<1>5. ASSUME NEW e \in Events, IgnoreEvent(e) \/ DoneEvent(e) \/ DeltaEvent(e)
      PROVE  Accounted'
  <2>1. /\ at = "feed"
        /\ at' # "verdict"
        /\ UNCHANGED << cause, error, protocolError, sseError, transfer >>
    BY <1>5 DEF IgnoreEvent, DoneEvent, DeltaEvent, Frame
  <2>2. QED
    BY <2>1
<1>6. CASE GrowFails \/ GrowOverruns \/ DeltaRefused
  BY <1>6 DEF GrowFails, GrowOverruns, DeltaRefused, EventHandled, Located
<1>7. CASE DeltaTaken
  BY <1>7 DEF DeltaTaken
<1>8. CASE NoFinish \/ Finish \/ FinishTools
  BY <1>8 DEF NoFinish, Finish, FinishTools, DeltasDone, EventHandled
<1>9. CASE SkipInactive \/ CompleteArgs
  BY <1>9 DEF SkipInactive, CompleteArgs
<1>10. CASE ArgsIncomplete
  BY <1>10 DEF ArgsIncomplete, Located
<1>11. CASE Finalized
  BY <1>11 DEF Finalized, LeaveFinalize, EventHandled, Located
<1>12. QED
  BY <1>1, <1>2, <1>3, <1>4, <1>5, <1>6, <1>7, <1>8, <1>9, <1>10, <1>11 DEF Next

-----------------------------------------------------------------------------
LEMMA CallIndexType ==
  ASSUME calls \in Seq(Callback)
  PROVE  \A p \in DOMAIN calls : calls[p].index \in Int
<1>1. ToolIndices \cup {NoIndex} \subseteq Int
  BY DEF ToolIndices, NoIndex
<1>2. \A c \in Callback : c.index \in Int
  BY <1>1 DEF Callback
<1>3. \A p \in DOMAIN calls : calls[p] \in Callback
  OBVIOUS
<1>4. QED
  BY <1>2, <1>3

(* Some callbacks, none of which completes a tool call.                    *)
LEMMA CallsAdded ==
  ASSUME calls \in Seq(Callback), NEW t \in Seq(Callback), calls' = calls \o t,
         \A p \in DOMAIN t : t[p].call # "args_complete"
  PROVE  /\ ~sawDone => Promise!AddsCalls
         /\ CompletedBelow /\ cursor' = cursor => CompletedBelow'
<1>1. /\ Len(calls) \in Nat /\ Len(t) \in Nat
      /\ DOMAIN calls = 1 .. Len(calls) /\ DOMAIN t = 1 .. Len(t)
      /\ Len(calls') = Len(calls) + Len(t)
      /\ DOMAIN calls' = 1 .. Len(calls')
      /\ \A p \in 1 .. Len(calls) : calls'[p] = calls[p]
      /\ \A p \in 1 .. Len(t) : calls'[Len(calls) + p] = t[p]
  OBVIOUS
<1>2. ASSUME NEW p \in Len(calls) + 1 .. Len(calls')
      PROVE  calls'[p].call # "args_complete"
  <2>1. p - Len(calls) \in 1 .. Len(t) /\ p = Len(calls) + (p - Len(calls))
    BY <1>1
  <2>2. calls'[p] = t[p - Len(calls)]
    BY <1>1, <2>1
  <2>3. QED
    BY <1>1, <2>1, <2>2
<1>3. ~sawDone => Promise!AddsCalls
  BY <1>1, <1>2 DEF Promise!AddsCalls, Promise!IsComplete
<1>4. ASSUME CompletedBelow, cursor' = cursor
      PROVE  CompletedBelow'
  <2>1. ASSUME NEW p \in DOMAIN calls', calls'[p].call = "args_complete"
        PROVE  calls'[p].index < cursor'
    <3>1. p \in DOMAIN calls /\ calls'[p] = calls[p]
      BY <1>1, <1>2, <2>1
    <3>2. QED
      BY <1>4, <2>1, <3>1 DEF CompletedBelow
  <2>2. QED
    BY <2>1 DEF CompletedBelow
<1>5. QED
  BY <1>3, <1>4

(* A completed tool call beyond those completed before.                    *)
LEMMA CompletionAdded ==
  ASSUME calls \in Seq(Callback), cursor \in Int, CompletedBelow,
         NEW args \in Seq(Raw \cup Plain), cursor \in ToolIndices,
         calls' = Append(calls, Call("args_complete", cursor, args))
  PROVE  /\ Promise!AddsCalls
         /\ cursor' = cursor + 1 => CompletedBelow'
<1> DEFINE c == Call("args_complete", cursor, args)
<1>1. c \in Callback /\ c.index = cursor
  BY DEF Call, Callback, CallNames
<1> HIDE DEF c
<1>2. /\ Len(calls) \in Nat
      /\ DOMAIN calls = 1 .. Len(calls)
      /\ Len(calls') = Len(calls) + 1
      /\ DOMAIN calls' = 1 .. Len(calls')
      /\ \A p \in 1 .. Len(calls) : calls'[p] = calls[p]
      /\ calls'[Len(calls) + 1] = c
  BY <1>1 DEF c
<1>3. \A q \in 1 .. Len(calls) :
        calls'[q].call = "args_complete" => calls'[q].index < cursor
  BY <1>2 DEF CompletedBelow
<1>4. \A q \in 1 .. Len(calls) : calls'[q].index \in Int
  BY <1>2, CallIndexType
<1>5. Promise!AddsCalls
  <2>1. ASSUME NEW p \in Len(calls) + 1 .. Len(calls')
        PROVE  p = Len(calls) + 1 /\ calls'[p] = c
    BY <1>2, <2>1
  <2>2. c.call = "args_complete"
    BY DEF c, Call
  <2>3. ASSUME NEW p \in Len(calls) + 1 .. Len(calls'), NEW q \in 1 .. p - 1,
               calls'[q].call = "args_complete"
        PROVE  calls'[q].index # calls'[p].index
    <3>1. p = Len(calls) + 1 /\ calls'[p].index = cursor
      BY <1>1, <2>1
    <3>2. q \in 1 .. Len(calls)
      BY <1>2, <3>1
    <3>3. QED
      BY <1>3, <1>4, <2>3, <3>1, <3>2
  <2>4. QED
    BY <1>2, <2>1, <2>2, <2>3 DEF Promise!AddsCalls, Promise!IsComplete
<1>6. ASSUME cursor' = cursor + 1
      PROVE  CompletedBelow'
  <2>1. ASSUME NEW p \in DOMAIN calls', calls'[p].call = "args_complete"
        PROVE  calls'[p].index < cursor'
    <3>1. p \in 1 .. Len(calls) \/ p = Len(calls) + 1
      BY <1>2
    <3>2. CASE p = Len(calls) + 1
      BY <1>1, <1>2, <1>6, <3>2
    <3>3. CASE p \in 1 .. Len(calls)
      <4>1. calls'[p].index < cursor /\ calls'[p].index \in Int
        BY <1>3, <1>4, <2>1, <3>3
      <4>2. QED
        BY <1>6, <4>1
    <3>4. QED
      BY <3>1, <3>2, <3>3
  <2>2. QED
    BY <2>1 DEF CompletedBelow
<1>7. QED
  BY <1>5, <1>6

LEMMA FinishCallType ==
  ASSUME NEW e
  PROVE  /\ << FinishCall(e) >> \in Seq(Callback)
         /\ \A p \in DOMAIN << FinishCall(e) >> :
              << FinishCall(e) >>[p].call # "args_complete"
<1>1. FinishCall(e) \in Callback /\ FinishCall(e).call # "args_complete"
  BY DEF FinishCall, Call, Callback, CallNames
<1>2. QED
  BY <1>1

LEMMA CompletedBelowStep ==
  ASSUME TypeOK, Streamed, CompletedBelow, Next
  PROVE  CompletedBelow'
<1>1. calls \in Seq(Callback) /\ cursor \in Int /\ deltas \in Seq(Delta)
  BY TypeParts, WordAssumption DEF ToolsOK, HandlerOK
<1>2. CASE Elsewhere
  BY <1>2, ElsewhereNothingChanges DEF CompletedBelow
<1>3. CASE TransferEnds \/ FinishTools
  BY <1>3 DEF TransferEnds, FinishTools, CompletedBelow
<1>4. ASSUME NEW e \in Events, DeltaEvent(e)
      PROVE  CompletedBelow'
  <2>1. calls' = calls \o TextCalls(e) /\ cursor' = cursor
    BY <1>4 DEF DeltaEvent, accumulators
  <2>2. QED
    BY <1>1, <2>1, TextCallsType, CallsAdded
<1>5. CASE DeltaTaken \/ DeltaRefused
  <2>1. deltas # << >> /\ calls' = calls \o DeltaCalls(Head(deltas)) /\ cursor' = cursor
    BY <1>5 DEF DeltaTaken, DeltaRefused
  <2>2. Head(deltas) \in Delta
    BY <1>1, <2>1
  <2>3. QED
    BY <1>1, <2>1, <2>2, DeltaCallsType, CallsAdded
<1>6. CASE Finish \/ Finalized
  <2>1. /\ cursor' = cursor
        /\ calls' = calls \/ calls' = Append(calls, FinishCall(event))
    BY <1>6 DEF Finish, Finalized, accumulators
  <2>2. Append(calls, FinishCall(event)) = calls \o << FinishCall(event) >>
    BY <1>1
  <2>3. CASE calls' = calls
    BY <2>1, <2>3 DEF CompletedBelow
  <2>4. CASE calls' = calls \o << FinishCall(event) >>
    BY <1>1, <2>1, <2>4, FinishCallType, CallsAdded
  <2>5. QED
    BY <2>1, <2>2, <2>3, <2>4
<1>7. CASE SkipInactive
  <2>1. calls' = calls /\ cursor' = cursor + 1
    BY <1>7 DEF SkipInactive
  <2>2. \A p \in DOMAIN calls : calls[p].index \in Int
    BY <1>1, CallIndexType
  <2>3. QED
    BY <1>1, <2>1, <2>2 DEF CompletedBelow
<1>8. CASE ArgsIncomplete
  BY <1>8 DEF ArgsIncomplete, CompletedBelow
<1>9. CASE CompleteArgs
  <2>1. /\ at = "finalize" /\ cursor < accumsCount /\ cursor' = cursor + 1
        /\ calls' = Append(calls, Call("args_complete", cursor,
                                      Unescaped(accums[cursor].args)))
        /\ Unescaped(accums[cursor].args) \in ValidJson
    BY <1>9 DEF CompleteArgs, Completable
  <2>2. cursor \in ToolIndices
    BY <2>1, TypeParts, WordAssumption DEF ToolsOK, ToolIndices
  <2>3. Unescaped(accums[cursor].args) \in Seq(Raw \cup Plain)
    BY <2>1, CompletableType
  <2>4. QED
    BY <1>1, <2>1, <2>2, <2>3, CompletionAdded
<1>10. QED
  BY <1>2, <1>3, <1>4, <1>5, <1>6, <1>7, <1>8, <1>9 DEF Next, Elsewhere

-----------------------------------------------------------------------------
(* Every step is one of StreamCall's, or none that a user could tell.      *)
LEMMA StepKeepsPromise ==
  ASSUME TypeOK, Streamed, PromiseInv, Next
  PROVE  [Promise!Next]_(Promise!vars)
<1> DEFINE Same == UNCHANGED << calls, sawDone, cause, outcome >>
<1>0. /\ calls \in Seq(Callback) /\ cursor \in Int /\ deltas \in Seq(Delta)
      /\ Located /\ Accounted /\ CompletedBelow
  BY TypeParts, WordAssumption DEF ToolsOK, HandlerOK, PromiseInv
<1>s. Same => UNCHANGED Promise!vars
  BY DEF Promise!vars
<1>f. Promise!Fail \/ Promise!Report \/ Promise!Done \/ Promise!Return => Promise!Next
  BY DEF Promise!Next
<1>p. at # "returned" => outcome = Promise!Pending
  BY <1>0 DEF Located, Pending, Outcome, Promise!Pending, Promise!Outcome
<1> HIDE DEF Same
<1>1. CASE SetupFails
  <2>1. /\ at = "setup" /\ cause = "none" /\ cause' = "setup"
        /\ outcome' = Promise!Outcome("FAILED", "PROTOCOL")
        /\ UNCHANGED << calls, sawDone >>
    BY <1>0, <1>1 DEF SetupFails, FirstCause, Located, Outcome, Promise!Outcome
  <2>2. Promise!Return
    BY <1>p, <2>1 DEF Promise!Return, Promise!Outcomes
  <2>3. QED
    BY <1>f, <2>2
<1>2. CASE NoHandle \/ TransferFails \/ ChunkArrives \/ ChunkEnds \/ FeedFails \/ EmptyBody
           \/ FrameAborted \/ GrowFails \/ ArgsIncomplete
  <2>1. at # "returned" /\ UNCHANGED << calls, sawDone, outcome >>
    BY <1>2 DEF NoHandle, TransferFails, ChunkArrives, ChunkEnds, FeedFails, EmptyBody,
                FrameAborted, GrowFails, ArgsIncomplete, ending, accumulators, StopTransfer
  <2>2. cause' = cause \/ (cause = "none" /\ cause' \in Promise!Failures)
    <3> DEFINE Known == {"abort", "protocol", "sse", "transport", "tls", "init"}
    <3>k. Known \subseteq Promise!Failures
      BY DEF Promise!Failures
    <3>c. ASSUME NEW c \in Known, FirstCause(c)
          PROVE  cause' = cause \/ (cause = "none" /\ cause' \in Promise!Failures)
      BY <3>k, <3>c DEF FirstCause
    <3>1. CASE NoHandle \/ FeedFails \/ FrameAborted \/ GrowFails \/ ArgsIncomplete
      BY <3>1, <3>c DEF NoHandle, FeedFails, FrameAborted, GrowFails, ArgsIncomplete,
                        Cancel, ProtocolFails
    <3>2. CASE TransferFails
      <4>1. \E tls \in BOOLEAN : FirstCause(IF tls THEN "tls" ELSE "transport")
        BY <3>2 DEF TransferFails
      <4>2. QED
        BY <4>1, <3>c
    <3>3. CASE ChunkArrives \/ ChunkEnds \/ EmptyBody
      BY <3>3, <3>c DEF ChunkArrives, ChunkEnds, EmptyBody, Cancel
    <3>4. QED
      BY <1>2, <3>1, <3>2, <3>3
  <2>3. Same \/ Promise!Fail
    BY <1>p, <2>1, <2>2 DEF Promise!Fail, Same
  <2>4. QED
    BY <1>s, <1>f, <2>3
<1>3. CASE \/ Perform \/ RequestAbort \/ TransferEnds \/ GrowOverruns
           \/ NoFinish \/ FinishTools \/ SkipInactive
  <2>1. Same
    BY <1>3 DEF Perform, RequestAbort, TransferEnds, GrowOverruns, NoFinish, FinishTools,
                SkipInactive, ending, Same
  <2>2. QED
    BY <1>s, <2>1
<1>4. ASSUME NEW e \in Events, IgnoreEvent(e)
      PROVE  [Promise!Next]_(Promise!vars)
  <2>1. Same
    BY <1>4 DEF IgnoreEvent, ending, Same
  <2>2. QED
    BY <1>s, <2>1
<1>5. ASSUME at = "feed", ~protocolError
      PROVE  cause = "none"
  BY <1>0, <1>5 DEF Located, Accounted, Account
<1>6. ASSUME NEW e \in Events, DoneEvent(e)
      PROVE  [Promise!Next]_(Promise!vars)
  <2>1. /\ at = "feed" /\ ~protocolError /\ sawDone' = TRUE
        /\ UNCHANGED << calls, cause, outcome >>
    BY <1>6 DEF DoneEvent, Frame, Ignored, ending
  <2>2. Promise!Done
    BY <1>5, <1>p, <2>1 DEF Promise!Done
  <2>3. QED
    BY <1>f, <2>2
<1>7. ASSUME NEW e \in Events, DeltaEvent(e)
      PROVE  [Promise!Next]_(Promise!vars)
  <2>1. /\ at = "feed" /\ ~protocolError /\ ~sawDone
        /\ calls' = calls \o TextCalls(e)
        /\ UNCHANGED << sawDone, cause, outcome >>
    BY <1>7 DEF DeltaEvent, Frame, Ignored, ending
  <2>2. Promise!AddsCalls
    BY <1>0, <2>1, TextCallsType, CallsAdded
  <2>3. Promise!Report
    BY <1>5, <1>p, <2>1, <2>2 DEF Promise!Report
  <2>4. QED
    BY <1>f, <2>3
<1>8. CASE DeltaTaken \/ DeltaRefused
  <2>1. /\ at = "deltas" /\ cause = "none" /\ ~sawDone
        /\ deltas # << >> /\ calls' = calls \o DeltaCalls(Head(deltas))
        /\ UNCHANGED << sawDone, outcome >>
        /\ cause' \in {"none", "protocol"}
    BY <1>0, <1>8 DEF DeltaTaken, DeltaRefused, Located, ProtocolFails, FirstCause, ending
  <2>2. Head(deltas) \in Delta
    BY <1>0, <2>1
  <2>3. Promise!AddsCalls
    BY <1>0, <2>1, <2>2, DeltaCallsType, CallsAdded
  <2>4. Promise!Report
    BY <1>p, <2>1, <2>3 DEF Promise!Report
  <2>5. QED
    BY <1>f, <2>4
<1>9. CASE Finish \/ Finalized
  <2>1. /\ at \in {"deltas", "finalize"} /\ cause = "none"
        /\ UNCHANGED << sawDone, cause, outcome >>
        /\ calls' = calls \/ (~sawDone /\ calls' = Append(calls, FinishCall(event)))
    BY <1>0, <1>9 DEF Finish, Finalized, DeltasDone, Located, ending
  <2>2. CASE calls' = calls
    BY <1>s, <2>1, <2>2 DEF Same
  <2>3. CASE ~sawDone /\ calls' = Append(calls, FinishCall(event))
    <3>1. calls' = calls \o << FinishCall(event) >>
      BY <1>0, <2>3
    <3>2. Promise!AddsCalls
      BY <1>0, <2>3, <3>1, FinishCallType, CallsAdded
    <3>3. Promise!Report
      BY <1>p, <2>1, <3>2 DEF Promise!Report
    <3>4. QED
      BY <1>f, <3>3
  <2>4. QED
    BY <2>1, <2>2, <2>3
<1>10. CASE CompleteArgs
  <2>1. /\ at = "finalize" /\ cause = "none" /\ cursor < accumsCount
        /\ calls' = Append(calls, Call("args_complete", cursor,
                                      Unescaped(accums[cursor].args)))
        /\ Unescaped(accums[cursor].args) \in ValidJson
        /\ UNCHANGED << sawDone, cause, outcome >>
    BY <1>0, <1>10 DEF CompleteArgs, Completable, Located, ending
  <2>2. cursor \in ToolIndices
    BY <2>1, TypeParts, WordAssumption DEF ToolsOK, ToolIndices
  <2>3. Unescaped(accums[cursor].args) \in Seq(Raw \cup Plain)
    BY <2>1, CompletableType
  <2>4. Promise!AddsCalls
    BY <1>0, <2>1, <2>2, <2>3, CompletionAdded
  <2>5. Promise!Report
    BY <1>p, <2>1, <2>4 DEF Promise!Report
  <2>6. QED
    BY <1>f, <2>5
<1>11. CASE Return
  <2>1. /\ at = "verdict" /\ UNCHANGED << calls, sawDone >>
        /\ outcome' = Verdict
        /\ cause' = IF cause = "none" /\ transfer.httpError THEN "http" ELSE cause
        /\ Account(cause)
    BY <1>0, <1>11 DEF Return, Accounted
  <2>2. cause' \in IF cause = "none" THEN {"none", "http", "setup"} ELSE {cause}
    BY <2>1
  <2>3. Verdict \in Promise!Outcomes(cause')
    BY <2>1 DEF Account, Verdict, ErrorOr, Stage, TransportStage, Outcome,
                Promise!Outcomes, Promise!Outcome
  <2>4. Promise!Return
    BY <1>p, <2>1, <2>2, <2>3 DEF Promise!Return
  <2>5. QED
    BY <1>f, <2>4
<1>12. QED
  BY <1>1, <1>2, <1>3, <1>4, <1>6, <1>7, <1>8, <1>9, <1>10, <1>11 DEF Next

LEMMA PromiseInvariant == Spec => []PromiseInv
<1>1. Init => PromiseInv
  BY DEF Init, Pending, Outcome, PromiseInv, Located, Accounted, Account, CompletedBelow
<1>2. TypeOK /\ Streamed /\ PromiseInv /\ [Next]_vars => PromiseInv'
  <2>1. UNCHANGED vars /\ PromiseInv => PromiseInv'
    BY DEF vars, handler, accumulators, errors, ending, framing,
           PromiseInv, Located, Accounted, Account, CompletedBelow
  <2>2. QED
    BY <2>1, LocatedStep, AccountedStep, CompletedBelowStep DEF PromiseInv
<1>3. QED
  BY <1>1, <1>2, TypeInvariant, PTL DEF Spec

(* Every behaviour of the code's flags and callbacks is one of StreamCall: *)
(* nothing but completed arguments is reported after [DONE], no tool call  *)
(* is completed twice, and the value returned names what ended the call    *)
(* first.                                                                  *)
THEOREM PromiseKept == Spec => KeepsPromise
<1>1. Init => Promise!Init
  BY DEF Init, Promise!Init, Pending, Outcome, Promise!Pending, Promise!Outcome
<1>2. TypeOK /\ Streamed /\ PromiseInv /\ [Next]_vars => [Promise!Next]_(Promise!vars)
  <2>1. UNCHANGED vars => UNCHANGED Promise!vars
    BY DEF vars, ending, Promise!vars
  <2>2. QED
    BY <2>1, StepKeepsPromise
<1>3. QED
  BY <1>1, <1>2, TypeInvariant, PromiseInvariant, PTL
     DEF Spec, KeepsPromise, Promise!Spec

-----------------------------------------------------------------------------
(***************************************************************************)
(* What the user hears of a tool call, and in which order.                 *)
(***************************************************************************)
LEMMA TextCallNames ==
  ASSUME NEW e, NEW p \in DOMAIN TextCalls(e)
  PROVE  TextCalls(e)[p].call \in Parts
<1> DEFINE Part(q) == IF q \in e.parts /\ (q = "usage" => IncludeUsage)
                      THEN << Call(q, NoIndex, << >>) >>
                      ELSE << >>
           Text == {c \in Callback : c.call \in Parts}
<1>1. ASSUME NEW q \in Parts PROVE Part(q) \in Seq(Text)
  <2>1. Call(q, NoIndex, << >>) \in Text
    BY <1>1 DEF Call, Callback, CallNames, Parts
  <2> HIDE DEF Text
  <2>2. QED
    BY <2>1
<1>2. Part("content") \in Seq(Text) /\ Part("reasoning") \in Seq(Text)
        /\ Part("usage") \in Seq(Text)
  BY <1>1 DEF Parts
<1>3. TextCalls(e) = Part("content") \o Part("reasoning") \o Part("usage")
  BY DEF TextCalls
<1> HIDE DEF Part
<1>4. TextCalls(e) \in Seq(Text)
  BY <1>2, <1>3
<1>5. QED
  BY <1>4

LEMMA DeltaCallNames ==
  ASSUME NEW d \in Delta, NEW p \in DOMAIN DeltaCalls(d)
  PROVE  /\ DeltaCalls(d)[p].call \in {"tool_call_delta", "args_fragment"}
         /\ DeltaCalls(d)[p].index = d.index
<1> DEFINE Of == {c \in Callback : /\ c.call \in {"tool_call_delta", "args_fragment"}
                                   /\ c.index = d.index}
<1>1. d.index \in ToolIndices /\ d.args \in Seq(Raw)
  BY DEF Delta
<1>2. d.args \in Seq(Raw \cup Plain)
  BY <1>1
<1>3. /\ Call("tool_call_delta", d.index, << >>) \in Of
      /\ Call("args_fragment", d.index, d.args) \in Of
  BY <1>1, <1>2 DEF Call, Callback, CallNames
<1> HIDE DEF Of
<1>4. DeltaCalls(d) \in Seq(Of)
  BY <1>3 DEF DeltaCalls
<1>5. QED
  BY <1>4 DEF Of

(* What a step adds to the callbacks made, and which action adds it.       *)
Adds(t) ==
  \A k \in DOMAIN t :
    /\ t[k].call = "args_complete" => CompleteArgs /\ t[k].index = cursor
    /\ t[k].call = "tool_call_delta" =>
         /\ DeltaTaken \/ DeltaRefused
         /\ t[k].index = Head(deltas).index
    /\ t[k].call = "finish_tool_calls" =>
         /\ Finish \/ (Finalized /\ event # NoEvent)
         /\ event.finish = "tool_calls"
         /\ t = << FinishCall(event) >>

LEMMA CallsStep ==
  ASSUME TypeOK, Next
  PROVE  \E t \in Seq(Callback) : calls' = calls \o t /\ Adds(t)
<1>1. calls \in Seq(Callback) /\ cursor \in Int /\ deltas \in Seq(Delta)
  BY TypeParts, WordAssumption DEF ToolsOK, HandlerOK
<1>2. ASSUME calls' = calls
      PROVE  \E t \in Seq(Callback) : calls' = calls \o t /\ Adds(t)
  <2>1. << >> \in Seq(Callback) /\ calls' = calls \o << >> /\ Adds(<< >>)
    BY <1>1, <1>2 DEF Adds
  <2>2. QED
    BY <2>1
<1>e. CASE Elsewhere
  BY <1>2, <1>e, ElsewhereNothingChanges
<1>3. CASE \/ TransferEnds \/ FinishTools \/ SkipInactive \/ ArgsIncomplete
           \/ Finalized /\ event = NoEvent
  BY <1>2, <1>3
     DEF TransferEnds, FinishTools, SkipInactive, ArgsIncomplete, Finalized
<1>4. ASSUME NEW e \in Events, DeltaEvent(e)
      PROVE  \E t \in Seq(Callback) : calls' = calls \o t /\ Adds(t)
  <2>1. calls' = calls \o TextCalls(e)
    BY <1>4 DEF DeltaEvent
  <2>2. Adds(TextCalls(e))
    BY TextCallNames DEF Adds, Parts
  <2>3. QED
    BY <2>1, <2>2, TextCallsType
<1>5. CASE DeltaTaken \/ DeltaRefused
  <2>1. deltas # << >> /\ calls' = calls \o DeltaCalls(Head(deltas))
    BY <1>5 DEF DeltaTaken, DeltaRefused
  <2>2. Head(deltas) \in Delta
    BY <1>1, <2>1
  <2>3. Adds(DeltaCalls(Head(deltas)))
    BY <1>5, <2>2, DeltaCallNames DEF Adds
  <2>4. QED
    BY <2>1, <2>2, <2>3, DeltaCallsType
<1>6. CASE Finish \/ (Finalized /\ event # NoEvent)
  <2>1. calls' = Append(calls, FinishCall(event))
    BY <1>6 DEF Finish, Finalized
  <2> DEFINE c == FinishCall(event)
  <2>2. /\ c \in Callback
        /\ c.call \notin {"args_complete", "tool_call_delta"}
        /\ c.call = "finish_tool_calls" => event.finish = "tool_calls"
    BY DEF FinishCall, Call, Callback, CallNames
  <2>3. calls' = calls \o << c >>
    BY <1>1, <2>1, <2>2
  <2>4. Adds(<< c >>)
    BY <1>6, <2>2 DEF Adds
  <2>5. << c >> \in Seq(Callback)
    BY <2>2
  <2>6. QED
    BY <2>3, <2>4, <2>5
<1>7. CASE CompleteArgs
  <2> DEFINE c == Call("args_complete", cursor, Unescaped(accums[cursor].args))
  <2>1. /\ cursor < accumsCount
        /\ calls' = Append(calls, c)
        /\ Unescaped(accums[cursor].args) \in ValidJson
    BY <1>7 DEF CompleteArgs, Completable
  <2>2. cursor \in ToolIndices
    BY <2>1, TypeParts, WordAssumption DEF ToolsOK, ToolIndices
  <2>3. Unescaped(accums[cursor].args) \in Seq(Raw \cup Plain)
    BY <2>1, CompletableType
  <2>4. c \in Callback /\ c.call = "args_complete" /\ c.index = cursor
    BY <2>2, <2>3 DEF Call, Callback, CallNames
  <2> HIDE DEF c
  <2>5. calls' = calls \o << c >> /\ << c >> \in Seq(Callback)
    BY <1>1, <2>1, <2>4
  <2>6. Adds(<< c >>)
    BY <1>7, <2>4 DEF Adds
  <2>7. QED
    BY <2>5, <2>6
<1>8. CASE Finalized
  BY <1>3, <1>6, <1>8
<1>9. QED
  BY <1>e, <1>3, <1>4, <1>5, <1>6, <1>7, <1>8 DEF Next, Elsewhere

(* Callbacks are only added, behind those made.                            *)
LEMMA CalledStep ==
  ASSUME TypeOK, Next
  PROVE  /\ Len(calls) \in Nat
         /\ \A name, i : \A p \in CalledAt(name, i) :
              p \in CalledAt(name, i)' /\ p \in Nat /\ p <= Len(calls)
         /\ \A name, i : \A p \in CalledAt(name, i)' :
              p \in CalledAt(name, i) \/ (p \in Nat /\ p > Len(calls))
         /\ \A i : \A p \in CalledAt("args_complete", i)' :
              p > Len(calls) => CompleteArgs /\ i = cursor
         /\ \A i : \A p \in CalledAt("tool_call_delta", i)' :
              p > Len(calls) => (DeltaTaken \/ DeltaRefused) /\ i = Head(deltas).index
         /\ \A i : \A p \in CalledAt("finish_tool_calls", i)' :
              p > Len(calls) => /\ Finish \/ (Finalized /\ event # NoEvent)
                                /\ event.finish = "tool_calls"
                                /\ p = Len(calls) + 1
<1>1. PICK t \in Seq(Callback) : calls' = calls \o t /\ Adds(t)
  BY CallsStep
<1>2. calls \in Seq(Callback)
  BY TypeParts DEF ToolsOK
<1>3. /\ Len(calls) \in Nat /\ Len(t) \in Nat
      /\ DOMAIN calls = 1 .. Len(calls) /\ DOMAIN t = 1 .. Len(t)
      /\ DOMAIN calls' = 1 .. Len(calls) + Len(t)
      /\ \A p \in 1 .. Len(calls) : calls'[p] = calls[p]
      /\ \A p \in Len(calls) + 1 .. Len(calls) + Len(t) :
           p - Len(calls) \in DOMAIN t /\ calls'[p] = t[p - Len(calls)]
  BY <1>1, <1>2
<1>4. ASSUME NEW name, NEW i, NEW p \in CalledAt(name, i)
      PROVE  p \in CalledAt(name, i)' /\ p \in Nat /\ p <= Len(calls)
  BY <1>3, <1>4 DEF CalledAt
<1>5. ASSUME NEW name, NEW i, NEW p \in CalledAt(name, i)'
      PROVE  /\ p \in CalledAt(name, i) \/ (p \in Nat /\ p > Len(calls))
             /\ p > Len(calls) => \E k \in DOMAIN t : /\ t[k].call = name /\ t[k].index = i
                                                      /\ p = Len(calls) + k
  <2>1. p \in 1 .. Len(calls) + Len(t) /\ calls'[p].call = name /\ calls'[p].index = i
    BY <1>3, <1>5 DEF CalledAt
  <2>2. p \in 1 .. Len(calls) => p \in CalledAt(name, i)
    BY <1>3, <2>1 DEF CalledAt
  <2>3. p > Len(calls) => \E k \in DOMAIN t : /\ t[k].call = name /\ t[k].index = i
                                              /\ p = Len(calls) + k
    <3>1. SUFFICES ASSUME p > Len(calls)
          PROVE  \E k \in DOMAIN t : /\ t[k].call = name /\ t[k].index = i
                                     /\ p = Len(calls) + k
      OBVIOUS
    <3>2. p \in Len(calls) + 1 .. Len(calls) + Len(t)
      BY <1>3, <2>1, <3>1
    <3>3. /\ p - Len(calls) \in DOMAIN t /\ calls'[p] = t[p - Len(calls)]
          /\ p = Len(calls) + (p - Len(calls))
      BY <1>3, <3>2
    <3>4. QED
      BY <2>1, <3>3
  <2>4. p \in 1 .. Len(calls) \/ (p \in Nat /\ p > Len(calls))
    <3>1. Len(calls) \in Nat /\ Len(t) \in Nat /\ p \in 1 .. Len(calls) + Len(t)
      BY <1>3, <2>1
    <3>2. QED
      BY ONLY <3>1
  <2>5. QED
    BY <2>2, <2>3, <2>4
<1>6. ASSUME NEW i, NEW p \in CalledAt("finish_tool_calls", i)', p > Len(calls)
      PROVE  /\ Finish \/ (Finalized /\ event # NoEvent)
             /\ event.finish = "tool_calls"
             /\ p = Len(calls) + 1
  <2>1. PICK k \in DOMAIN t : /\ t[k].call = "finish_tool_calls" /\ t[k].index = i
                              /\ p = Len(calls) + k
    BY <1>5, <1>6
  <2>2. /\ Finish \/ (Finalized /\ event # NoEvent)
        /\ event.finish = "tool_calls"
        /\ t = << FinishCall(event) >>
    BY <1>1, <2>1 DEF Adds
  <2>3. k = 1
    BY <2>1, <2>2
  <2>4. QED
    BY <2>1, <2>2, <2>3
<1>7. ASSUME NEW i, NEW p \in CalledAt("args_complete", i)', p > Len(calls)
      PROVE  CompleteArgs /\ i = cursor
  BY <1>1, <1>5, <1>7 DEF Adds
<1>8. ASSUME NEW i, NEW p \in CalledAt("tool_call_delta", i)', p > Len(calls)
      PROVE  (DeltaTaken \/ DeltaRefused) /\ i = Head(deltas).index
  BY <1>1, <1>5, <1>8 DEF Adds
<1>9. QED
  BY <1>3, <1>4, <1>5, <1>6, <1>7, <1>8

(* Accumulators only gain, and who hears of a tool call holds one.         *)
LEMMA AccumsStep ==
  ASSUME TypeOK, Streamed, Next
  PROVE  /\ \A i \in ToolIndices : accums[i].frozen => accums'[i].frozen
         /\ \A i \in ToolIndices : accums[i].active => accums'[i].active
         /\ CompleteArgs => accums'[cursor].frozen
         /\ DeltaTaken => /\ accums'[Head(deltas).index].active
                          /\ ~accums[Head(deltas).index].frozen
<1>1. /\ accums \in [ToolIndices -> Accumulator] /\ deltas \in Seq(Delta)
      /\ accumsCount \in 0 .. SizeMax /\ cursor \in 0 .. SizeMax
  BY TypeParts DEF ToolsOK, HandlerOK
<1>2. CASE DeltaTaken
  <2> DEFINE d == Head(deltas)
             b == Accumulate(accums[d.index], d)
  <2>1. /\ deltas # << >> /\ ~accums[d.index].frozen
        /\ accums' = [accums EXCEPT ![d.index] = b]
        /\ at = "deltas"
    BY <1>2 DEF DeltaTaken
  <2>2. d \in Delta
    BY <1>1, <2>1
  <2>3. d.index \in ToolIndices
    BY <2>2 DEF Delta
  <2> HIDE DEF d
  <2>4. b.active /\ b.frozen = accums[d.index].frozen
    BY <1>1, <2>2, <2>3, AccumulateType
  <2> HIDE DEF b
  <2>5. \A i \in ToolIndices : accums'[i] = IF i = d.index THEN b ELSE accums[i]
    BY <1>1, <2>1, <2>3
  <2>6. ~CompleteArgs
    BY <2>1 DEF CompleteArgs
  <2>7. QED
    BY <2>1, <2>3, <2>4, <2>5, <2>6 DEF d
<1>3. CASE DeltaRefused
  <2> DEFINE d == Head(deltas)
             b == [accums[d.index] EXCEPT !.active = TRUE, !.sawArgs = TRUE]
  <2>1. /\ deltas # << >>
        /\ accums' = accums \/ accums' = [accums EXCEPT ![d.index] = b]
        /\ at = "deltas" /\ at' = "feed"
    BY <1>3 DEF DeltaRefused, EventHandled
  <2>2. d \in Delta
    BY <1>1, <2>1
  <2>3. d.index \in ToolIndices
    BY <2>2 DEF Delta
  <2> HIDE DEF d
  <2>4. b.active /\ b.frozen = accums[d.index].frozen
    BY <1>1, <2>3 DEF Accumulator
  <2> HIDE DEF b
  <2>5. \/ accums' = accums
        \/ \A i \in ToolIndices : accums'[i] = IF i = d.index THEN b ELSE accums[i]
    BY <1>1, <2>1, <2>3
  <2>6. ~CompleteArgs /\ ~DeltaTaken
    BY <2>1 DEF CompleteArgs, DeltaTaken
  <2>7. QED
    BY <2>4, <2>5, <2>6
<1>4. CASE CompleteArgs \/ ArgsIncomplete
  <2> DEFINE b == [accums[cursor] EXCEPT !.frozen = TRUE,
                                         !.args = Unescaped(accums[cursor].args)]
  <2>1. /\ at = "finalize" /\ cursor < accumsCount
        /\ accums' = [accums EXCEPT ![cursor] = b]
    BY <1>4 DEF CompleteArgs, ArgsIncomplete
  <2>2. cursor \in ToolIndices
    BY <1>1, <2>1, WordAssumption DEF ToolIndices
  <2>3. b.frozen /\ b.active = accums[cursor].active
    BY <1>1, <2>2 DEF Accumulator
  <2> HIDE DEF b
  <2>4. \A i \in ToolIndices : accums'[i] = IF i = cursor THEN b ELSE accums[i]
    BY <1>1, <2>1, <2>2
  <2>5. ~DeltaTaken
    BY <2>1 DEF DeltaTaken
  <2>6. QED
    BY <2>2, <2>3, <2>4, <2>5
<1>5. ASSUME ~DeltaTaken, ~DeltaRefused, ~CompleteArgs, ~ArgsIncomplete
      PROVE  accums' = accums
  BY <1>5, ElsewhereNothingChanges
     DEF Next, Elsewhere, TransferEnds, DeltaEvent, Finish, FinishTools, SkipInactive,
         Finalized, accumulators
<1>6. QED
  BY <1>2, <1>3, <1>4, <1>5

LEMMA ProtocolErrorStays ==
  ASSUME Next, protocolError
  PROVE  protocolError'
<1> USE DEF errors, Cancel, ProtocolFails
<1>1. CASE Elsewhere
  BY <1>1 DEF Elsewhere, SetupFails, NoHandle, Perform, RequestAbort, ChunkArrives,
              ChunkEnds, FeedFails, EmptyBody, TransferFails, FrameAborted, IgnoreEvent,
              DoneEvent, GrowFails, GrowOverruns, NoFinish, Return
<1>2. ASSUME NEW e \in Events, DeltaEvent(e)
      PROVE  protocolError'
  BY <1>2 DEF DeltaEvent
<1>3. CASE TransferEnds \/ DeltaTaken \/ DeltaRefused \/ Finish \/ FinishTools
  BY <1>3 DEF TransferEnds, DeltaTaken, DeltaRefused, Finish, FinishTools
<1>4. CASE SkipInactive \/ CompleteArgs \/ ArgsIncomplete \/ Finalized
  BY <1>4 DEF SkipInactive, CompleteArgs, ArgsIncomplete, Finalized
<1>5. QED
  BY <1>1, <1>2, <1>3, <1>4 DEF Next, Elsewhere

(* What is returned, and from where.                                       *)
LEMMA OutcomeStep ==
  ASSUME Located, Accounted, Next
  PROVE  /\ at # "returned" /\ outcome = Pending
         /\ outcome' # outcome => SetupFails \/ Return
         /\ SetupFails => outcome' = Outcome("FAILED", "PROTOCOL")
         /\ Return /\ protocolError => outcome' = Outcome("FAILED", "PROTOCOL")
         /\ Return /\ outcome'.error = "NONE" => transfer.ok /\ ~protocolError
<1>1. at # "returned"
  <2>1. ASSUME NEW e \in Events, IgnoreEvent(e) \/ DoneEvent(e) \/ DeltaEvent(e)
        PROVE  at # "returned"
    BY <2>1 DEF IgnoreEvent, DoneEvent, DeltaEvent, Frame
  <2>2. CASE \/ SetupFails \/ NoHandle \/ Perform \/ RequestAbort \/ ChunkArrives
             \/ ChunkEnds \/ FeedFails \/ EmptyBody \/ TransferFails \/ TransferEnds
             \/ FrameAborted
    BY <2>2 DEF SetupFails, NoHandle, Perform, RequestAbort, ChunkArrives, ChunkEnds,
                FeedFails, EmptyBody, TransferFails, TransferEnds, FrameAborted
  <2>3. CASE \/ GrowFails \/ GrowOverruns \/ DeltaTaken \/ DeltaRefused \/ NoFinish \/ Finish \/ FinishTools
             \/ SkipInactive \/ CompleteArgs \/ ArgsIncomplete \/ Finalized \/ Return
    BY <2>3 DEF GrowFails, GrowOverruns, DeltaTaken, DeltaRefused, NoFinish, Finish, FinishTools,
                DeltasDone, SkipInactive, CompleteArgs, ArgsIncomplete, Finalized, Return
  <2>4. QED
    BY <2>1, <2>2, <2>3 DEF Next
<1>2. outcome' # outcome => SetupFails \/ Return
  <2>1. ASSUME NEW e \in Events, IgnoreEvent(e) \/ DoneEvent(e) \/ DeltaEvent(e)
        PROVE  outcome' = outcome
    BY <2>1 DEF IgnoreEvent, DoneEvent, DeltaEvent, ending
  <2>2. CASE \/ NoHandle \/ Perform \/ RequestAbort \/ ChunkArrives
             \/ ChunkEnds \/ FeedFails \/ EmptyBody \/ TransferFails \/ TransferEnds
             \/ FrameAborted
    BY <2>2 DEF NoHandle, Perform, RequestAbort, ChunkArrives, ChunkEnds, StopTransfer,
                FeedFails, EmptyBody, TransferFails, TransferEnds, FrameAborted, ending
  <2>3. CASE \/ GrowFails \/ GrowOverruns \/ DeltaTaken \/ DeltaRefused \/ NoFinish \/ Finish \/ FinishTools
             \/ SkipInactive \/ CompleteArgs \/ ArgsIncomplete \/ Finalized
    BY <2>3 DEF GrowFails, GrowOverruns, DeltaTaken, DeltaRefused, NoFinish, Finish, FinishTools,
                SkipInactive, CompleteArgs, ArgsIncomplete, Finalized, ending
  <2>4. QED
    BY <2>1, <2>2, <2>3 DEF Next
<1>3. Return /\ protocolError => outcome' = Outcome("FAILED", "PROTOCOL")
  <2>1. SUFFICES ASSUME Return, protocolError
        PROVE  Verdict = Outcome("FAILED", "PROTOCOL")
    BY DEF Return
  <2>2. error = "FAILED"
    BY <1>1, <2>1 DEF Accounted, Account
  <2>3. QED
    BY <2>1, <2>2 DEF Verdict, ErrorOr, Stage
<1>4. Return /\ outcome'.error = "NONE" => transfer.ok /\ ~protocolError
  BY DEF Return, Verdict, ErrorOr, Outcome
<1>5. SetupFails => outcome' = Outcome("FAILED", "PROTOCOL")
  BY DEF SetupFails
<1>6. QED
  BY <1>1, <1>2, <1>3, <1>4, <1>5 DEF Located

-----------------------------------------------------------------------------
(* A completed accumulator is frozen, and finding it so ends the call.     *)
LateInv ==
  /\ \A i \in ToolIndices : CalledAt("args_complete", i) # {} => accums[i].frozen
  /\ \A i \in ToolIndices :
       (\E p \in CalledAt("args_complete", i) :
          \E q \in CalledAt("tool_call_delta", i) : p < q) => protocolError
  /\ protocolError => outcome \in {Pending, Outcome("FAILED", "PROTOCOL")}

LEMMA LateStep ==
  ASSUME TypeOK, Streamed, PromiseInv, LateInv, Next
  PROVE  LateInv'
<1>1. ASSUME NEW i \in ToolIndices, CalledAt("args_complete", i)' # {}
      PROVE  accums'[i].frozen
  <2>1. CalledAt("args_complete", i) # {} \/ (CompleteArgs /\ i = cursor)
    BY <1>1, CalledStep
  <2>2. QED
    BY <2>1, AccumsStep DEF LateInv
<1>2. ASSUME NEW i \in ToolIndices, NEW p \in CalledAt("args_complete", i)',
             NEW q \in CalledAt("tool_call_delta", i)', p < q
      PROVE  protocolError'
  <2>1. CASE q \in CalledAt("tool_call_delta", i)
    <3>1. p \in CalledAt("args_complete", i)
      BY <1>2, <2>1, CalledStep
    <3>2. protocolError
      BY <1>2, <2>1, <3>1 DEF LateInv
    <3>3. QED
      BY <3>2, ProtocolErrorStays
  <2>2. CASE q \notin CalledAt("tool_call_delta", i)
    <3>1. (DeltaTaken \/ DeltaRefused) /\ i = Head(deltas).index
      BY <1>2, <2>2, CalledStep
    <3>2. CASE DeltaRefused
      BY <3>2 DEF DeltaRefused, ProtocolFails
    <3>3. CASE DeltaTaken
      <4>1. ~CompleteArgs
        BY <3>3 DEF DeltaTaken, CompleteArgs
      <4>2. p \in CalledAt("args_complete", i)
        BY <1>2, <4>1, CalledStep
      <4>3. accums[i].frozen
        BY <4>2 DEF LateInv
      <4>4. QED
        BY <3>1, <3>3, <4>3, AccumsStep
    <3>4. QED
      BY <3>1, <3>2, <3>3
  <2>3. QED
    BY <2>1, <2>2
<1>3. protocolError' => outcome' \in {Pending, Outcome("FAILED", "PROTOCOL")}
  <2>1. outcome' = outcome => outcome' = Pending
    BY OutcomeStep DEF PromiseInv
  <2>2. Return /\ protocolError' => protocolError
    BY DEF Return, errors
  <2>3. QED
    BY <2>1, <2>2, OutcomeStep DEF PromiseInv
<1>4. QED
  BY <1>1, <1>2, <1>3 DEF LateInv

(* A piece of a tool call after its completed arguments fails the call,    *)
(* with the error and stage of a protocol error, whatever else happens.    *)
THEOREM LateDeltasFailTheCall == Spec => []LateDeltasFail
<1>1. Init => LateInv
  BY DEF Init, LateInv, CalledAt
<1>2. TypeOK /\ Streamed /\ PromiseInv /\ LateInv /\ [Next]_vars => LateInv'
  <2>1. UNCHANGED vars /\ LateInv => LateInv'
    BY DEF vars, accumulators, errors, ending, LateInv, CalledAt
  <2>2. QED
    BY <2>1, LateStep
<1>3. LateInv => LateDeltasFail
  BY DEF LateInv, LateDeltasFail
<1>4. QED
  BY <1>1, <1>2, <1>3, TypeInvariant, PromiseInvariant, PTL DEF Spec

-----------------------------------------------------------------------------
Completed(i) == CalledAt("args_complete", i) # {}
Finishes == CalledAt("finish_tool_calls", NoIndex)

(* Either the finish reason has been reported, and it waited for the       *)
(* completed arguments, or nothing is left to complete.                    *)
Settled == Finishes # {} \/ \A i \in ToolIndices : Heard(i) => Completed(i)

FinishWaits ==
  \A p \in Finishes : \A i \in ToolIndices :
    (\E q \in CalledAt("tool_call_delta", i) : q < p) /\ (\A q \in Finishes : p <= q)
      => \E q \in CalledAt("args_complete", i) : q < p

(* Where the call is, and what finalize_tool_calls still has to do there.  *)
Places ==
  /\ ~received => ~sawDone
  /\ at \in {"feed", "deltas", "finalize"} => received
  /\ ~toolCallsFinalized => cursor = 0
  /\ at = "finalize" /\ event # NoEvent => event.finish = "tool_calls"

FinishFollows ==
  toolCallsFinalized /\ ~protocolError /\ at \in {"setup", "transfer", "feed", "deltas"}
    => Finishes # {}

HeardAreActive ==
  ~protocolError => \A i \in ToolIndices : Heard(i) => accums[i].active

PassedAreCompleted ==
  at = "finalize" => \A i \in ToolIndices : i < cursor /\ Heard(i) => Completed(i)

EndsSettled ==
  /\ at = "verdict" /\ transfer.ok /\ ~protocolError /\ sawDone => Settled
  /\ outcome.error = "NONE" /\ sawDone => Settled

ReportInv ==
  Places /\ FinishFollows /\ HeardAreActive /\ PassedAreCompleted /\ EndsSettled /\ FinishWaits

LEMMA HeardStep ==
  ASSUME TypeOK, Next
  PROVE  /\ \A i : Heard(i)' =>
              Heard(i) \/ ((DeltaTaken \/ DeltaRefused) /\ i = Head(deltas).index)
         /\ \A i : Heard(i) => Heard(i)'
         /\ \A i : Completed(i) => Completed(i)'
         /\ Finishes # {} => Finishes' # {}
         /\ \A i : CompleteArgs /\ i = cursor => Completed(i)'
         /\ (Finish \/ (Finalized /\ event # NoEvent)) /\ event.finish = "tool_calls"
              => Finishes' # {}
<1>1. calls \in Seq(Callback)
  BY TypeParts DEF ToolsOK
<1>2. ASSUME NEW i, CompleteArgs, i = cursor PROVE Completed(i)'
  <2> DEFINE c == Call("args_complete", cursor, Unescaped(accums[cursor].args))
  <2>1. calls' = Append(calls, c) /\ cursor' = cursor + 1
    BY <1>2 DEF CompleteArgs
  <2>2. c.call = "args_complete" /\ c.index = i
    BY <1>2 DEF Call
  <2> HIDE DEF c
  <2>3. Len(calls) + 1 \in DOMAIN calls' /\ calls'[Len(calls) + 1] = c
    BY <1>1, <2>1
  <2>4. QED
    BY <2>2, <2>3 DEF Completed, CalledAt
<1>3. ASSUME Finish \/ (Finalized /\ event # NoEvent), event.finish = "tool_calls"
      PROVE  Finishes' # {}
  <2> DEFINE c == FinishCall(event)
  <2>1. calls' = Append(calls, c)
    BY <1>3 DEF Finish, Finalized
  <2>2. c.call = "finish_tool_calls" /\ c.index = NoIndex
    BY <1>3 DEF FinishCall, Call
  <2> HIDE DEF c
  <2>3. Len(calls) + 1 \in DOMAIN calls' /\ calls'[Len(calls) + 1] = c
    BY <1>1, <2>1
  <2>4. QED
    BY <2>2, <2>3 DEF Finishes, CalledAt
<1>4. \A i : Heard(i)' =>
        Heard(i) \/ ((DeltaTaken \/ DeltaRefused) /\ i = Head(deltas).index)
  BY CalledStep DEF Heard
<1>5. \A i : /\ Completed(i) => Completed(i)'
             /\ Heard(i) => Heard(i)'
  BY CalledStep DEF Completed, Heard
<1>6. Finishes # {} => Finishes' # {}
  BY CalledStep DEF Finishes
<1>7. QED
  BY <1>2, <1>3, <1>4, <1>5, <1>6

LEMMA PlacesStep ==
  ASSUME Streamed, Located, Places, Next
  PROVE  Places'
<1> USE DEF Places, accumulators, handler, errors, ending, framing,
            StopTransfer, EventHandled
<1>1. CASE SetupFails \/ NoHandle \/ Perform \/ RequestAbort \/ Return
  BY <1>1 DEF SetupFails, NoHandle, Perform, RequestAbort, Return
<1>2. CASE ChunkArrives \/ ChunkEnds \/ FeedFails \/ FrameAborted
  BY <1>2 DEF ChunkArrives, ChunkEnds, FeedFails, FrameAborted
<1>3. CASE EmptyBody \/ TransferFails
  BY <1>3 DEF EmptyBody, TransferFails
<1>4. CASE TransferEnds
  BY <1>4 DEF TransferEnds, Located
<1>5. ASSUME NEW e \in Events, IgnoreEvent(e) \/ DoneEvent(e) \/ DeltaEvent(e)
      PROVE  Places'
  BY <1>5 DEF IgnoreEvent, DoneEvent, DeltaEvent, Frame
<1>6. CASE GrowFails \/ GrowOverruns \/ DeltaTaken \/ DeltaRefused
  BY <1>6 DEF GrowFails, GrowOverruns, DeltaTaken, DeltaRefused
<1>7. CASE NoFinish \/ Finish \/ FinishTools
  BY <1>7 DEF NoFinish, Finish, FinishTools, DeltasDone
<1>8. CASE SkipInactive \/ CompleteArgs
  <2>1. /\ at = "finalize" /\ toolCallsFinalized /\ toolCallsFinalized'
        /\ UNCHANGED << at, event, received, sawDone >>
    BY <1>8 DEF SkipInactive, CompleteArgs, Streamed
  <2>2. QED
    BY <2>1
<1>9. CASE ArgsIncomplete
  BY <1>9 DEF ArgsIncomplete, LeaveFinalize
<1>10. CASE Finalized
  BY <1>10 DEF Finalized, LeaveFinalize
<1>11. QED
  BY <1>1, <1>2, <1>3, <1>4, <1>5, <1>6, <1>7, <1>8, <1>9, <1>10 DEF Next

LEMMA FinishFollowsStep ==
  ASSUME TypeOK, PromiseInv, Places, FinishFollows, Next
  PROVE  FinishFollows'
<1> USE DEF accumulators, handler, errors, ending, framing, StopTransfer, EventHandled
<1>1. Finishes # {} => Finishes' # {}
  BY HeardStep
<1>2. protocolError => protocolError'
  BY ProtocolErrorStays
<1>3. ASSUME toolCallsFinalized' = toolCallsFinalized,
             at \in {"setup", "transfer", "feed", "deltas"}
      PROVE  FinishFollows'
  BY <1>1, <1>2, <1>3 DEF FinishFollows
<1>4. ASSUME at' \in {"verdict", "returned", "finalize"}
      PROVE  FinishFollows'
  BY <1>4 DEF FinishFollows
<1>5. CASE SetupFails \/ NoHandle \/ Perform \/ RequestAbort \/ Return
  BY <1>3, <1>4, <1>5, OutcomeStep
     DEF SetupFails, NoHandle, Perform, RequestAbort, Return, PromiseInv, FinishFollows,
         Finishes, CalledAt
<1>6. CASE ChunkArrives \/ ChunkEnds \/ FeedFails \/ FrameAborted
  BY <1>3, <1>6 DEF ChunkArrives, ChunkEnds, FeedFails, FrameAborted
<1>7. CASE EmptyBody \/ TransferFails \/ TransferEnds
  BY <1>4, <1>7 DEF EmptyBody, TransferFails, TransferEnds
<1>8. ASSUME NEW e \in Events, IgnoreEvent(e) \/ DoneEvent(e) \/ DeltaEvent(e)
      PROVE  FinishFollows'
  BY <1>3, <1>8 DEF IgnoreEvent, DoneEvent, DeltaEvent, Frame
<1>9. CASE GrowFails \/ GrowOverruns \/ DeltaTaken \/ DeltaRefused
  BY <1>3, <1>9 DEF GrowFails, GrowOverruns, DeltaTaken, DeltaRefused
<1>10. CASE NoFinish \/ Finish \/ FinishTools
  BY <1>3, <1>4, <1>10 DEF NoFinish, Finish, FinishTools, DeltasDone
<1>11. CASE SkipInactive \/ CompleteArgs
  BY <1>4, <1>11 DEF SkipInactive, CompleteArgs
<1>12. CASE ArgsIncomplete
  BY <1>12 DEF ArgsIncomplete, ProtocolFails, FinishFollows
<1>13. CASE Finalized
  <2>1. event # NoEvent => Finishes' # {}
    BY <1>13, HeardStep DEF Finalized, Places
  <2>2. event = NoEvent => at' = "verdict"
    BY <1>13 DEF Finalized, LeaveFinalize
  <2>3. QED
    BY <1>4, <2>1, <2>2 DEF FinishFollows
<1>14. QED
  BY <1>5, <1>6, <1>7, <1>8, <1>9, <1>10, <1>11, <1>12, <1>13 DEF Next

LEMMA HeardAreActiveStep ==
  ASSUME TypeOK, Streamed, HeardAreActive, Next
  PROVE  HeardAreActive'
<1>1. SUFFICES ASSUME ~protocolError', NEW i \in ToolIndices, Heard(i)'
      PROVE  accums'[i].active
  BY DEF HeardAreActive
<1>2. ~protocolError
  BY <1>1, ProtocolErrorStays
<1>3. ~DeltaRefused
  BY <1>1 DEF DeltaRefused, ProtocolFails
<1>4. Heard(i) \/ (DeltaTaken /\ i = Head(deltas).index)
  BY <1>1, <1>3, HeardStep
<1>5. QED
  BY <1>2, <1>4, AccumsStep DEF HeardAreActive

(* While finalize_tool_calls runs, nothing has failed.                     *)
LEMMA FinalizesUnfailed ==
  ASSUME PromiseInv, at \in {"transfer", "deltas", "finalize"}
  PROVE  ~protocolError
BY DEF PromiseInv, Located, Accounted, Account

LEMMA PassedAreCompletedStep ==
  ASSUME TypeOK, Streamed, PromiseInv, Places, HeardAreActive, PassedAreCompleted, Next
  PROVE  PassedAreCompleted'
<1>1. SUFFICES ASSUME at' = "finalize", NEW i \in ToolIndices, i < cursor', Heard(i)'
      PROVE  Completed(i)'
  BY DEF PassedAreCompleted
<1>2. cursor \in Int /\ i \in Int /\ i >= 0
  BY TypeParts, WordAssumption DEF ToolsOK, ToolIndices
<1>3. CASE at # "finalize"
  <2>1. TransferEnds \/ FinishTools
    BY <1>1, <1>3, ElsewhereFinalizes
       DEF Next, Elsewhere, DeltaEvent, DeltaTaken, DeltaRefused, EventHandled, Finish,
           SkipInactive, CompleteArgs, ArgsIncomplete, Finalized
  <2>2. cursor' = cursor /\ ~toolCallsFinalized
    BY <1>1, <2>1 DEF TransferEnds, FinishTools
  <2>3. QED
    BY <1>1, <1>2, <2>2 DEF Places
<1>4. CASE at = "finalize"
  <2>1. ~DeltaTaken /\ ~DeltaRefused
    BY <1>4 DEF DeltaTaken, DeltaRefused
  <2>2. Heard(i) /\ accums[i].active
    BY <1>1, <1>4, <2>1, HeardStep, FinalizesUnfailed DEF HeardAreActive
  <2>3. CASE i < cursor
    BY <1>4, <2>2, <2>3, HeardStep DEF PassedAreCompleted
  <2>4. CASE ~(i < cursor)
    <3>1. cursor' # cursor
      BY <1>1, <2>4
    <3>2. SkipInactive \/ CompleteArgs
      BY <3>1, ElsewhereNothingChanges
         DEF Next, Elsewhere, TransferEnds, DeltaEvent, DeltaTaken, DeltaRefused, Finish,
             FinishTools, ArgsIncomplete, Finalized, accumulators
    <3>3. cursor' = cursor + 1
      BY <3>2 DEF SkipInactive, CompleteArgs
    <3>4. i = cursor
      BY <1>1, <1>2, <2>4, <3>3
    <3>5. CompleteArgs
      BY <2>2, <3>2, <3>4 DEF SkipInactive
    <3>6. QED
      BY <3>4, <3>5, HeardStep
  <2>5. QED
    BY <2>3, <2>4
<1>5. QED
  BY <1>3, <1>4

(* Settled stays so, as long as the user hears of no further tool call.    *)
LEMMA SettledStays ==
  ASSUME TypeOK, Next, Settled, ~DeltaTaken, ~DeltaRefused
  PROVE  Settled'
BY HeardStep DEF Settled

LEMMA EndsSettledStep ==
  ASSUME TypeOK, Streamed, NothingOver, PromiseInv, Places, FinishFollows,
         HeardAreActive, PassedAreCompleted, EndsSettled, Next
  PROVE  EndsSettled'
<1>1. Located /\ Accounted
  BY DEF PromiseInv
<1>2. ASSUME at' = "verdict", transfer'.ok, ~protocolError', sawDone'
      PROVE  Settled'
  <2> USE DEF accumulators, handler, errors, ending, framing, EventHandled
  <2>1. CASE at = "verdict"
    <3>1. RequestAbort
      BY <1>2, <2>1
         DEF Next, SetupFails, NoHandle, Perform, ChunkArrives, ChunkEnds, FeedFails,
             EmptyBody, TransferFails, TransferEnds, FrameAborted, IgnoreEvent, DoneEvent,
             DeltaEvent, Frame, GrowFails, GrowOverruns, DeltaTaken, DeltaRefused, NoFinish, Finish,
             FinishTools, DeltasDone, SkipInactive, CompleteArgs, ArgsIncomplete, Finalized,
             Return
    <3>2. /\ UNCHANGED << transfer, protocolError, sawDone >>
          /\ ~DeltaTaken /\ ~DeltaRefused
      BY <2>1, <3>1 DEF RequestAbort, DeltaTaken, DeltaRefused
    <3>3. QED
      BY <1>2, <2>1, <3>2, SettledStays DEF EndsSettled
  <2>2. CASE TransferEnds
    <3>1. at = "transfer" /\ sawDone /\ toolCallsFinalized
      BY <1>2, <2>2 DEF TransferEnds
    <3>2. Settled
      BY <3>1, FinalizesUnfailed DEF FinishFollows, Settled
    <3>3. QED
      BY <3>1, <3>2, SettledStays DEF DeltaTaken, DeltaRefused
  <2>3. CASE Finalized
    <3>1. at = "finalize" /\ cursor >= accumsCount
      BY <2>3 DEF Finalized
    <3>2. ASSUME NEW i \in ToolIndices, Heard(i)
          PROVE  Completed(i)
      <4>1. accums[i].active
        BY <3>1, <3>2, FinalizesUnfailed DEF HeardAreActive
      <4>2. i < accumsCount /\ i \in Int /\ accumsCount \in Int /\ cursor \in Int
        BY <4>1, TypeParts, WordAssumption DEF NothingOver, ToolsOK, ToolIndices
      <4>3. i < cursor
        BY <3>1, <4>2
      <4>4. QED
        BY <3>1, <3>2, <4>3 DEF PassedAreCompleted
    <3>3. Settled
      BY <3>2 DEF Settled
    <3>4. QED
      BY <3>1, <3>3, SettledStays DEF DeltaTaken, DeltaRefused
  <2>4. CASE EmptyBody
    BY <1>2, <2>4 DEF EmptyBody, Places
  <2>5. CASE NoHandle \/ TransferFails \/ ChunkArrives \/ ChunkEnds \/ FeedFails \/ FrameAborted
    <3>1. \E tls \in BOOLEAN : transfer' = Broken(tls)
      <4>1. CASE NoHandle \/ TransferFails
        BY <4>1 DEF NoHandle, TransferFails
      <4>2. CASE ChunkArrives \/ ChunkEnds
        BY <1>2, <4>2 DEF ChunkArrives, ChunkEnds, StopTransfer, NoTransfer
      <4>3. CASE FeedFails \/ FrameAborted
        BY <4>3 DEF FeedFails, FrameAborted, StopTransfer, NoTransfer
      <4>4. QED
        BY <2>5, <4>1, <4>2, <4>3
    <3>2. QED
      BY <1>2, <3>1 DEF Broken
  <2>6. CASE ArgsIncomplete
    BY <1>2, <2>6 DEF ArgsIncomplete, ProtocolFails
  <2>7. CASE at # "verdict"
    <3>1. \/ TransferEnds \/ Finalized \/ EmptyBody \/ NoHandle \/ TransferFails
          \/ ChunkArrives \/ ChunkEnds \/ FeedFails \/ FrameAborted \/ ArgsIncomplete
      BY <1>2, <2>7
         DEF Next, SetupFails, Perform, RequestAbort, IgnoreEvent, DoneEvent,
             DeltaEvent, Frame, GrowFails, GrowOverruns, DeltaTaken, DeltaRefused, NoFinish, Finish,
             FinishTools, DeltasDone, SkipInactive, CompleteArgs, Return
    <3>2. QED
      BY <2>2, <2>3, <2>4, <2>5, <2>6, <3>1
  <2>8. QED
    BY <2>1, <2>7
<1>3. ASSUME outcome'.error = "NONE", sawDone'
      PROVE  Settled'
  <2>1. Return
    BY <1>1, <1>3, OutcomeStep DEF Pending, Outcome
  <2>2. at = "verdict" /\ transfer.ok /\ ~protocolError /\ sawDone
    BY <1>1, <1>3, <2>1, OutcomeStep DEF Return
  <2>3. Settled
    BY <2>2 DEF EndsSettled
  <2>4. QED
    BY <2>2, <2>3, SettledStays DEF DeltaTaken, DeltaRefused
<1>4. QED
  BY <1>2, <1>3 DEF EndsSettled

LEMMA FinishWaitsStep ==
  ASSUME TypeOK, Streamed, NothingOver, PromiseInv, Places, FinishFollows,
         HeardAreActive, PassedAreCompleted, FinishWaits, Next
  PROVE  FinishWaits'
<1>1. SUFFICES ASSUME NEW p \in Finishes', NEW i \in ToolIndices,
                      NEW q \in CalledAt("tool_call_delta", i)', q < p,
                      \A r \in Finishes' : p <= r
      PROVE  \E r \in CalledAt("args_complete", i)' : r < p
  BY DEF FinishWaits
<1>2. Len(calls) \in Nat
  BY CalledStep
<1>3. CASE p \in Finishes
  <2>1. p \in Nat /\ p <= Len(calls) /\ q \in Nat
    BY <1>3, CalledStep DEF Finishes
  <2>2. q \in CalledAt("tool_call_delta", i)
    BY <1>1, <1>2, <2>1, CalledStep
  <2>3. \A r \in Finishes : p <= r
    BY <1>1, CalledStep DEF Finishes
  <2>4. PICK r \in CalledAt("args_complete", i) : r < p
    BY <1>1, <1>3, <2>2, <2>3 DEF FinishWaits
  <2>5. QED
    BY <2>4, CalledStep
<1>4. CASE p \notin Finishes
  <2>1. p \in Nat /\ p > Len(calls)
    BY <1>4, CalledStep DEF Finishes
  <2>2. /\ Finish \/ (Finalized /\ event # NoEvent)
        /\ event.finish = "tool_calls" /\ p = Len(calls) + 1
    BY <2>1, CalledStep DEF Finishes
  <2>3. Finishes = {}
    <3>1. ASSUME NEW r \in Finishes
          PROVE  FALSE
      <4>1. r \in Finishes' /\ r \in Nat /\ r <= Len(calls)
        BY CalledStep DEF Finishes
      <4>2. p <= r
        BY <1>1, <4>1
      <4>3. QED
        BY <1>2, <2>1, <4>1, <4>2
    <3>2. QED
      BY <3>1
  <2>4. ~Finish
    <3>1. SUFFICES ASSUME Finish
          PROVE  FALSE
      OBVIOUS
    <3>2. at = "deltas" /\ toolCallsFinalized
      BY <2>2, <3>1 DEF Finish, DeltasDone
    <3>3. QED
      BY <2>3, <3>2, FinalizesUnfailed DEF FinishFollows
  <2>5. at = "finalize" /\ cursor >= accumsCount
    BY <2>2, <2>4 DEF Finalized
  <2>6. ~CompleteArgs /\ ~DeltaTaken /\ ~DeltaRefused
    BY <2>5, TypeParts DEF CompleteArgs, DeltaTaken, DeltaRefused, ToolsOK
  <2>7. Heard(i)
    BY <2>6, CalledStep DEF Heard
  <2>8. accums[i].active
    BY <2>5, <2>7, FinalizesUnfailed DEF HeardAreActive
  <2>9. i < accumsCount /\ i \in Int /\ accumsCount \in Int /\ cursor \in Int
    BY <2>8, TypeParts, WordAssumption DEF NothingOver, ToolsOK, ToolIndices
  <2>10. i < cursor
    BY <2>5, <2>9
  <2>11. PICK r \in CalledAt("args_complete", i) : TRUE
    BY <2>5, <2>7, <2>10 DEF PassedAreCompleted, Completed
  <2>12. r \in CalledAt("args_complete", i)' /\ r \in Nat /\ r <= Len(calls)
    BY <2>11, CalledStep
  <2>13. QED
    BY <1>2, <2>1, <2>12
<1>5. QED
  BY <1>3, <1>4

LEMMA ReportInvImplies == ReportInv => ReportedCallsAreCompleted
<1> SUFFICES ASSUME ReportInv
    PROVE  ReportedCallsAreCompleted
  OBVIOUS
<1>1. FinishWaits /\ EndsSettled
  BY DEF ReportInv
<1>2. ASSUME outcome.error = "NONE", sawDone, Finishes = {}, NEW i \in ToolIndices, Heard(i)
      PROVE  CalledAt("args_complete", i) # {}
  BY <1>1, <1>2 DEF EndsSettled, Settled, Heard, Completed
<1>3. QED
  BY <1>1, <1>2 DEF ReportedCallsAreCompleted, FinishWaits, Finishes

(* A tool call the user has heard of is completed before its finish reason *)
(* is reported, and before a call that saw [DONE] succeeds.                *)
THEOREM ReportsWait == Spec => []ReportedCallsAreCompleted
<1>1. Init => ReportInv
  BY DEF Init, ReportInv, Places, FinishFollows, HeardAreActive, PassedAreCompleted,
         EndsSettled, FinishWaits, Finishes, Heard, CalledAt, Pending, Outcome
<1>2. TypeOK /\ Streamed /\ NothingOver /\ PromiseInv /\ ReportInv /\ [Next]_vars
        => ReportInv'
  <2>1. UNCHANGED vars /\ ReportInv => ReportInv'
    BY DEF vars, handler, accumulators, errors, ending, ReportInv, Places, FinishFollows,
           HeardAreActive, PassedAreCompleted, EndsSettled, Settled, FinishWaits, Finishes,
           Heard, Completed, CalledAt
  <2>2. ASSUME TypeOK, Streamed, NothingOver, PromiseInv, ReportInv, Next
        PROVE  ReportInv'
    BY <2>2, PlacesStep, FinishFollowsStep, HeardAreActiveStep, PassedAreCompletedStep,
       EndsSettledStep, FinishWaitsStep DEF ReportInv, PromiseInv
  <2>3. QED
    BY <2>1, <2>2
<1>3. QED
  BY <1>1, <1>2, TypeInvariant, NothingOverInvariant, PromiseInvariant, ReportInvImplies, PTL
     DEF Spec

-----------------------------------------------------------------------------
(* An accumulator is in use when the user has heard of its index, and the  *)
(* array ends with one that is.                                            *)
HeardBounded ==
  /\ accumsCount * AccumSize <= SizeMax
  /\ accumsCount = 0 \/ Heard(accumsCount - 1)
  /\ \A i \in ToolIndices : /\ accums[i].active <=> Heard(i)
                            /\ accums[i].frozen => accums[i].active

LEMMA HeardOfDelta ==
  ASSUME TypeOK, DeltaTaken \/ DeltaRefused
  PROVE  /\ Head(deltas) \in Delta
         /\ Head(deltas).index \in ToolIndices
         /\ Covers(Head(deltas))
         /\ accumsCount' = Grown(Head(deltas))
         /\ \A i : i = Head(deltas).index => Heard(i)'
<1> DEFINE d == Head(deltas)
           c == Call("tool_call_delta", d.index, << >>)
           c2 == Call("args_fragment", d.index, d.args)
<1>1. /\ deltas # << >> /\ Covers(d)
      /\ accumsCount' = Grown(d)
      /\ calls' = calls \o DeltaCalls(d)
  BY DEF DeltaTaken, DeltaRefused
<1>2. deltas \in Seq(Delta) /\ calls \in Seq(Callback)
  BY TypeParts DEF ToolsOK, HandlerOK
<1>3. d \in Delta
  BY <1>1, <1>2
<1>4. d.index \in ToolIndices
  BY <1>3 DEF Delta
<1> HIDE DEF d
<1>5. c.call = "tool_call_delta" /\ c.index = d.index
  BY DEF Call
<1>6. DeltaCalls(d) = << c >> \o IF d.hasArgs THEN << c2 >> ELSE << >>
  BY DEF DeltaCalls
<1> HIDE DEF c, c2
<1>7. DeltaCalls(d) \in Seq(Callback)
  BY <1>3, DeltaCallsType
<1>8. 1 \in DOMAIN DeltaCalls(d) /\ DeltaCalls(d)[1] = c
  BY <1>6
<1>9. Len(calls) + 1 \in DOMAIN calls' /\ calls'[Len(calls) + 1] = c
  BY <1>1, <1>2, <1>7, <1>8
<1>10. ASSUME NEW i, i = d.index
       PROVE  Heard(i)'
  BY <1>5, <1>9, <1>10 DEF Heard, CalledAt
<1>11. QED
  BY <1>1, <1>3, <1>4, <1>10 DEF d

(* Which accumulators a step puts to use, and which it freezes.            *)
LEMMA ActiveStep ==
  ASSUME TypeOK, Next, NEW i \in ToolIndices
  PROVE  /\ (DeltaTaken \/ DeltaRefused) /\ i = Head(deltas).index =>
              accums'[i].active \/ (accums[i].frozen /\ accums' = accums)
         /\ ~((DeltaTaken \/ DeltaRefused) /\ i = Head(deltas).index) =>
              accums'[i].active = accums[i].active
         /\ accums'[i].frozen => accums[i].frozen \/ accums[i].active
<1>1. /\ accums \in [ToolIndices -> Accumulator] /\ deltas \in Seq(Delta)
      /\ accumsCount \in 0 .. SizeMax /\ cursor \in 0 .. SizeMax
  BY TypeParts DEF ToolsOK, HandlerOK
<1>2. CASE DeltaTaken
  <2> DEFINE d == Head(deltas)
             b == Accumulate(accums[d.index], d)
  <2>1. deltas # << >> /\ accums' = [accums EXCEPT ![d.index] = b]
    BY <1>2 DEF DeltaTaken
  <2>2. d \in Delta
    BY <1>1, <2>1
  <2>3. d.index \in ToolIndices
    BY <2>2 DEF Delta
  <2> HIDE DEF d
  <2>4. b.active /\ b.frozen = accums[d.index].frozen
    BY <1>1, <2>2, <2>3, AccumulateType
  <2> HIDE DEF b
  <2>5. accums'[i] = IF i = d.index THEN b ELSE accums[i]
    BY <1>1, <2>1, <2>3
  <2>6. QED
    BY <1>2, <2>4, <2>5 DEF d
<1>3. CASE DeltaRefused
  <2> DEFINE d == Head(deltas)
             b == [accums[d.index] EXCEPT !.active = TRUE, !.sawArgs = TRUE]
  <2>1. /\ deltas # << >>
        /\ IF accums[d.index].frozen
           THEN accums' = accums
           ELSE accums' = [accums EXCEPT ![d.index] = b]
    BY <1>3 DEF DeltaRefused
  <2>2. d \in Delta
    BY <1>1, <2>1
  <2>3. d.index \in ToolIndices
    BY <2>2 DEF Delta
  <2> HIDE DEF d
  <2>4. b.active /\ b.frozen = accums[d.index].frozen
    BY <1>1, <2>3 DEF Accumulator
  <2> HIDE DEF b
  <2>5. CASE accums[d.index].frozen
    BY <1>3, <2>1, <2>5 DEF d
  <2>6. CASE ~accums[d.index].frozen
    <3>1. accums'[i] = IF i = d.index THEN b ELSE accums[i]
      BY <1>1, <2>1, <2>3, <2>6
    <3>2. QED
      BY <1>3, <2>4, <3>1 DEF d
  <2>7. QED
    BY <2>5, <2>6
<1>4. CASE CompleteArgs \/ ArgsIncomplete
  <2> DEFINE b == [accums[cursor] EXCEPT !.frozen = TRUE,
                                         !.args = Unescaped(accums[cursor].args)]
  <2>1. /\ at = "finalize" /\ cursor < accumsCount
        /\ accums[cursor].active
        /\ accums' = [accums EXCEPT ![cursor] = b]
    BY <1>4 DEF CompleteArgs, ArgsIncomplete
  <2>2. cursor \in ToolIndices
    BY <1>1, <2>1, WordAssumption DEF ToolIndices
  <2>3. b.active = accums[cursor].active
    BY <1>1, <2>2 DEF Accumulator
  <2> HIDE DEF b
  <2>4. accums'[i] = IF i = cursor THEN b ELSE accums[i]
    BY <1>1, <2>1, <2>2
  <2>5. ~DeltaTaken /\ ~DeltaRefused
    BY <2>1 DEF DeltaTaken, DeltaRefused
  <2>6. QED
    BY <2>1, <2>3, <2>4, <2>5
<1>5. CASE ~DeltaTaken /\ ~DeltaRefused /\ ~CompleteArgs /\ ~ArgsIncomplete
  <2>1. accums' = accums
    BY <1>5, ElsewhereNothingChanges
       DEF Next, Elsewhere, TransferEnds, DeltaEvent, Finish, FinishTools, SkipInactive,
           Finalized, accumulators
  <2>2. QED
    BY <1>5, <2>1
<1>6. QED
  BY <1>2, <1>3, <1>4, <1>5

LEMMA HeardBoundedStep ==
  ASSUME TypeOK, HeardBounded, Next
  PROVE  HeardBounded'
<1>1. accumsCount \in 0 .. SizeMax
  BY TypeParts DEF ToolsOK
<1>2. ASSUME NEW i \in ToolIndices
      PROVE  /\ accums'[i].active <=> Heard(i)'
             /\ accums'[i].frozen => accums'[i].active
  <2>1. /\ accums[i].active <=> Heard(i)
        /\ accums[i].frozen => accums[i].active
    BY DEF HeardBounded
  <2>2. CASE (DeltaTaken \/ DeltaRefused) /\ i = Head(deltas).index
    BY <2>1, <2>2, ActiveStep, HeardOfDelta
  <2>3. CASE ~((DeltaTaken \/ DeltaRefused) /\ i = Head(deltas).index)
    BY <2>1, <2>3, ActiveStep, HeardStep
  <2>4. QED
    BY <2>2, <2>3
<1>3. CASE DeltaTaken \/ DeltaRefused
  <2> DEFINE d == Head(deltas)
  <2>1. /\ d.index \in ToolIndices /\ Covers(d)
        /\ accumsCount' = Grown(d)
        /\ \A i : i = d.index => Heard(i)'
    BY <1>3, HeardOfDelta
  <2>2. \/ Grown(d) = accumsCount
        \/ Grown(d) = d.index + 1 /\ Grown(d) * AccumSize <= SizeMax
    BY <1>1, <2>1, GrownType
  <2> HIDE DEF d
  <2>3. CASE Grown(d) = accumsCount
    BY <1>2, <2>1, <2>3, HeardStep DEF HeardBounded
  <2>4. CASE Grown(d) = d.index + 1 /\ Grown(d) * AccumSize <= SizeMax
    <3>1. d.index \in Int
      BY <2>1 DEF ToolIndices
    <3>2. accumsCount' - 1 = d.index
      BY <2>1, <2>4, <3>1
    <3>3. QED
      BY <1>2, <2>1, <2>4, <3>2 DEF HeardBounded
  <2>5. QED
    BY <2>2, <2>3, <2>4
<1>4. CASE ~DeltaTaken /\ ~DeltaRefused
  <2>1. accumsCount' = accumsCount
    BY <1>4, ElsewhereNothingChanges
       DEF Next, Elsewhere, TransferEnds, DeltaEvent, Finish, FinishTools, SkipInactive,
           CompleteArgs, ArgsIncomplete, Finalized, accumulators
  <2>2. QED
    BY <1>2, <2>1, HeardStep DEF HeardBounded
<1>5. QED
  BY <1>3, <1>4

LEMMA BothAreBounded == TypeOK /\ NothingOver /\ HeardBounded => AccumulatorsBounded
<1>1. ASSUME TypeOK, NothingOver, NEW i \in ToolIndices
      PROVE  MaxArgs # 0 => Len(accums[i].args) <= MaxArgs
  <2>1. accums[i] \in Accumulator
    BY <1>1, TypeParts DEF ToolsOK
  <2>2. Len(accums[i].args) \in Nat /\ MaxArgs \in Nat
    BY <2>1, LimitsAssumption DEF Accumulator
  <2>3. QED
    BY <1>1, <2>2 DEF NothingOver, Over
<1>2. QED
  BY <1>1 DEF NothingOver, HeardBounded, AccumulatorsBounded

(* Every tool call heard of has an accumulator within the array, the array *)
(* reaches no further and its size has not wrapped, and none holds more    *)
(* than max_tool_args_bytes_per_call, for every stream and word size.      *)
THEOREM ArgumentsBounded == Spec => []AccumulatorsBounded
<1>1. Init => HeardBounded
  BY WordAssumption DEF Init, HeardBounded, Heard, CalledAt
<1>2. TypeOK /\ HeardBounded /\ [Next]_vars => HeardBounded'
  <2>1. UNCHANGED vars /\ HeardBounded => HeardBounded'
    BY DEF vars, accumulators, HeardBounded, Heard, CalledAt
  <2>2. QED
    BY <2>1, HeardBoundedStep
<1>3. QED
  BY <1>1, <1>2, TypeInvariant, NothingOverInvariant, BothAreBounded, PTL DEF Spec

-----------------------------------------------------------------------------
(***************************************************************************)
(* Induction by hand: the least number outside a set of numbers has all    *)
(* the numbers before it in the set.  With it, the recursive functions of  *)
(* the model are the functions their equations describe.                   *)
(***************************************************************************)

Less == {p \in Nat \X Nat : p[1] < p[2]}

LEMMA LessWF == IsWellFoundedOn(Less, Nat)
<1>1. OpToRel(<, Nat) = Less
  BY DEF OpToRel, Less
<1> QED
  BY <1>1, NatLessThanWellFounded

LEMMA UpTo ==
  ASSUME NEW N \in Nat, NEW T, 0 \in T, \A n \in 1 .. N : n - 1 \in T => n \in T
  PROVE  \A n \in 0 .. N : n \in T
<1> DEFINE outside == {n \in 0 .. N : n \notin T}
<1>1. CASE outside = {}
  BY <1>1
<1>2. CASE outside # {}
  <2>1. outside \in SUBSET Nat
    OBVIOUS
  <2>2. PICK x \in outside : \A y \in outside : ~ (<< y, x >> \in Less)
    BY <1>2, <2>1, LessWF, WFMin
  <2>3. x \in 1 .. N /\ x - 1 \in 0 .. N
    BY <2>2
  <2>4. << x - 1, x >> \in Less
    BY <2>3 DEF Less
  <2>5. x - 1 \in T
    BY <2>2, <2>3, <2>4
  <2>6. QED
    BY <2>2, <2>3, <2>5
<1>3. QED
  BY <1>1, <1>2

(* f starts with base on 0 .. N and goes on as step says.                  *)
Steps(N, V) == [1 .. N -> [V -> V]]
Follows(f, N, V, base, step) ==
  /\ f \in [0 .. N -> V]
  /\ f[0] = base
  /\ \A n \in 1 .. N : f[n] = step[n][f[n - 1]]

(* There is such a function.                                               *)
LEMMA Recursion ==
  ASSUME NEW N \in Nat, NEW V, NEW base \in V, NEW step \in Steps(N, V)
  PROVE  \E f : Follows(f, N, V, base, step)
<1> USE DEF Steps
<1> DEFINE Goes(n) == \E f \in [0 .. n -> V] :
                        f[0] = base /\ \A k \in 1 .. n : f[k] = step[k][f[k - 1]]
           T == {n \in 0 .. N : Goes(n)}
<1>1. 0 \in T
  <2>1. [k \in 0 .. 0 |-> base] \in [0 .. 0 -> V]
    OBVIOUS
  <2>2. Goes(0)
    <3>1. /\ [k \in 0 .. 0 |-> base][0] = base
          /\ \A k \in 1 .. 0 : [j \in 0 .. 0 |-> base][k] = step[k][[j \in 0 .. 0 |-> base][k - 1]]
      OBVIOUS
    <3> QED
      BY <2>1, <3>1
  <2> QED
    BY <2>2
<1>2. ASSUME NEW n \in 1 .. N, n - 1 \in T
      PROVE  n \in T
  <2>1. PICK f \in [0 .. n - 1 -> V] :
          f[0] = base /\ \A k \in 1 .. n - 1 : f[k] = step[k][f[k - 1]]
    BY <1>2
  <2> DEFINE g == [k \in 0 .. n |-> IF k = n THEN step[n][f[n - 1]] ELSE f[k]]
  <2>2. step[n][f[n - 1]] \in V
    OBVIOUS
  <2>3. g \in [0 .. n -> V]
    BY <2>2
  <2>4. g[0] = base /\ g[n] = step[n][f[n - 1]] /\ \A k \in 0 .. n - 1 : g[k] = f[k]
    BY <2>1
  <2>5. ASSUME NEW k \in 1 .. n PROVE g[k] = step[k][g[k - 1]]
    <3>1. g[k - 1] = f[k - 1]
      BY <2>4
    <3>2. k < n => g[k] = f[k] /\ f[k] = step[k][f[k - 1]]
      BY <2>1, <2>4
    <3>3. QED
      BY <2>4, <3>1, <3>2
  <2>6. Goes(n)
    BY <2>3, <2>4, <2>5
  <2> QED
    BY <2>6
<1> HIDE DEF T
<1>3. \A n \in 0 .. N : n \in T
  BY <1>1, <1>2, UpTo
<1>4. Goes(N)
  BY <1>3 DEF T
<1> QED
  BY <1>4 DEF Follows

-----------------------------------------------------------------------------
(***************************************************************************)
(* The fragments of one tool call among the callbacks s, joined up to the  *)
(* p-th: FragmentsBefore for any sequence of callbacks.                    *)
(***************************************************************************)

IsFragment(c, i) == c.call = "args_fragment" /\ c.index = i

Joined(s, i, p) ==
  LET joined[n \in 0 .. p] ==
        IF n = 0 THEN << >>
        ELSE IF n \in {q \in DOMAIN s : s[q].call = "args_fragment" /\ s[q].index = i}
             THEN joined[n - 1] \o s[n].args
             ELSE joined[n - 1]
  IN  joined[p]

LEMMA FragmentsAreJoined ==
  ASSUME NEW i, NEW p
  PROVE  FragmentsBefore(i, p) = Joined(calls, i, p)
BY DEF FragmentsBefore, Joined, CalledAt

JoinsUp(f, s, i, p) ==
  /\ f \in [0 .. p -> Seq(Raw \cup Plain)]
  /\ f[0] = << >>
  /\ \A n \in 1 .. p :
       f[n] = IF IsFragment(s[n], i) THEN f[n - 1] \o s[n].args ELSE f[n - 1]
  /\ Joined(s, i, p) = f[p]

LEMMA JoinedIsLast ==
  ASSUME NEW s \in Seq(Callback), NEW i, NEW p \in 0 .. Len(s)
  PROVE  \E f : JoinsUp(f, s, i, p)
<1> DEFINE V == Seq(Raw \cup Plain)
           Frag == {q \in DOMAIN s : s[q].call = "args_fragment" /\ s[q].index = i}
           Val(t, n) == IF n = 0 THEN << >>
                        ELSE IF n \in Frag THEN t[n - 1] \o s[n].args ELSE t[n - 1]
           Is(t) == t = [n \in 0 .. p |-> Val(t, n)]
           joined == CHOOSE t : Is(t)
           step == [n \in 1 .. p |->
                     [x \in V |-> IF IsFragment(s[n], i) THEN x \o s[n].args ELSE x]]
<1>1. p \in Nat /\ DOMAIN s = 1 .. Len(s) /\ Len(s) \in Nat
  BY LenProperties
<1>2. \A n \in 1 .. p : s[n].args \in V
  <2>1. \A n \in 1 .. p : s[n] \in Callback
    BY <1>1, ElementOfSeq
  <2>2. QED
    BY <2>1 DEF Callback
<1>3. \A n \in 1 .. p : n \in Frag <=> IsFragment(s[n], i)
  BY <1>1 DEF IsFragment
<1>4. Joined(s, i, p) = joined[p]
  BY DEF Joined
<1>5. step \in [1 .. p -> [V -> V]]
  <2>1. \A n \in 1 .. p : \A x \in V : x \o s[n].args \in V
    BY <1>2, ConcatProperties
  <2> HIDE DEF V
  <2>2. QED
    BY <2>1
<1>6. \A n \in 1 .. p : \A x \in V :
        step[n][x] = IF IsFragment(s[n], i) THEN x \o s[n].args ELSE x
  OBVIOUS
<1> HIDE DEF step, Frag
<1>7. PICK f \in [0 .. p -> V] : f[0] = << >> /\ \A n \in 1 .. p : f[n] = step[n][f[n - 1]]
  <2>1. << >> \in V /\ step \in Steps(p, V)
    BY <1>5, EmptySeq DEF Steps
  <2>2. \E f : Follows(f, p, V, << >>, step)
    BY <1>1, <2>1, Recursion
  <2>3. QED
    BY <2>2 DEF Follows
<1> HIDE DEF V
<1>8. ASSUME NEW n \in 1 .. p
      PROVE  /\ n - 1 \in 0 .. p
             /\ f[n] = IF IsFragment(s[n], i) THEN f[n - 1] \o s[n].args ELSE f[n - 1]
  <2>1. n - 1 \in 0 .. p
    BY <1>1
  <2>2. f[n - 1] \in V
    BY <1>7, <2>1
  <2>3. QED
    BY <1>6, <1>7, <2>1, <2>2
<1>9. Is(f)
  <2>1. \A n \in 0 .. p : n = 0 \/ n \in 1 .. p
    BY <1>1
  <2>2. \A n \in 0 .. p : f[n] = Val(f, n)
    BY <1>3, <1>7, <1>8, <2>1
  <2> HIDE DEF Val
  <2>3. QED
    BY <1>7, <2>2
<1>10. Is(joined)
  <2> HIDE DEF Val
  <2>1. QED
    BY <1>9
<1> HIDE DEF joined
<1>11. /\ joined[0] = << >>
       /\ \A n \in 1 .. p : joined[n] = IF IsFragment(s[n], i) THEN joined[n - 1] \o s[n].args
                                        ELSE joined[n - 1]
  <2>1. \A n \in 0 .. p : joined[n] = Val(joined, n)
    <3> HIDE DEF Val
    <3>1. QED
      BY <1>10
  <2>2. 0 \in 0 .. p /\ \A n \in 1 .. p : n \in 0 .. p /\ n # 0
    BY <1>1
  <2>3. QED
    BY <1>3, <2>1, <2>2
<1> DEFINE T == {n \in 0 .. p : joined[n] = f[n]}
<1>12. 0 \in T
  BY <1>1, <1>7, <1>11
<1>13. \A n \in 1 .. p : n - 1 \in T => n \in T
  BY <1>1, <1>8, <1>11
<1> HIDE DEF T
<1>14. \A n \in 0 .. p : n \in T
  BY <1>1, <1>12, <1>13, UpTo
<1>15. joined[p] = f[p]
  BY <1>1, <1>14 DEF T
<1>16. QED
  BY <1>4, <1>7, <1>8, <1>15 DEF V, JoinsUp

(* Only the callbacks up to the p-th count.                                *)
LEMMA JoinedOfPrefix ==
  ASSUME NEW s \in Seq(Callback), NEW r \in Seq(Callback), NEW i,
         NEW p \in 0 .. Len(s), NEW k \in 0 .. Len(r), p <= k,
         \A n \in 1 .. p : r[n] = s[n],
         \A n \in p + 1 .. k : ~IsFragment(r[n], i)
  PROVE  Joined(r, i, k) = Joined(s, i, p)
<1>1. p \in Nat /\ k \in Nat /\ p \in 0 .. Len(s) /\ k \in 0 .. Len(r)
  BY LenProperties
<1>2. PICK f : JoinsUp(f, s, i, p)
  BY <1>1, JoinedIsLast
<1>3. PICK g : JoinsUp(g, r, i, k)
  BY <1>1, JoinedIsLast
<1> DEFINE T == {n \in 0 .. k : g[n] = IF n <= p THEN f[n] ELSE f[p]}
<1>4. 0 \in T
  BY <1>1, <1>2, <1>3 DEF JoinsUp
<1>5. ASSUME NEW n \in 1 .. k, n - 1 \in T
      PROVE  n \in T
  <2>1. CASE n <= p
    <3>1. n \in 1 .. p /\ r[n] = s[n] /\ g[n - 1] = f[n - 1]
      BY <1>1, <1>5, <2>1
    <3>2. g[n] = f[n]
      BY <1>2, <1>3, <3>1 DEF JoinsUp
    <3>3. QED
      BY <1>1, <2>1, <3>2
  <2>2. CASE ~(n <= p)
    <3>1. n \in p + 1 .. k
      BY <1>1, <2>2
    <3>2. g[n] = g[n - 1]
      BY <1>3, <3>1 DEF JoinsUp
    <3>3. g[n - 1] = f[p]
      <4>1. g[n - 1] = IF n - 1 <= p THEN f[n - 1] ELSE f[p]
        BY <1>5
      <4>2. n - 1 <= p => n - 1 = p
        BY <1>1, <2>2
      <4>3. QED
        BY <4>1, <4>2
    <3>4. QED
      BY <2>2, <3>2, <3>3
  <2>3. QED
    BY <2>1, <2>2
<1> HIDE DEF T
<1>6. \A n \in 0 .. k : n \in T
  BY <1>1, <1>4, <1>5, UpTo
<1>7. g[k] = f[p]
  BY <1>1, <1>6 DEF T
<1>8. QED
  BY <1>2, <1>3, <1>7 DEF JoinsUp

(* A fragment more.                                                        *)
LEMMA JoinedOneMore ==
  ASSUME NEW r \in Seq(Callback), NEW i, NEW k \in 1 .. Len(r), IsFragment(r[k], i)
  PROVE  Joined(r, i, k) = Joined(r, i, k - 1) \o r[k].args
<1>1. k \in Nat /\ k - 1 \in 0 .. Len(r) /\ k \in 0 .. Len(r)
  BY LenProperties
<1>2. PICK g : JoinsUp(g, r, i, k)
  BY <1>1, JoinedIsLast
<1>3. PICK f : JoinsUp(f, r, i, k - 1)
  BY <1>1, JoinedIsLast
<1> DEFINE T == {n \in 0 .. k - 1 : g[n] = f[n]}
<1>4. 0 \in T
  BY <1>1, <1>2, <1>3 DEF JoinsUp
<1>5. ASSUME NEW n \in 1 .. k - 1, n - 1 \in T
      PROVE  n \in T
  <2>1. n \in 1 .. k /\ n \in 0 .. k - 1 /\ g[n - 1] = f[n - 1]
    BY <1>1, <1>5
  <2>2. g[n] = f[n]
    BY <1>2, <1>3, <2>1 DEF JoinsUp
  <2>3. QED
    BY <2>1, <2>2
<1> HIDE DEF T
<1>6. k - 1 \in Nat
  BY <1>1
<1>7. \A n \in 0 .. k - 1 : n \in T
  BY <1>4, <1>5, <1>6, UpTo
<1>8. g[k - 1] = f[k - 1]
  BY <1>6, <1>7 DEF T
<1>9. k \in 1 .. k
  BY <1>1
<1>10. QED
  BY <1>2, <1>3, <1>8, <1>9 DEF JoinsUp

(* Callbacks that are no fragments of i change nothing, one that is adds   *)
(* its arguments.                                                          *)
LEMMA JoinedOfMore ==
  ASSUME NEW s \in Seq(Callback), NEW t \in Seq(Callback), NEW i
  PROVE  /\ (\A k \in DOMAIN t : ~IsFragment(t[k], i))
              => Joined(s \o t, i, Len(s \o t)) = Joined(s, i, Len(s))
         /\ \A p \in 0 .. Len(s) : Joined(s \o t, i, p) = Joined(s, i, p)
<1> DEFINE r == s \o t
<1>1. /\ r \in Seq(Callback)
      /\ Len(s) \in Nat /\ Len(t) \in Nat
      /\ DOMAIN t = 1 .. Len(t)
      /\ Len(r) = Len(s) + Len(t)
      /\ \A n \in 1 .. Len(s) : r[n] = s[n]
      /\ \A n \in Len(s) + 1 .. Len(r) : n - Len(s) \in DOMAIN t /\ r[n] = t[n - Len(s)]
  BY ConcatProperties, LenProperties
<1> HIDE DEF r
<1>2. ASSUME \A k \in DOMAIN t : ~IsFragment(t[k], i)
      PROVE  Joined(r, i, Len(r)) = Joined(s, i, Len(s))
  <2>1. \A n \in Len(s) + 1 .. Len(r) : ~IsFragment(r[n], i)
    BY <1>1, <1>2
  <2>2. Len(s) \in 0 .. Len(s) /\ Len(r) \in 0 .. Len(r) /\ Len(s) <= Len(r)
    BY <1>1
  <2>3. QED
    BY <1>1, <2>1, <2>2, JoinedOfPrefix
<1>3. ASSUME NEW p \in 0 .. Len(s)
      PROVE  Joined(r, i, p) = Joined(s, i, p)
  <2>1. p \in 0 .. Len(r) /\ p <= p /\ \A n \in 1 .. p : r[n] = s[n]
    BY <1>1
  <2>2. p + 1 .. p = {}
    BY <1>1
  <2>3. QED
    BY <1>1, <2>1, <2>2, JoinedOfPrefix
<1>4. QED
  BY <1>2, <1>3 DEF r

-----------------------------------------------------------------------------
(* An accumulator holds what the user has heard of, until it is frozen.    *)
HeardSoFar ==
  ~protocolError =>
    \A i \in ToolIndices :
      ~accums[i].frozen => accums[i].args = Joined(calls, i, Len(calls))

WholeInv == HeardSoFar /\ CompletedArgsAreWhole

(* The actions that pass no fragments on.                                  *)
LEMMA NoFragmentsStep ==
  ASSUME TypeOK, Next, ~DeltaTaken, ~DeltaRefused
  PROVE  \E t \in Seq(Callback) :
           calls' = calls \o t /\ \A k \in DOMAIN t : t[k].call # "args_fragment"
<1>1. calls \in Seq(Callback) /\ cursor \in 0 .. SizeMax
  BY TypeParts DEF ToolsOK
<1> DEFINE Some == \E t \in Seq(Callback) :
                     calls' = calls \o t /\ \A k \in DOMAIN t : t[k].call # "args_fragment"
<1>2. ASSUME calls' = calls
      PROVE  Some
  <2>1. << >> \in Seq(Callback) /\ calls' = calls \o << >> /\ DOMAIN << >> = {}
    BY <1>1, <1>2
  <2>2. QED
    BY <2>1
<1>3. CASE Elsewhere
  BY <1>2, <1>3, ElsewhereNothingChanges
<1>4. CASE \/ TransferEnds \/ FinishTools \/ SkipInactive \/ ArgsIncomplete
           \/ Finalized /\ event = NoEvent
  BY <1>2, <1>4
     DEF TransferEnds, FinishTools, SkipInactive, ArgsIncomplete, Finalized
<1>5. ASSUME NEW e \in Events, DeltaEvent(e)
      PROVE  Some
  <2>1. calls' = calls \o TextCalls(e)
    BY <1>5 DEF DeltaEvent
  <2>2. \A k \in DOMAIN TextCalls(e) : TextCalls(e)[k].call # "args_fragment"
    BY TextCallNames DEF Parts
  <2>3. QED
    BY <2>1, <2>2, TextCallsType
<1>6. ASSUME NEW c \in Callback, c.call # "args_fragment", calls' = Append(calls, c)
      PROVE  Some
  <2>1. << c >> \in Seq(Callback) /\ DOMAIN << c >> = {1} /\ << c >>[1] = c
    OBVIOUS
  <2>2. calls' = calls \o << c >>
    BY <1>1, <1>6
  <2>3. QED
    BY <1>6, <2>1, <2>2
<1>7. CASE Finish \/ (Finalized /\ event # NoEvent)
  <2>1. calls' = Append(calls, FinishCall(event))
    BY <1>7 DEF Finish, Finalized
  <2>2. FinishCall(event) \in Callback /\ FinishCall(event).call # "args_fragment"
    BY DEF FinishCall, Call, Callback, CallNames
  <2>3. QED
    BY <1>6, <2>1, <2>2
<1>8. CASE CompleteArgs
  <2> DEFINE c == Call("args_complete", cursor, Unescaped(accums[cursor].args))
  <2>1. /\ cursor < accumsCount
        /\ calls' = Append(calls, c)
        /\ Unescaped(accums[cursor].args) \in ValidJson
    BY <1>8 DEF CompleteArgs, Completable
  <2>2. cursor \in ToolIndices
    BY <2>1, TypeParts, WordAssumption DEF ToolsOK, ToolIndices
  <2>3. Unescaped(accums[cursor].args) \in Seq(Raw \cup Plain)
    BY <2>1, CompletableType
  <2>4. c \in Callback /\ c.call # "args_fragment"
    BY <2>2, <2>3 DEF Call, Callback, CallNames
  <2> HIDE DEF c
  <2>5. QED
    BY <1>6, <2>1, <2>4
<1>9. CASE Finalized
  BY <1>4, <1>7, <1>9
<1>10. QED
  BY <1>3, <1>4, <1>5, <1>7, <1>8, <1>9 DEF Next, Elsewhere

LEMMA HeardSoFarStep ==
  ASSUME TypeOK, Streamed, PromiseInv, HeardSoFar, Next
  PROVE  HeardSoFar'
<1> SUFFICES ASSUME ~protocolError', NEW i \in ToolIndices, ~accums'[i].frozen
             PROVE  accums'[i].args = Joined(calls', i, Len(calls'))
  BY DEF HeardSoFar
<1>1. /\ calls \in Seq(Callback) /\ deltas \in Seq(Delta)
      /\ accums \in [ToolIndices -> Accumulator]
      /\ Len(calls) \in Nat
  BY TypeParts, LenProperties DEF ToolsOK, HandlerOK
<1>2. ~protocolError /\ ~accums[i].frozen
  BY ProtocolErrorStays, AccumsStep
<1>3. accums[i].args = Joined(calls, i, Len(calls))
  BY <1>2 DEF HeardSoFar
<1>4. ~DeltaRefused /\ ~ArgsIncomplete
  BY DEF DeltaRefused, ArgsIncomplete, ProtocolFails
<1>5. CASE DeltaTaken
  <2> DEFINE d == Head(deltas)
             b == Accumulate(accums[d.index], d)
             c == Call("tool_call_delta", d.index, << >>)
             c2 == Call("args_fragment", d.index, d.args)
  <2>1. /\ deltas # << >>
        /\ accums' = [accums EXCEPT ![d.index] = b]
        /\ calls' = calls \o DeltaCalls(d)
    BY <1>5 DEF DeltaTaken
  <2>2. d \in Delta
    BY <1>1, <2>1
  <2>3. d.index \in ToolIndices /\ d.args \in Seq(Raw) /\ d.hasArgs \in BOOLEAN
    BY <2>2 DEF Delta
  <2>4. d.args \in Seq(Raw \cup Plain)
    BY <2>3
  <2> HIDE DEF d
  <2>5. b.args = IF d.hasArgs THEN accums[d.index].args \o d.args ELSE accums[d.index].args
    BY <1>1, <2>2, <2>3, AccumulateType
  <2> HIDE DEF b
  <2>6. accums'[i] = IF i = d.index THEN b ELSE accums[i]
    BY <1>1, <2>1, <2>3
  <2>7. /\ c \in Callback /\ c.call = "tool_call_delta"
        /\ c2 \in Callback /\ c2.call = "args_fragment"
        /\ c2.index = d.index /\ c2.args = d.args
    BY <2>3, <2>4 DEF Call, Callback, CallNames
  <2>8. DeltaCalls(d) = << c >> \o IF d.hasArgs THEN << c2 >> ELSE << >>
    BY DEF DeltaCalls
  <2> HIDE DEF c, c2
  <2>9. CASE ~d.hasArgs
    <3>1. DeltaCalls(d) = << c >>
      BY <2>7, <2>8, <2>9
    <3>2. << c >> \in Seq(Callback) /\ \A k \in DOMAIN << c >> : ~IsFragment(<< c >>[k], i)
      BY <2>7 DEF IsFragment
    <3>3. Joined(calls', i, Len(calls')) = Joined(calls, i, Len(calls))
      BY <1>1, <2>1, <3>1, <3>2, JoinedOfMore, ZenonT(60)
    <3>4. QED
      BY <1>3, <2>5, <2>6, <2>9, <3>3
  <2>10. CASE d.hasArgs
    <3> DEFINE both == Append(<< c >>, c2)
    <3>1. DeltaCalls(d) = both
      <4>1. << c >> \in Seq(Callback) /\ << c2 >> \in Seq(Callback)
        BY <2>7
      <4>2. << c >> \o << c2 >> = both
        BY <2>7, <4>1
      <4>3. QED
        BY <2>8, <2>10, <4>2
    <3>2. /\ both \in Seq(Callback)
          /\ DOMAIN both = {1, 2}
          /\ both[1] = c
          /\ both[2] = c2
      <4>1. << c >> \in Seq(Callback) /\ Len(<< c >>) = 1 /\ << c >>[1] = c
        BY <2>7
      <4>2. QED
        BY <2>7, <4>1, AppendProperties
    <3> HIDE DEF both
    <3>3. CASE i # d.index
      <4>1. \A k \in DOMAIN both : ~IsFragment(both[k], i)
        BY <2>7, <3>2, <3>3 DEF IsFragment
      <4>2. Joined(calls', i, Len(calls')) = Joined(calls, i, Len(calls))
        BY <1>1, <2>1, <3>1, <3>2, <4>1, JoinedOfMore
      <4>3. QED
        BY <1>3, <2>6, <3>3, <4>2
    <3>4. CASE i = d.index
      <4>1. /\ calls' \in Seq(Callback)
            /\ Len(calls') = Len(calls) + 2
            /\ calls'[Len(calls) + 1] = c
            /\ calls'[Len(calls) + 2] = c2
            /\ \A n \in 1 .. Len(calls) : calls'[n] = calls[n]
        <5>1. Len(both) = 2
          BY <3>2, LenProperties
        <5>2. calls' = calls \o both
          BY <2>1, <3>1
        <5> DEFINE more == calls \o both
        <5>3. /\ more \in Seq(Callback)
              /\ Len(more) = Len(calls) + Len(both)
              /\ \A n \in 1 .. Len(calls) + Len(both) :
                   more[n] = IF n <= Len(calls) THEN calls[n] ELSE both[n - Len(calls)]
          BY <1>1, <3>2, ConcatProperties, Zenon
        <5> HIDE DEF more
        <5>4. Len(calls) + 1 - Len(calls) = 1 /\ Len(calls) + 2 - Len(calls) = 2
          BY <1>1
        <5>5. calls' = more
          BY <5>2 DEF more
        <5>6. more[Len(calls) + 1] = c
          BY <1>1, <3>2, <5>1, <5>3, <5>4
        <5>7. more[Len(calls) + 2] = c2
          BY <1>1, <3>2, <5>1, <5>3, <5>4
        <5>8. \A n \in 1 .. Len(calls) : more[n] = calls[n]
          BY <1>1, <5>1, <5>3
        <5>9. more \in Seq(Callback) /\ Len(more) = Len(calls) + 2
          BY <1>1, <5>1, <5>3
        <5>10. QED
          BY <5>5, <5>6, <5>7, <5>8, <5>9
      <4> DEFINE N == Len(calls) + 2
                 r == calls'
      <4>2. /\ N \in 1 .. Len(r) /\ N - 1 \in 0 .. Len(r)
            /\ N - 1 = Len(calls) + 1
            /\ N = Len(r)
            /\ Len(calls) \in 0 .. Len(calls) /\ Len(calls) <= N - 1
        BY <1>1, <4>1
      <4>3. IsFragment(r[N], i)
        BY <2>7, <3>4, <4>1 DEF IsFragment
      <4>4. \A n \in Len(calls) + 1 .. N - 1 : ~IsFragment(r[n], i)
        BY <1>1, <2>7, <4>1 DEF IsFragment
      <4>5. r \in Seq(Callback) /\ r[N] = c2 /\ \A n \in 1 .. Len(calls) : r[n] = calls[n]
        BY <4>1
      <4> HIDE DEF N, r
      <4>6. Joined(r, i, N) = Joined(r, i, N - 1) \o r[N].args
        BY <4>2, <4>3, <4>5, JoinedOneMore
      <4>7. Joined(r, i, N - 1) = Joined(calls, i, Len(calls))
        BY <1>1, <4>2, <4>4, <4>5, JoinedOfPrefix
      <4>8. Joined(r, i, Len(r)) = accums[i].args \o d.args
        BY <1>3, <2>7, <4>2, <4>5, <4>6, <4>7
      <4>9. QED
        BY <2>5, <2>6, <2>10, <3>4, <4>8 DEF r
    <3>5. QED
      BY <3>3, <3>4
  <2>11. QED
    BY <2>3, <2>9, <2>10
<1>6. CASE ~DeltaTaken
  <2>1. PICK t \in Seq(Callback) :
          calls' = calls \o t /\ \A k \in DOMAIN t : t[k].call # "args_fragment"
    BY <1>4, <1>6, NoFragmentsStep
  <2>2. Joined(calls', i, Len(calls')) = Joined(calls, i, Len(calls))
    BY <1>1, <2>1, JoinedOfMore DEF IsFragment
  <2>3. accums'[i] = accums[i]
    <3>1. CASE CompleteArgs
      <4>1. i # cursor
        BY <3>1, AccumsStep
      <4>2. QED
        BY <1>1, <3>1, <4>1 DEF CompleteArgs
    <3>2. CASE ~CompleteArgs
      BY <1>4, <1>6, <3>2, ElsewhereNothingChanges
         DEF Next, Elsewhere, TransferEnds, DeltaEvent, Finish, FinishTools, SkipInactive,
             Finalized, accumulators
    <3>3. QED
      BY <3>1, <3>2
  <2>4. QED
    BY <1>3, <2>2, <2>3
<1>7. QED
  BY <1>5, <1>6

LEMMA WholeStep ==
  ASSUME TypeOK, Streamed, PromiseInv, WholeInv, Next
  PROVE  CompletedArgsAreWhole'
<1>1. calls \in Seq(Callback) /\ Len(calls) \in Nat /\ cursor \in 0 .. SizeMax
  BY TypeParts, LenProperties DEF ToolsOK
<1>2. PICK t \in Seq(Callback) : calls' = calls \o t
  BY CallsStep
<1>3. /\ calls' \in Seq(Callback)
      /\ Len(calls') = Len(calls) + Len(t) /\ Len(t) \in Nat
      /\ \A n \in 1 .. Len(calls) : calls'[n] = calls[n]
  BY <1>1, <1>2, ConcatProperties, LenProperties
<1> DEFINE Whole(c, i, p) ==
             /\ c[p].args \in ValidJson
             /\ c[p].args = [n \in DOMAIN Joined(c, i, p) |-> Unescape[Joined(c, i, p)[n]]]
<1>4. ASSUME NEW i \in ToolIndices, NEW p \in CalledAt("args_complete", i)
      PROVE  p \in 1 .. Len(calls) /\ Whole(calls, i, p) /\ Whole(calls', i, p)
  <2>1. p \in 1 .. Len(calls)
    BY <1>1, LenProperties DEF CalledAt
  <2>2. Whole(calls, i, p)
    BY FragmentsAreJoined DEF WholeInv, CompletedArgsAreWhole
  <2>3. Joined(calls', i, p) = Joined(calls, i, p)
    <3>1. p \in 0 .. Len(calls)
      BY <1>1, <2>1
    <3>2. Joined(calls \o t, i, p) = Joined(calls, i, p)
      BY <1>1, <3>1, JoinedOfMore
    <3>3. QED
      BY <1>2, <3>2
  <2>4. QED
    BY <1>3, <2>1, <2>2, <2>3
<1>5. ASSUME NEW i \in ToolIndices, NEW p \in CalledAt("args_complete", i)',
             p \notin CalledAt("args_complete", i)
      PROVE  /\ CompleteArgs /\ i = cursor
             /\ p = Len(calls) + 1
             /\ Whole(calls', i, p)
  <2>1. CompleteArgs /\ i = cursor /\ p > Len(calls) /\ p \in Nat
    BY <1>5, CalledStep
  <2>2. /\ calls' = Append(calls, Call("args_complete", cursor, Unescaped(accums[cursor].args)))
        /\ Unescaped(accums[cursor].args) \in ValidJson
        /\ at = "finalize"
    BY <2>1 DEF CompleteArgs, Completable
  <2>3. Unescaped(accums[cursor].args) \in Seq(Raw \cup Plain)
    BY <2>2, CompletableType
  <2> DEFINE c == Call("args_complete", cursor, Unescaped(accums[cursor].args))
  <2>4. /\ c \in Callback
        /\ c.call = "args_complete"
        /\ c.args = Unescaped(accums[cursor].args)
    BY <2>1, <2>3 DEF Call, Callback, CallNames
  <2> HIDE DEF c
  <2>5. Len(calls') = Len(calls) + 1 /\ calls'[Len(calls) + 1] = c
    BY <1>1, <2>2, <2>4, AppendProperties DEF c
  <2>6. p = Len(calls) + 1
    <3>1. p \in 1 .. Len(calls')
      BY <1>3, <1>5, LenProperties DEF CalledAt
    <3>2. QED
      BY <1>1, <2>1, <2>5, <3>1
  <2>7. ~accums[cursor].frozen
    BY <1>1, <2>1, <2>2 DEF Streamed
  <2>8. ~protocolError
    BY <2>2 DEF PromiseInv, Located, Accounted, Account
  <2>9. accums[cursor].args = Joined(calls, i, Len(calls))
    BY <2>1, <2>7, <2>8 DEF WholeInv, HeardSoFar
  <2>10. Joined(calls', i, p) = Joined(calls, i, Len(calls))
    <3>1. \A n \in Len(calls) + 1 .. p : ~IsFragment(calls'[n], i)
      BY <1>1, <2>4, <2>5, <2>6 DEF IsFragment
    <3>2. p \in 0 .. Len(calls') /\ Len(calls) \in 0 .. Len(calls) /\ Len(calls) <= p
      BY <1>1, <2>5, <2>6
    <3>3. QED
      BY <1>1, <1>3, <3>1, <3>2, JoinedOfPrefix, ZenonT(60)
  <2>11. Whole(calls', i, p)
    BY <2>2, <2>4, <2>5, <2>6, <2>9, <2>10 DEF Unescaped
  <2>12. QED
    BY <2>1, <2>6, <2>11
<1>6. ASSUME NEW i \in ToolIndices, NEW p \in CalledAt("args_complete", i)'
      PROVE  Whole(calls', i, p)
  BY <1>4, <1>5
<1>7. ASSUME NEW i \in ToolIndices, NEW p \in CalledAt("args_complete", i)',
             NEW j \in ToolIndices, NEW q \in CalledAt("args_complete", j)'
      PROVE  p < q <=> i < j
  <2>1. i \in Int /\ j \in Int
    BY DEF ToolIndices
  <2>2. ASSUME NEW k \in ToolIndices, NEW r \in CalledAt("args_complete", k)
        PROVE  k < cursor /\ r \in 1 .. Len(calls)
    <3>1. r \in DOMAIN calls /\ calls[r].call = "args_complete" /\ calls[r].index = k
      BY DEF CalledAt
    <3>2. QED
      BY <1>4, <3>1 DEF PromiseInv, CompletedBelow
  <2>3. CASE p \in CalledAt("args_complete", i) /\ q \in CalledAt("args_complete", j)
    BY <2>3 DEF WholeInv, CompletedArgsAreWhole
  <2>4. CASE p \in CalledAt("args_complete", i) /\ q \notin CalledAt("args_complete", j)
    <3>1. q = Len(calls) + 1 /\ j = cursor
      BY <1>5, <2>4
    <3>2. QED
      BY <1>1, <2>1, <2>2, <2>4, <3>1
  <2>5. CASE p \notin CalledAt("args_complete", i) /\ q \in CalledAt("args_complete", j)
    <3>1. p = Len(calls) + 1 /\ i = cursor
      BY <1>5, <2>5
    <3>2. QED
      BY <1>1, <2>1, <2>2, <2>5, <3>1
  <2>6. CASE p \notin CalledAt("args_complete", i) /\ q \notin CalledAt("args_complete", j)
    <3>1. p = Len(calls) + 1 /\ i = cursor
      BY <1>5, <2>6
    <3>2. q = Len(calls) + 1 /\ j = cursor
      BY <1>5, <2>6
    <3>3. QED
      BY <1>1, <2>1, <3>1, <3>2
  <2>7. QED
    BY <2>3, <2>4, <2>5, <2>6
<1>8. ASSUME NEW i \in ToolIndices, NEW p \in CalledAt("args_complete", i)'
      PROVE  FragmentsBefore(i, p)' = Joined(calls', i, p)
  BY DEF FragmentsBefore, Joined, CalledAt
<1>9. QED
  BY <1>6, <1>7, <1>8 DEF CompletedArgsAreWhole

(* Completed arguments are valid JSON and all that was passed on of them   *)
(* piece by piece, and the calls are completed in the order of their       *)
(* index: for every way the server cuts and mixes the pieces.              *)
THEOREM ArgumentsAreWhole == Spec => []CompletedArgsAreWhole
<1>1. Init => WholeInv
  <2> SUFFICES ASSUME Init PROVE WholeInv
    OBVIOUS
  <2>1. calls = << >> /\ calls \in Seq(Callback) /\ Len(calls) = 0 /\ DOMAIN calls = {}
    BY EmptySeq DEF Init
  <2>2. CompletedArgsAreWhole
    BY <2>1 DEF CompletedArgsAreWhole, CalledAt
  <2>3. ASSUME NEW i \in ToolIndices
        PROVE  accums[i].args = Joined(calls, i, Len(calls))
    <3>1. accums[i].args = << >>
      BY DEF Init
    <3>2. Joined(calls, i, 0) = << >>
      <4>1. 0 \in 0 .. Len(calls)
        BY <2>1
      <4>2. QED
        <5>1. calls \in Seq(Callback)
          BY <2>1
        <5>2. PICK f : JoinsUp(f, calls, i, 0)
          BY <4>1, <5>1, JoinedIsLast
        <5>3. QED
          BY <5>2 DEF JoinsUp
    <3>3. QED
      BY <2>1, <3>1, <3>2
  <2>4. QED
    BY <2>2, <2>3 DEF WholeInv, HeardSoFar
<1>2. TypeOK /\ Streamed /\ PromiseInv /\ WholeInv /\ [Next]_vars => WholeInv'
  <2>1. UNCHANGED vars /\ WholeInv => WholeInv'
    <3> SUFFICES ASSUME UNCHANGED vars, WholeInv
                 PROVE  WholeInv'
      OBVIOUS
    <3>1. calls' = calls /\ accums' = accums /\ protocolError' = protocolError
      BY DEF vars, accumulators, errors
    <3>2. HeardSoFar'
      BY <3>1 DEF WholeInv, HeardSoFar
    <3>3. CompletedArgsAreWhole'
      <4>1. \A name, i : CalledAt(name, i)' = CalledAt(name, i)
        BY <3>1 DEF CalledAt
      <4>2. \A i, p : FragmentsBefore(i, p)' = FragmentsBefore(i, p)
        BY <3>1, <4>1 DEF FragmentsBefore
      <4>3. QED
        BY <3>1, <4>1, <4>2 DEF WholeInv, CompletedArgsAreWhole
    <3>4. QED
      BY <3>2, <3>3 DEF WholeInv
  <2>2. QED
    BY <2>1, HeardSoFarStep, WholeStep DEF WholeInv
<1>3. QED
  BY <1>1, <1>2, TypeInvariant, PromiseInvariant, PTL DEF Spec, WholeInv
=============================================================================
