------------------------------ MODULE ChatStream ------------------------------
(***************************************************************************)
(* One call of llm_chat_stream_with_headers_choice_ex (src/src/llm.c):     *)
(* libcurl hands over chunks, the SSE parser finds frames in them, every   *)
(* frame's event is a chat chunk that may carry text, pieces of tool calls *)
(* and a finish reason, and the user's callbacks hear of all of them.      *)
(*                                                                         *)
(* The code is callbacks within callbacks on one thread.  `at` says how    *)
(* deep it is; meanwhile the caller's abort callback may start to answer   *)
(* TRUE at any time, since what it looks at belongs to other threads or    *)
(* signal handlers.  The framing itself is the subject of SseParser: here  *)
(* a chunk is any number of frames.                                        *)
(***************************************************************************)
EXTENDS Integers, Sequences, FiniteSets

CONSTANTS
  Raw,          \* the characters of arguments as they are streamed, escaped
  Plain,        \* the characters they stand for
  Unescape,     \* which one stands for which
  ValidJson,    \* the argument strings over Plain that are valid JSON
  SizeMax,      \* SIZE_MAX, which is also the largest index a server can name
  AccumSize,    \* sizeof(struct tool_call_accumulator)
  Events,       \* the events the server may send
  IncludeUsage, \* callbacks->include_usage
  MaxArgs,      \* max_tool_args_bytes_per_call, 0 is unlimited
  FrameBound    \* bound of the model: frames in one call

ToolIndices == 0 .. SizeMax
Parts == {"content", "reasoning", "usage"}
FinishReasons == {"unknown", "tool_calls", "other"}
Delta == [index : ToolIndices, hasArgs : BOOLEAN, args : Seq(Raw)]
Event == [kind   : {"done", "empty", "unparsable", "delta"},
          parts  : SUBSET Parts,
          deltas : Seq(Delta),
          finish : FinishReasons]

ASSUME AlphabetAssumption ==
  Unescape \in [Raw -> Plain] /\ ValidJson \subseteq Seq(Plain)
ASSUME WordAssumption ==
  SizeMax \in Nat /\ AccumSize \in Nat \ {0}
ASSUME EventsAssumption ==
  \A e \in Events : e \in Event
ASSUME LimitsAssumption ==
  IncludeUsage \in BOOLEAN /\ MaxArgs \in Nat /\ FrameBound \in Nat

VARIABLES
  at,          \* where the call is
  wantAbort,   \* what the abort callback answers
  event,       \* the event being handled, NoEvent outside on_sse_event
  deltas,      \* those of its tool deltas still to be handled
  accums,      \* a tool call accumulator per index, untouched from accumsCount on
  accumsCount, \* how many of them are allocated, each with 1 KiB for arguments
  cursor,      \* the accumulator finalize_tool_calls is at
  toolCallsFinalized,
  sawDone,
  protocolError,
  error,       \* ctx->error
  sseError,    \* cs->sse_error
  received,    \* libcurl has handed over a chunk
  transfer,    \* the result of http_post_stream
  outcome,     \* the error and stage returned
  frames,      \* history: frames parsed
  skipped,     \* history: one of them held no chat chunk
  calls,       \* history: the callbacks made
  cause        \* history: what ended the call first

accumulators == << accums, accumsCount, cursor, toolCallsFinalized >>
handler      == << event, deltas >>
errors       == << protocolError, error, sseError >>
ending       == << received, transfer, outcome >>
framing      == << frames, skipped >>
vars == << at, wantAbort, handler, accumulators, sawDone, errors, ending,
           framing, calls, cause >>

NoEvent == [kind |-> "none", parts |-> {}, deltas |-> << >>, finish |-> "unknown"]
Broken(tls) == [ok |-> FALSE, tls |-> tls, httpError |-> FALSE]
Ended(httpError) == [ok |-> TRUE, tls |-> FALSE, httpError |-> httpError]
NoTransfer == Broken(FALSE)

Outcome(e, stage) == [error |-> e, stage |-> stage]
Pending == Outcome("pending", "pending")

Call(name, i, args) == [call |-> name, index |-> i, args |-> args]
NoIndex == -1

Init ==
  /\ at = "setup"
  /\ wantAbort \in BOOLEAN
  /\ event = NoEvent
  /\ deltas = << >>
  /\ accums = [i \in ToolIndices |->
                 [active |-> FALSE, sawArgs |-> FALSE, frozen |-> FALSE, args |-> << >>]]
  /\ accumsCount = 0
  /\ cursor = 0
  /\ toolCallsFinalized = FALSE
  /\ sawDone = FALSE
  /\ protocolError = FALSE
  /\ error = "NONE"
  /\ sseError = "OK"
  /\ received = FALSE
  /\ transfer = NoTransfer
  /\ outcome = Pending
  /\ frames = 0
  /\ skipped = FALSE
  /\ calls = << >>
  /\ cause = "none"

(* stream_set_error: the first error stays.                                *)
SetError(e) == error' = IF error = "NONE" THEN e ELSE error

FirstCause(c) == cause' = IF cause = "none" THEN c ELSE cause

ProtocolFails ==
  /\ protocolError' = TRUE
  /\ SetError("FAILED")
  /\ FirstCause("protocol")
  /\ UNCHANGED sseError

-----------------------------------------------------------------------------
(***************************************************************************)
(* Before and around the transfer.                                         *)
(***************************************************************************)

(* The request, the parser or the headers cannot be built.                 *)
SetupFails ==
  /\ at = "setup"
  /\ at' = "returned"
  /\ outcome' = Outcome("FAILED", "PROTOCOL")
  /\ FirstCause("setup")
  /\ UNCHANGED << wantAbort, handler, accumulators, sawDone, errors, received,
                  transfer, framing, calls >>

(* http_post_stream returns: without curl handle it never wrote *status,   *)
(* so that tls_error is whatever was on the stack.                         *)
NoHandle ==
  /\ at = "setup"
  /\ at' = "verdict"
  /\ \E garbage \in BOOLEAN : transfer' = Broken(garbage)
  /\ FirstCause("init")
  /\ UNCHANGED << wantAbort, handler, accumulators, sawDone, errors, received,
                  outcome, framing, calls >>

Perform ==
  /\ at = "setup"
  /\ at' = "transfer"
  /\ UNCHANGED << wantAbort, handler, accumulators, sawDone, errors, ending,
                  framing, calls, cause >>

RequestAbort ==
  /\ ~wantAbort
  /\ at \notin {"returned", "undefined"}
  /\ wantAbort' = TRUE
  /\ UNCHANGED << at, handler, accumulators, sawDone, errors, ending, framing,
                  calls, cause >>

(* The callback has answered FALSE, so that libcurl gives up.              *)
StopTransfer ==
  /\ at' = "verdict"
  /\ transfer' = NoTransfer
  /\ UNCHANGED outcome

Cancel ==
  /\ SetError("CANCELLED")
  /\ FirstCause("abort")
  /\ UNCHANGED protocolError

(* curl_stream_cb is called with the bytes of some frames.                 *)
ChunkArrives ==
  /\ at = "transfer"
  /\ received' = TRUE
  /\ IF wantAbort
     THEN /\ Cancel
          /\ StopTransfer
          /\ UNCHANGED sseError
     ELSE /\ at' = "feed"
          /\ UNCHANGED << errors, transfer, outcome, cause >>
  /\ UNCHANGED << wantAbort, handler, accumulators, sawDone, framing, calls >>

(* sse_feed has processed the chunk.                                       *)
ChunkEnds ==
  /\ at = "feed"
  /\ IF wantAbort
     THEN Cancel /\ StopTransfer /\ UNCHANGED << sseError, received >>
     ELSE IF protocolError
     THEN /\ SetError("FAILED")
          /\ StopTransfer
          /\ UNCHANGED << protocolError, sseError, received, cause >>
     ELSE at' = "transfer" /\ UNCHANGED << errors, ending, cause >>
  /\ UNCHANGED << wantAbort, handler, accumulators, sawDone, framing, calls >>

(* sse_feed meets one of its limits or runs out of memory.                 *)
FeedFails ==
  /\ at = "feed"
  /\ sseError' = "OVERFLOW"
  /\ SetError("FAILED")
  /\ FirstCause("sse")
  /\ StopTransfer
  /\ UNCHANGED << wantAbort, handler, accumulators, sawDone, protocolError,
                  received, framing, calls >>

(* An empty body is one empty chunk.  FALSE is the number of bytes libcurl *)
(* expects to be told here, and the transfer succeeds all the same.        *)
EmptyBody ==
  /\ at = "transfer"
  /\ ~received
  /\ received' = TRUE
  /\ at' = "verdict"
  /\ \E httpError \in BOOLEAN : transfer' = Ended(httpError)
  /\ IF wantAbort
     THEN Cancel /\ UNCHANGED sseError
     ELSE UNCHANGED << errors, cause >>
  /\ UNCHANGED << wantAbort, handler, accumulators, sawDone, outcome, framing, calls >>

(* The connection breaks, TLS fails, or a timeout fires.                   *)
TransferFails ==
  /\ at = "transfer"
  /\ at' = "verdict"
  /\ \E tls \in BOOLEAN :
       /\ transfer' = Broken(tls)
       /\ FirstCause(IF tls THEN "tls" ELSE "transport")
  /\ UNCHANGED << wantAbort, handler, accumulators, sawDone, errors, received,
                  outcome, framing, calls >>

(* The end of the body.  [DONE] without a finish reason before it still    *)
(* has the tool calls completed.                                           *)
TransferEnds ==
  /\ at = "transfer"
  /\ \E httpError \in BOOLEAN : transfer' = Ended(httpError)
  /\ IF sawDone /\ ~toolCallsFinalized
     THEN at' = "finalize" /\ toolCallsFinalized' = TRUE
     ELSE at' = "verdict" /\ UNCHANGED toolCallsFinalized
  /\ UNCHANGED << wantAbort, handler, accums, accumsCount, cursor, sawDone, errors,
                  received, outcome, framing, calls, cause >>

-----------------------------------------------------------------------------
(***************************************************************************)
(* on_sse_frame_abort_stream and on_sse_event.                             *)
(***************************************************************************)

FrameAborted ==
  /\ at = "feed"
  /\ frames < FrameBound
  /\ wantAbort
  /\ frames' = frames + 1
  /\ sseError' = "ABORT"
  /\ Cancel
  /\ StopTransfer
  /\ UNCHANGED << skipped, wantAbort, handler, accumulators, sawDone, received, calls >>

Frame(e) ==
  /\ at = "feed"
  /\ frames < FrameBound
  /\ ~wantAbort
  /\ frames' = frames + 1
  /\ skipped' = \/ skipped
                \/ e.kind = "unparsable" /\ ~protocolError /\ ~sawDone

Ignored_NotAfterDone(e) ==
  protocolError \/ e.kind \in {"empty", "unparsable"}

Ignored(e) ==
  protocolError \/ sawDone \/ e.kind \in {"empty", "unparsable"}

IgnoreEvent(e) ==
  /\ Frame(e)
  /\ Ignored(e)
  /\ UNCHANGED << at, wantAbort, handler, accumulators, sawDone, errors, ending,
                  calls, cause >>

DoneEvent(e) ==
  /\ Frame(e)
  /\ ~Ignored(e)
  /\ e.kind = "done"
  /\ sawDone' = TRUE
  /\ UNCHANGED << at, wantAbort, handler, accumulators, errors, ending, calls, cause >>

(* Content first, then reasoning, then the usage if it was asked for.      *)
TextCalls(e) ==
  LET Part(p) == IF p \in e.parts /\ (p = "usage" => IncludeUsage)
                 THEN << Call(p, NoIndex, << >>) >>
                 ELSE << >>
  IN  Part("content") \o Part("reasoning") \o Part("usage")

DeltaEvent(e) ==
  /\ Frame(e)
  /\ ~Ignored(e)
  /\ e.kind = "delta"
  /\ calls' = calls \o TextCalls(e)
  /\ event' = e
  /\ deltas' = e.deltas
  /\ at' = "deltas"
  /\ UNCHANGED << wantAbort, accumulators, sawDone, errors, ending, cause >>

EventHandled ==
  /\ at' = "feed"
  /\ event' = NoEvent
  /\ deltas' = << >>

(* The array of accumulators grows to the index the server names, and both *)
(* the number of entries and their size in bytes are words that may wrap.  *)
Wrapped(n) == n % (SizeMax + 1)
NewCount(d) == Wrapped(d.index + 1)
Asked(d) == Wrapped(NewCount(d) * AccumSize)

Covers(d) ==
  d.index >= accumsCount =>
    d.index < NewCount(d) /\ NewCount(d) * AccumSize <= Asked(d)

Grown_OnlySlot(d) == IF d.index >= accumsCount THEN accumsCount + 1 ELSE accumsCount

Grown(d) == IF d.index >= accumsCount THEN NewCount(d) ELSE accumsCount

(* What realloc returned does not hold the entry that is written next, or, *)
(* asked for nothing, it freed the array that the end of the call frees    *)
(* again.  From here the behaviour of the program is undefined.            *)
GrowOverruns ==
  /\ at = "deltas"
  /\ deltas # << >>
  /\ ~Covers(Head(deltas))
  /\ at' = "undefined"
  /\ UNCHANGED << wantAbort, handler, accumulators, sawDone, errors, ending, framing,
                  calls, cause >>

(* The array of accumulators cannot grow: the user does not hear of the    *)
(* delta.                                                                  *)
GrowFails ==
  /\ at = "deltas"
  /\ deltas # << >>
  /\ Head(deltas).index >= accumsCount
  /\ Asked(Head(deltas)) = 0 => accumsCount = 0
  /\ ProtocolFails
  /\ EventHandled
  /\ UNCHANGED << wantAbort, accumulators, sawDone, ending, framing, calls >>

DeltaCalls(d) ==
  << Call("tool_call_delta", d.index, << >>) >>
    \o IF d.hasArgs THEN << Call("args_fragment", d.index, d.args) >> ELSE << >>

Over_OffByOne(n) == MaxArgs # 0 /\ n > MaxArgs + 1

Over(n) == MaxArgs # 0 /\ n > MaxArgs

Accumulate_Replaces(a, d) ==
  [a EXCEPT !.active  = TRUE,
            !.sawArgs = @ \/ d.hasArgs,
            !.args    = IF d.hasArgs THEN d.args ELSE @]

(* accum_feed_delta.                                                       *)
Accumulate(a, d) ==
  [a EXCEPT !.active  = TRUE,
            !.sawArgs = @ \/ d.hasArgs,
            !.args    = IF d.hasArgs THEN @ \o d.args ELSE @]

Fits(a, d) == d.args = << >> \/ ~Over(Len(a.args) + Len(d.args))

DeltaTaken_EvenFrozen ==
  /\ at = "deltas"
  /\ deltas # << >>
  /\ LET d == Head(deltas)
         a == accums[d.index]
     IN  /\ Covers(d)
         /\ d.hasArgs => Fits(a, d)
         /\ accums' = [accums EXCEPT ![d.index] = Accumulate(a, d)]
         /\ accumsCount' = Grown(d)
         /\ calls' = calls \o DeltaCalls(d)
  /\ deltas' = Tail(deltas)
  /\ UNCHANGED << at, wantAbort, event, cursor, toolCallsFinalized, sawDone, errors,
                  ending, framing, cause >>

DeltaTaken ==
  /\ at = "deltas"
  /\ deltas # << >>
  /\ LET d == Head(deltas)
         a == accums[d.index]
     IN  /\ Covers(d)
         /\ ~a.frozen
         /\ d.hasArgs => Fits(a, d)
         /\ accums' = [accums EXCEPT ![d.index] = Accumulate(a, d)]
         /\ accumsCount' = Grown(d)
         /\ calls' = calls \o DeltaCalls(d)
  /\ deltas' = Tail(deltas)
  /\ UNCHANGED << at, wantAbort, event, cursor, toolCallsFinalized, sawDone, errors,
                  ending, framing, cause >>

(* The accumulator is frozen, full, or out of memory.  The user hears of   *)
(* the delta and its fragment before the call fails.                       *)
DeltaRefused ==
  /\ at = "deltas"
  /\ deltas # << >>
  /\ LET d == Head(deltas)
         a == accums[d.index]
     IN  /\ Covers(d)
         /\ a.frozen \/ d.hasArgs
         /\ accums' = IF a.frozen
                      THEN accums
                      ELSE [accums EXCEPT ![d.index] =
                              [a EXCEPT !.active = TRUE, !.sawArgs = TRUE]]
         /\ accumsCount' = Grown(d)
         /\ calls' = calls \o DeltaCalls(d)
  /\ ProtocolFails
  /\ EventHandled
  /\ UNCHANGED << wantAbort, cursor, toolCallsFinalized, sawDone, ending, framing >>

-----------------------------------------------------------------------------
(***************************************************************************)
(* The finish reason, and finalize_tool_calls.                             *)
(***************************************************************************)

FinishCall(e) ==
  Call(IF e.finish = "tool_calls" THEN "finish_tool_calls" ELSE "finish_other",
       NoIndex, << >>)

DeltasDone ==
  /\ at = "deltas"
  /\ deltas = << >>

NoFinish ==
  /\ DeltasDone
  /\ event.finish = "unknown"
  /\ EventHandled
  /\ UNCHANGED << wantAbort, accumulators, sawDone, errors, ending, framing, calls, cause >>

Finish ==
  /\ DeltasDone
  /\ \/ event.finish = "other"
     \/ event.finish = "tool_calls" /\ toolCallsFinalized
  /\ calls' = Append(calls, FinishCall(event))
  /\ EventHandled
  /\ UNCHANGED << wantAbort, accumulators, sawDone, errors, ending, framing, cause >>

FinishTools ==
  /\ DeltasDone
  /\ event.finish = "tool_calls"
  /\ ~toolCallsFinalized
  /\ toolCallsFinalized' = TRUE
  /\ at' = "finalize"
  /\ UNCHANGED << wantAbort, handler, accums, accumsCount, cursor, sawDone, errors,
                  ending, framing, calls, cause >>

(* Back to on_sse_event, or to the end of the call.                        *)
LeaveFinalize ==
  \/ event = NoEvent /\ at' = "verdict" /\ UNCHANGED handler
  \/ event # NoEvent /\ EventHandled

Unescaped(args) == [p \in DOMAIN args |-> Unescape[args[p]]]

SkipInactive_WithoutArgs ==
  /\ at = "finalize"
  /\ cursor < accumsCount
  /\ ~accums[cursor].sawArgs
  /\ cursor' = cursor + 1
  /\ UNCHANGED << at, wantAbort, handler, accums, accumsCount, toolCallsFinalized,
                  sawDone, errors, ending, framing, calls, cause >>

SkipInactive_Stays ==
  /\ at = "finalize"
  /\ cursor < accumsCount
  /\ ~accums[cursor].active
  /\ UNCHANGED vars

SkipInactive ==
  /\ at = "finalize"
  /\ cursor < accumsCount
  /\ ~accums[cursor].active
  /\ cursor' = cursor + 1
  /\ UNCHANGED << at, wantAbort, handler, accums, accumsCount, toolCallsFinalized,
                  sawDone, errors, ending, framing, calls, cause >>

Completable(a) == a.sawArgs /\ Unescaped(a.args) \in ValidJson

CompleteArgs ==
  /\ at = "finalize"
  /\ cursor < accumsCount
  /\ LET a == accums[cursor]
     IN  /\ a.active
         /\ Completable(a)
         /\ accums' = [accums EXCEPT ![cursor] =
                         [a EXCEPT !.frozen = TRUE, !.args = Unescaped(a.args)]]
         /\ calls' = Append(calls, Call("args_complete", cursor, Unescaped(a.args)))
  /\ cursor' = cursor + 1
  /\ UNCHANGED << at, wantAbort, handler, accumsCount, toolCallsFinalized, sawDone,
                  errors, ending, framing, cause >>

ArgsIncomplete ==
  /\ at = "finalize"
  /\ cursor < accumsCount
  /\ LET a == accums[cursor]
     IN  /\ a.active
         /\ ~Completable(a)
         /\ accums' = [accums EXCEPT ![cursor] =
                         [a EXCEPT !.frozen = TRUE, !.args = Unescaped(a.args)]]
  /\ ProtocolFails
  /\ LeaveFinalize
  /\ UNCHANGED << wantAbort, accumsCount, cursor, toolCallsFinalized, sawDone, ending,
                  framing, calls >>

(* All are complete, and on_sse_event has a finish reason to report.       *)
Finalized ==
  /\ at = "finalize"
  /\ cursor >= accumsCount
  /\ LeaveFinalize
  /\ calls' = IF event = NoEvent THEN calls ELSE Append(calls, FinishCall(event))
  /\ UNCHANGED << wantAbort, accumulators, sawDone, errors, ending, framing, cause >>

-----------------------------------------------------------------------------
(***************************************************************************)
(* What the call returns.                                                  *)
(***************************************************************************)

TransportStage == IF transfer.tls THEN "TLS" ELSE "TRANSPORT"

ErrorOr(e) == IF error # "NONE" THEN error ELSE e

Stage ==
  IF error = "CANCELLED" THEN "NONE"
  ELSE IF protocolError THEN "PROTOCOL"
  ELSE IF sseError = "OVERFLOW" THEN "SSE"
  ELSE TransportStage

Verdict_HttpFirst ==
  IF transfer.httpError
  THEN Outcome("FAILED", "PROTOCOL")
  ELSE IF ~transfer.ok \/ protocolError
  THEN Outcome(ErrorOr("FAILED"), Stage)
  ELSE Outcome(error, IF error \in {"NONE", "CANCELLED"} THEN "NONE" ELSE "PROTOCOL")

(* An error of the parser always comes with a failed transfer, which       *)
(* leaves nothing to the code's second test of sse_error.                  *)
Verdict ==
  IF ~transfer.ok \/ protocolError
  THEN Outcome(ErrorOr("FAILED"), Stage)
  ELSE IF error # "NONE"
  THEN Outcome(error, IF error = "CANCELLED" THEN "NONE" ELSE "PROTOCOL")
  ELSE IF transfer.httpError
  THEN Outcome("FAILED", "PROTOCOL")
  ELSE Outcome("NONE", "NONE")

Return ==
  /\ at = "verdict"
  /\ at' = "returned"
  /\ outcome' = Verdict
  /\ cause' = IF cause = "none" /\ transfer.httpError THEN "http" ELSE cause
  /\ UNCHANGED << wantAbort, handler, accumulators, sawDone, errors, received,
                  transfer, framing, calls >>

-----------------------------------------------------------------------------
Next ==
  \/ SetupFails
  \/ NoHandle
  \/ Perform
  \/ RequestAbort
  \/ ChunkArrives
  \/ ChunkEnds
  \/ FeedFails
  \/ EmptyBody
  \/ TransferFails
  \/ TransferEnds
  \/ FrameAborted
  \/ \E e \in Events : IgnoreEvent(e) \/ DoneEvent(e) \/ DeltaEvent(e)
  \/ GrowFails
  \/ GrowOverruns
  \/ DeltaTaken
  \/ DeltaRefused
  \/ NoFinish
  \/ Finish
  \/ FinishTools
  \/ SkipInactive
  \/ CompleteArgs
  \/ ArgsIncomplete
  \/ Finalized
  \/ Return

Spec == Init /\ [][Next]_vars

(* The code between two callbacks of libcurl runs to its end; a chunk has  *)
(* an end; and a transfer ends, if only because overall_timeout_ms does    *)
(* not let chunks come for ever.                                           *)
Handling ==
  \/ SetupFails \/ NoHandle \/ Perform
  \/ GrowFails \/ GrowOverruns \/ DeltaTaken \/ DeltaRefused \/ NoFinish \/ Finish \/ FinishTools
  \/ SkipInactive \/ CompleteArgs \/ ArgsIncomplete \/ Finalized
  \/ Return

Fairness ==
  /\ WF_vars(Handling)
  /\ SF_vars(ChunkEnds \/ FeedFails)
  /\ SF_vars(TransferEnds \/ TransferFails)

LiveSpec == Spec /\ Fairness

-----------------------------------------------------------------------------
Locations == {"setup", "transfer", "feed", "deltas", "finalize", "verdict", "returned",
              "undefined"}

CallNames == Parts \cup {"tool_call_delta", "args_fragment", "args_complete",
                         "finish_tool_calls", "finish_other"}

(* Every flag and accumulator of the call has its type.                    *)
TypeOK ==
  /\ at \in Locations
  /\ wantAbort \in BOOLEAN
  /\ event \in Event \cup {NoEvent}
  /\ deltas \in Seq(Delta)
  /\ accums \in [ToolIndices -> [active : BOOLEAN, sawArgs : BOOLEAN,
                                 frozen : BOOLEAN, args : Seq(Raw \cup Plain)]]
  /\ accumsCount \in 0 .. SizeMax
  /\ cursor \in 0 .. SizeMax
  /\ toolCallsFinalized \in BOOLEAN
  /\ sawDone \in BOOLEAN
  /\ protocolError \in BOOLEAN
  /\ error \in {"NONE", "FAILED", "CANCELLED"}
  /\ sseError \in {"OK", "ABORT", "OVERFLOW"}
  /\ received \in BOOLEAN
  /\ transfer \in [ok : BOOLEAN, tls : BOOLEAN, httpError : BOOLEAN]
  /\ frames \in 0 .. FrameBound
  /\ skipped \in BOOLEAN
  /\ calls \in Seq([call : CallNames, index : ToolIndices \cup {NoIndex},
                    args : Seq(Raw \cup Plain)])

CalledAt(name, i) == {p \in DOMAIN calls : calls[p].call = name /\ calls[p].index = i}

(* The user has heard of tool call i.                                      *)
Heard(i) == CalledAt("tool_call_delta", i) # {}

(* The array reaches to the largest index the user has heard of and no     *)
(* further, and its size in bytes is still a number a size_t can hold; the *)
(* indices heard of, and no others, have an accumulator in use; none holds *)
(* more than max_tool_args_bytes_per_call, however the server cuts the     *)
(* arguments; and finalize_tool_calls freezes those it has gone through.   *)
(* Nothing bounds the index: one delta may name any, and an accumulator    *)
(* (with its first 1 KiB) is allocated for every smaller one.              *)
AccumulatorsBounded ==
  /\ accumsCount * AccumSize <= SizeMax
  /\ accumsCount = 0 \/ Heard(accumsCount - 1)
  /\ cursor <= accumsCount
  /\ \A i \in ToolIndices :
       /\ accums[i].active <=> Heard(i)
       /\ Heard(i) => i < accumsCount
       /\ accums[i].sawArgs => accums[i].active
       /\ MaxArgs # 0 => Len(accums[i].args) <= MaxArgs
       /\ accums[i].frozen => toolCallsFinalized /\ i <= cursor

(* The fragments of call i that the user has heard of before position p.   *)
FragmentsBefore(i, p) ==
  LET joined[n \in 0 .. p] ==
        IF n = 0 THEN << >>
        ELSE IF n \in CalledAt("args_fragment", i)
             THEN joined[n - 1] \o calls[n].args
             ELSE joined[n - 1]
  IN  joined[p]

(* on_tool_args_complete is called once for a tool call, with valid JSON,  *)
(* and with all of what on_tool_args_fragment has passed on piece by       *)
(* piece, whatever the order in which the pieces of several calls came;    *)
(* and the calls are completed in the order of their index.                *)
CompletedArgsAreWhole ==
  \A i \in ToolIndices : \A p \in CalledAt("args_complete", i) :
    /\ calls[p].args \in ValidJson
    /\ LET fragments == FragmentsBefore(i, p)
       IN  calls[p].args = [n \in DOMAIN fragments |-> Unescape[fragments[n]]]
    /\ \A j \in ToolIndices : \A q \in CalledAt("args_complete", j) :
         p < q <=> i < j

(* A tool call the user has heard of is completed before the user hears of *)
(* the finish reason tool_calls, and before a call whose stream ended with *)
(* [DONE] returns LLM_ERR_NONE.  (Finish reasons after the first find the  *)
(* tool calls finalized and complete nothing.)                             *)
ReportedCallsAreCompleted ==
  LET finishes == CalledAt("finish_tool_calls", NoIndex)
      HeardBefore(i, p) == \E q \in CalledAt("tool_call_delta", i) : q < p
  IN  /\ \A p \in finishes : \A i \in ToolIndices :
            HeardBefore(i, p) /\ (\A q \in finishes : p <= q)
              => \E q \in CalledAt("args_complete", i) : q < p
      /\ outcome.error = "NONE" /\ sawDone /\ finishes = {} =>
            \A i \in ToolIndices :
              Heard(i) => CalledAt("args_complete", i) # {}

(* A piece of a tool call that comes after its arguments were declared     *)
(* complete makes the whole call fail: the caller never runs a tool with   *)
(* arguments that are not what the server sent in the end.                 *)
LateDeltasFail ==
  \A i \in ToolIndices :
    (\E p \in CalledAt("args_complete", i) : \E q \in CalledAt("tool_call_delta", i) : p < q)
      => /\ protocolError
         /\ outcome \in {Pending, Outcome("FAILED", "PROTOCOL")}

(* The code's flags add up to what a streaming call promises: no callback  *)
(* after [DONE] but completed arguments, none after a failure, and the     *)
(* error and stage returned are those of what went wrong first, though     *)
(* several things may.                                                     *)
Promise == INSTANCE StreamCall
KeepsPromise == Promise!Spec

(* The call returns, whatever the server sends, or it has left what C      *)
(* defines on an index that makes the size of the accumulators wrap.       *)
CallReturns == <>(at \in {"returned", "undefined"})

(* HACKING.md:165 and 169, "Never swallow errors from:" ... "JSON parsing":*)
(* a call that met an event that is no JSON does not return LLM_ERR_NONE.  *)
ParseErrorsAreReported == skipped => outcome.error # "NONE"

=============================================================================
