--------------------------- MODULE CompletionsStream ---------------------------
(***************************************************************************)
(* One call of llm_completions_stream_with_headers_choice_ex (llm.c).  It  *)
(* is the older sibling of ChatStream: the same callbacks within           *)
(* callbacks, without tool calls and without the chat stream's last look   *)
(* at the error flag.                                                      *)
(***************************************************************************)
EXTENDS Integers, Sequences

CONSTANTS
  Events,       \* the events the server may send
  IncludeUsage, \* callbacks->include_usage
  FrameBound    \* bound of the model: frames in one call

Parts == {"content", "usage", "finish"}
Event == [kind : {"done", "empty", "unparsable", "text"}, parts : SUBSET Parts]

ASSUME CompletionsAssumption ==
  Events \subseteq Event /\ IncludeUsage \in BOOLEAN /\ FrameBound \in Nat

VARIABLES
  at,        \* where the call is
  wantAbort, \* what the abort callback answers
  done,      \* ctx->done
  error,     \* cs->error
  sseError,  \* cs->sse_error
  received,  \* libcurl has handed over a chunk
  transfer,  \* the result of http_post_stream
  outcome,   \* the error and stage returned
  frames,    \* history: frames parsed
  calls,     \* history: the callbacks made
  cause      \* history: what ended the call first

errors == << error, sseError >>
ending == << received, transfer, outcome >>
vars   == << at, wantAbort, done, errors, ending, frames, calls, cause >>

Broken(tls) == [ok |-> FALSE, tls |-> tls, httpError |-> FALSE]
Ended(httpError) == [ok |-> TRUE, tls |-> FALSE, httpError |-> httpError]
NoTransfer == Broken(FALSE)
Outcome(e, stage) == [error |-> e, stage |-> stage]
Pending == Outcome("pending", "pending")
Call(name) == [call |-> name, index |-> -1, args |-> << >>]

Init ==
  /\ at = "setup"
  /\ wantAbort \in BOOLEAN
  /\ done = FALSE
  /\ error = "NONE"
  /\ sseError = "OK"
  /\ received = FALSE
  /\ transfer = NoTransfer
  /\ outcome = Pending
  /\ frames = 0
  /\ calls = << >>
  /\ cause = "none"

SetError(e) == error' = IF error = "NONE" THEN e ELSE error
FirstCause(c) == cause' = IF cause = "none" THEN c ELSE cause

StopTransfer ==
  /\ at' = "verdict"
  /\ transfer' = NoTransfer
  /\ UNCHANGED << received, outcome >>

Cancel ==
  /\ SetError("CANCELLED")
  /\ FirstCause("abort")
  /\ StopTransfer

-----------------------------------------------------------------------------
SetupFails ==
  /\ at = "setup"
  /\ at' = "returned"
  /\ outcome' = Outcome("FAILED", "PROTOCOL")
  /\ FirstCause("setup")
  /\ UNCHANGED << wantAbort, done, errors, received, transfer, frames, calls >>

(* No curl handle, and a transport status nobody wrote.                    *)
NoHandle ==
  /\ at = "setup"
  /\ at' = "verdict"
  /\ \E garbage \in BOOLEAN : transfer' = Broken(garbage)
  /\ FirstCause("init")
  /\ UNCHANGED << wantAbort, done, errors, received, outcome, frames, calls >>

Perform ==
  /\ at = "setup"
  /\ at' = "transfer"
  /\ UNCHANGED << wantAbort, done, errors, ending, frames, calls, cause >>

RequestAbort ==
  /\ ~wantAbort
  /\ at # "returned"
  /\ wantAbort' = TRUE
  /\ UNCHANGED << at, done, errors, ending, frames, calls, cause >>

(* sse_stream_cb, before and ...                                           *)
ChunkArrives ==
  /\ at = "transfer"
  /\ received' = TRUE
  /\ \/ /\ wantAbort
        /\ SetError("CANCELLED")
        /\ FirstCause("abort")
        /\ at' = "verdict"
        /\ transfer' = NoTransfer
     \/ /\ ~wantAbort
        /\ at' = "feed"
        /\ UNCHANGED << error, transfer, cause >>
  /\ UNCHANGED << wantAbort, done, sseError, outcome, frames, calls >>

(* ... after it has fed the parser.                                        *)
ChunkEnds ==
  /\ at = "feed"
  /\ \/ wantAbort /\ Cancel
     \/ ~wantAbort /\ at' = "transfer" /\ UNCHANGED << error, ending, cause >>
  /\ UNCHANGED << wantAbort, done, sseError, frames, calls >>

FeedFails_RecordsTheCode ==
  /\ at = "feed"
  /\ sseError' = "OVERFLOW"
  /\ SetError("OVERFLOW")
  /\ FirstCause("sse")
  /\ StopTransfer
  /\ UNCHANGED << wantAbort, done, frames, calls >>

FeedFails ==
  /\ at = "feed"
  /\ sseError' = "OVERFLOW"
  /\ SetError("FAILED")
  /\ FirstCause("sse")
  /\ StopTransfer
  /\ UNCHANGED << wantAbort, done, frames, calls >>

(* on_sse_frame_abort.                                                     *)
FrameAborted ==
  /\ at = "feed"
  /\ frames < FrameBound
  /\ wantAbort
  /\ frames' = frames + 1
  /\ sseError' = "ABORT"
  /\ Cancel
  /\ UNCHANGED << wantAbort, done, calls >>

(* An empty body is one empty chunk.  The abort callback's answer reaches  *)
(* cs->error, but FALSE is the number of bytes libcurl expects to be told, *)
(* and the transfer goes on to its end: the answer ends nothing.           *)
EmptyBody ==
  /\ at = "transfer"
  /\ ~received
  /\ received' = TRUE
  /\ at' = "verdict"
  /\ \E httpError \in BOOLEAN : transfer' = Ended(httpError)
  /\ \/ wantAbort /\ SetError("CANCELLED")
     \/ ~wantAbort /\ UNCHANGED error
  /\ UNCHANGED << wantAbort, done, sseError, outcome, frames, calls, cause >>

TransferFails ==
  /\ at = "transfer"
  /\ at' = "verdict"
  /\ \E tls \in BOOLEAN :
       /\ transfer' = Broken(tls)
       /\ FirstCause(IF tls THEN "tls" ELSE "transport")
  /\ UNCHANGED << wantAbort, done, errors, received, outcome, frames, calls >>

TransferEnds ==
  /\ at = "transfer"
  /\ at' = "verdict"
  /\ \E httpError \in BOOLEAN : transfer' = Ended(httpError)
  /\ UNCHANGED << wantAbort, done, errors, received, outcome, frames, calls, cause >>

-----------------------------------------------------------------------------
TextCalls(e) ==
  LET Part(p) == IF p \in e.parts /\ (p = "usage" => IncludeUsage)
                 THEN << Call(p) >>
                 ELSE << >>
  IN  Part("content") \o Part("usage") \o Part("finish")

(* on_sse_completions_event, after the frame callback has answered TRUE.   *)
HandleEvent_AlsoAfterDone(e) ==
  /\ at = "feed"
  /\ frames < FrameBound
  /\ ~wantAbort
  /\ frames' = frames + 1
  /\ done' = (done \/ e.kind = "done")
  /\ calls' = IF e.kind = "text" THEN calls \o TextCalls(e) ELSE calls
  /\ UNCHANGED << at, wantAbort, errors, ending, cause >>

HandleEvent(e) ==
  /\ at = "feed"
  /\ frames < FrameBound
  /\ ~wantAbort
  /\ frames' = frames + 1
  /\ done' = (done \/ e.kind = "done")
  /\ calls' = IF ~done /\ e.kind = "text" THEN calls \o TextCalls(e) ELSE calls
  /\ UNCHANGED << at, wantAbort, errors, ending, cause >>

Stage ==
  IF error = "CANCELLED" THEN "NONE"
  ELSE IF sseError = "OVERFLOW" THEN "SSE"
  ELSE IF transfer.tls THEN "TLS" ELSE "TRANSPORT"

(* An error of the parser always comes with a failed transfer, which       *)
(* leaves nothing to the code's second test of sse_error.                  *)
Verdict ==
  IF ~transfer.ok
  THEN Outcome(IF error # "NONE" THEN error ELSE "FAILED", Stage)
  ELSE IF transfer.httpError
  THEN Outcome("FAILED", "PROTOCOL")
  ELSE Outcome("NONE", "NONE")

Return ==
  /\ at = "verdict"
  /\ at' = "returned"
  /\ outcome' = Verdict
  /\ cause' = IF cause = "none" /\ transfer.httpError THEN "http" ELSE cause
  /\ UNCHANGED << wantAbort, done, errors, received, transfer, frames, calls >>

-----------------------------------------------------------------------------
Next ==
  \/ SetupFails
  \/ NoHandle
  \/ Perform
  \/ RequestAbort
  \/ ChunkArrives
  \/ ChunkEnds
  \/ FeedFails
  \/ FrameAborted
  \/ EmptyBody
  \/ TransferFails
  \/ TransferEnds
  \/ \E e \in Events : HandleEvent(e)
  \/ Return

Spec == Init /\ [][Next]_vars

-----------------------------------------------------------------------------
(* The flags of the call and of the transport have their types.            *)
TypeOK ==
  /\ at \in {"setup", "transfer", "feed", "verdict", "returned"}
  /\ error \in {"NONE", "FAILED", "CANCELLED"}
  /\ sseError \in {"OK", "ABORT", "OVERFLOW"}
  /\ wantAbort \in BOOLEAN
  /\ done \in BOOLEAN
  /\ received \in BOOLEAN
  /\ transfer \in [ok : BOOLEAN, tls : BOOLEAN, httpError : BOOLEAN]
  /\ frames \in 0 .. FrameBound

(* No callback follows [DONE], and the error and stage returned are those  *)
(* of what ended the call first (StreamCall).                              *)
Promise == INSTANCE StreamCall WITH sawDone <- done
KeepsPromise == Promise!Spec

(* llm_transport_contract.h:37, "Callback failure must be propagated as a  *)
(* false return": http_post_stream does not succeed once sse_stream_cb has *)
(* answered FALSE, which it does exactly when it has set cs->error.        *)
CallbackFailurePropagates == error # "NONE" => ~transfer.ok

=============================================================================
