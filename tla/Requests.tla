------------------------------- MODULE Requests -------------------------------
(***************************************************************************)
(* The calls of one client, one after the other: health, models, props,    *)
(* completions, embeddings, chat and the two streams (src/src/llm.c) over  *)
(* http_get, http_post and http_post_stream (src/src/transport_curl.c).    *)
(* The subject is who owns the body of a response: the transport while it  *)
(* grows, then the caller's result, the caller's error detail or the       *)
(* client's last error, with a copy where two of them want it; and what    *)
(* the caller finds there after a call.                                    *)
(*                                                                         *)
(* Memory is a set of blocks in use.  What a stream does between its       *)
(* chunks is the subject of ChatStream and CompletionsStream: here it may  *)
(* fail at any time in any of their ways.                                  *)
(***************************************************************************)
EXTENDS Integers, FiniteSets

CONSTANTS
  ChunkLengths,   \* lengths of the pieces in which a body arrives
  ResponseLimits, \* values of max_response_bytes, 0 is unlimited
  HealthLimit,    \* the 1024 bytes that llm_health asks http_get for
  ReceiveBound,   \* bound of the model: the longest body
  CallBound       \* bound of the model: the number of calls

ASSUME BoundsAssumption ==
  /\ ChunkLengths \subseteq Nat \ {0}
  /\ ResponseLimits \subseteq Nat
  /\ HealthLimit \in Nat \ {0}
  /\ ReceiveBound \in Nat
  /\ CallBound \in Nat

Streams == {"chat_stream", "completions_stream"}
Parsed  == {"completions", "embeddings", "chat"}
Ops     == Streams \cup Parsed \cup {"health", "models", "props"}

VARIABLES
  at,           \* where the client is: idle between two calls
  op,           \* the call
  hasDetail,    \* the caller has passed an error detail
  lastErrorEnabled, \* enable_last_error, chosen when the client was created
  maxResponse,  \* client->limits.max_response_bytes
  buffer,       \* the block that holds the body while it arrives
  received,     \* bytes of the body so far
  status,       \* status.http_status: none yet, below 400, 400 or above
  describesItself, \* the body is a JSON object with an "error" in it
  toolCallsFail, \* the tool calls of a chat stream are not complete at its end
  detail,       \* the caller's error detail
  lastError,    \* client->last_error
  result,       \* the block the caller's result refers to
  err,          \* the value returned
  heap,         \* the blocks in use
  call,         \* history: the number of the call
  badFree,      \* history: a block was freed that was not in use
  outOfMemory   \* history: an allocation of this call has failed

arguments == << op, hasDetail, lastErrorEnabled, maxResponse >>
response  == << buffer, received, status, describesItself, toolCallsFail >>
owners    == << detail, lastError, result >>
vars == << at, arguments, response, owners, err, heap, call, badFree, outOfMemory >>

(* Blocks: the body as it came, a copy of it, an array of model names.     *)
Block == [call : 1 .. CallBound, holds : {"body", "copy", "models"}]
NoBlock == [call |-> 0, holds |-> "nothing"]
New(holds) == [call |-> call, holds |-> holds]

Statuses == {"none", "ok", "error", "garbage"}
Codes    == {"NONE", "CANCELLED", "FAILED"}
Stages   == {"NONE", "TRANSPORT", "TLS", "SSE", "JSON", "PROTOCOL"}

(* llm_error_detail_t: `spans` is the block message, type and error_code   *)
(* point into.                                                             *)
Empty == [code |-> "NONE", stage |-> "NONE", http |-> "none",
          body |-> NoBlock, len |-> 0, spans |-> NoBlock]

Init ==
  /\ at = "idle"
  /\ op = "health"
  /\ hasDetail = FALSE
  /\ lastErrorEnabled \in BOOLEAN
  /\ maxResponse \in ResponseLimits
  /\ buffer = NoBlock
  /\ received = 0
  /\ status = "none"
  /\ describesItself = FALSE
  /\ toolCallsFail = FALSE
  /\ detail = Empty
  /\ lastError = Empty
  /\ result = NoBlock
  /\ err = "NONE"
  /\ heap = {}
  /\ call = 0
  /\ badFree = FALSE
  /\ outOfMemory = FALSE

(* free and malloc: NULL may be freed, and other blocks once.              *)
Memory(freed, allocated) ==
  /\ heap' = (heap \cup allocated) \ freed
  /\ badFree' = (badFree \/ ~(freed \subseteq heap \cup {NoBlock}))

Unchanged(freed) == Memory(freed, {})

-----------------------------------------------------------------------------
(***************************************************************************)
(* error_detail_fill and error_detail_capture.                             *)
(***************************************************************************)

Filled_SpansInTheBuffer(code, stage, http, body) ==
  [code |-> code, stage |-> stage, http |-> http, body |-> body,
   len |-> IF body = NoBlock THEN 0 ELSE received,
   spans |-> IF body # NoBlock /\ describesItself THEN buffer ELSE NoBlock]

Filled(code, stage, http, body) ==
  [code |-> code, stage |-> stage, http |-> http, body |-> body,
   len |-> IF body = NoBlock THEN 0 ELSE received,
   spans |-> IF body # NoBlock /\ describesItself THEN body ELSE NoBlock]

(* The copy of the detail's body for the client's last error: none of an   *)
(* empty body, and none when there is no memory for it.                    *)
Copies(body) ==
  IF body = NoBlock \/ received = 0 THEN {NoBlock} ELSE {New("copy"), NoBlock}

(* Both details have been freed when the call began, and free(NULL) is     *)
(* nothing.  `extra` is what else the caller of this function frees.       *)
Capture(code, stage, http, body, extra) ==
  \/ /\ hasDetail
     /\ lastErrorEnabled
     /\ \E copy \in Copies(body) :
          /\ lastError' = Filled(code, stage, http, copy)
          /\ outOfMemory' = (outOfMemory \/ (copy = NoBlock /\ body # NoBlock /\ received > 0))
          /\ Memory({detail.body, lastError.body} \cup extra, {copy} \ {NoBlock})
     /\ detail' = Filled(code, stage, http, body)
  \/ /\ hasDetail
     /\ ~lastErrorEnabled
     /\ detail' = Filled(code, stage, http, body)
     /\ Unchanged({detail.body} \cup extra)
     /\ UNCHANGED << lastError, outOfMemory >>
  \/ /\ ~hasDetail
     /\ lastErrorEnabled
     /\ lastError' = Filled(code, stage, http, body)
     /\ Unchanged({lastError.body} \cup extra)
     /\ UNCHANGED << detail, outOfMemory >>
  \/ /\ ~hasDetail
     /\ ~lastErrorEnabled
     /\ Unchanged({body} \cup extra)
     /\ UNCHANGED << detail, lastError, outOfMemory >>

Returns(code) ==
  /\ at' = "idle"
  /\ err' = code
  /\ buffer' = NoBlock
  /\ UNCHANGED << arguments, received, status, describesItself, toolCallsFail, call >>

(* The call fails; body goes to whoever wants it.                          *)
Fails(code, stage, http, body, extra) ==
  /\ Capture(code, stage, http, body, extra)
  /\ Returns(code)
  /\ UNCHANGED result

-----------------------------------------------------------------------------
(***************************************************************************)
(* A call begins: what is left of earlier errors is given up.  The caller  *)
(* has freed the result of the call before.                                *)
(***************************************************************************)

Reset_OnlyTheDetail == FALSE
Reset == lastErrorEnabled

Begin(o, withDetail) ==
  /\ at = "idle"
  /\ call < CallBound
  /\ result = NoBlock
  /\ at' = "begun"
  /\ op' = o
  /\ hasDetail' = withDetail
  /\ call' = call + 1
  /\ detail' = IF withDetail THEN Empty ELSE detail
  /\ lastError' = IF Reset THEN Empty ELSE lastError
  /\ Unchanged((IF withDetail THEN {detail.body} ELSE {})
                 \cup (IF Reset THEN {lastError.body} ELSE {}))
  /\ received' = 0
  /\ status' = "none"
  /\ describesItself' = FALSE
  /\ toolCallsFail' = FALSE
  /\ err' = "NONE"
  /\ outOfMemory' = FALSE
  /\ UNCHANGED << lastErrorEnabled, maxResponse, buffer, result >>

(* Arguments that are missing, a request that cannot be built, headers     *)
(* that are none.                                                          *)
SetupFails ==
  /\ at = "begun"
  /\ Fails("FAILED", "PROTOCOL", "none", NoBlock, {})

Stage(tls) == IF tls THEN "TLS" ELSE "TRANSPORT"

(* curl_easy_init fails before *status is written: a stream tells of a     *)
(* status that is whatever was on the stack.                               *)
NoHandle ==
  /\ at = "begun"
  /\ \E tls \in BOOLEAN, http \in {"none", "garbage"} :
       /\ http = "garbage" => op \in Streams
       /\ Fails("FAILED", Stage(tls), http, NoBlock, {})

(* growbuf_init, which a stream does only for a caller with a detail.      *)
Perform ==
  /\ at = "begun"
  /\ at' = "transfer"
  /\ \/ /\ op \in Streams => hasDetail
        /\ buffer' = New("body")
        /\ Memory({}, {New("body")})
        /\ UNCHANGED outOfMemory
     \/ /\ op \in Streams => hasDetail
        /\ outOfMemory' = TRUE
        /\ UNCHANGED << buffer, heap, badFree >>
     \/ /\ op \in Streams /\ ~hasDetail
        /\ UNCHANGED << buffer, heap, badFree, outOfMemory >>
  /\ UNCHANGED << arguments, received, status, describesItself, toolCallsFail, owners, err,
                  call >>

-----------------------------------------------------------------------------
(***************************************************************************)
(* The body arrives: write_cb or stream_capture_cb.                        *)
(***************************************************************************)

Limit == IF op = "health" THEN HealthLimit ELSE maxResponse

TooLong(n) == Limit > 0 /\ received + n > Limit

Receive(n) ==
  /\ at = "transfer"
  /\ received + n <= ReceiveBound
  /\ ~TooLong(n)
  /\ op \notin Streams => buffer # NoBlock
  /\ received' = received + n
  /\ UNCHANGED << at, arguments, buffer, status, describesItself, toolCallsFail, owners,
                  err, heap, call, badFree, outOfMemory >>

(* A stream goes on without the capture when there is no memory for it.    *)
CaptureLost(n) ==
  /\ at = "transfer"
  /\ received + n <= ReceiveBound
  /\ op \in Streams
  /\ buffer # NoBlock
  /\ ~TooLong(n)
  /\ received' = received + n
  /\ buffer' = NoBlock
  /\ Unchanged({buffer})
  /\ outOfMemory' = TRUE
  /\ UNCHANGED << at, arguments, status, describesItself, toolCallsFail, owners, err, call >>

(* The connection breaks, TLS or its configuration fails, a timeout fires, *)
(* or the body does not fit.                                               *)
TransferFails ==
  /\ at = "transfer"
  /\ op \notin Streams
  /\ \E tls \in BOOLEAN : Fails("FAILED", Stage(tls), "none", NoBlock, {buffer})

(* Or a stream's callback has stopped the transfer: it was aborted, met a  *)
(* limit of the event stream parser (of the length of the body, too), or a *)
(* tool call that is none.                                                 *)
StreamStops ==
  /\ at = "transfer"
  /\ op \in Streams
  /\ \/ Fails("CANCELLED", "NONE", "none", NoBlock, {buffer})
     \/ \E stage \in {"TRANSPORT", "TLS", "SSE"} :
          Fails("FAILED", stage, "none", NoBlock, {buffer})
     \/ op = "chat_stream" /\ Fails("FAILED", "PROTOCOL", "none", NoBlock, {buffer})

TransferEnds ==
  /\ at = "transfer"
  /\ at' = "answered"
  /\ status' \in {"ok", "error"}
  /\ describesItself' \in {FALSE, received > 0}
  /\ toolCallsFail' \in {FALSE, op = "chat_stream" /\ received > 0}
  /\ UNCHANGED << arguments, buffer, received, owners, err, heap, call, badFree,
                  outOfMemory >>

-----------------------------------------------------------------------------
(***************************************************************************)
(* The call looks at what has come.                                        *)
(***************************************************************************)

(* A chat stream whose tool calls are not complete at the end, or that was *)
(* aborted and had no body to stop: before the status is looked at, so     *)
(* that the body is not kept, be it one of an HTTP error.                  *)
ChatStreamFails ==
  /\ at = "answered"
  /\ op = "chat_stream"
  /\ \/ toolCallsFail /\ Fails("FAILED", "PROTOCOL", status, NoBlock, {buffer})
     \/ received = 0 /\ Fails("CANCELLED", "NONE", status, NoBlock, {buffer})

(* What stream_capture_release leaves for growbuf_free; http_get and       *)
(* http_post have handed over all of theirs.                               *)
Released_ButKept == {buffer}
Released == {}

HttpError_LosesBody ==
  /\ at = "answered"
  /\ ~toolCallsFail
  /\ status = "error"
  /\ Fails("FAILED", "PROTOCOL", status, NoBlock, {buffer})

HttpError ==
  /\ at = "answered"
  /\ ~toolCallsFail
  /\ status = "error"
  /\ Fails("FAILED", "PROTOCOL", status, buffer, Released)

(* A response that is no JSON, or not the JSON it should be.               *)
ParseFails ==
  /\ at = "answered"
  /\ status = "ok"
  /\ op \in Parsed \cup {"models"}
  /\ \E stage \in {"JSON", "PROTOCOL"} : Fails("FAILED", stage, status, buffer, {})

(* The body becomes the caller's.                                          *)
Keeps ==
  /\ result' = buffer
  /\ Unchanged({})

Drops ==
  /\ Unchanged({buffer})
  /\ UNCHANGED result

Succeeds(what) ==
  /\ at = "answered"
  /\ status = "ok"
  /\ op \in what
  /\ Returns("NONE")
  /\ UNCHANGED << detail, lastError, outOfMemory >>

HealthEnds == Succeeds({"health"}) /\ Drops
StreamEnds == ~toolCallsFail /\ Succeeds(Streams) /\ Drops
PropsEnd   == Succeeds({"props"}) /\ Keeps
ParsedEnds == received > 0 /\ Succeeds(Parsed) /\ Keeps

(* The names of the models are copied from the body, if there are any.     *)
ModelsEnd ==
  /\ received > 0
  /\ Succeeds({"models"})
  /\ \/ Drops
     \/ /\ result' = New("models")
        /\ Memory({buffer}, {New("models")})

-----------------------------------------------------------------------------
(***************************************************************************)
(* Between two calls the caller frees what it owns, the result before it   *)
(* makes another call.                                                     *)
(***************************************************************************)

FreeDetail ==
  /\ at = "idle"
  /\ detail # Empty
  /\ detail' = Empty
  /\ hasDetail' = FALSE
  /\ Unchanged({detail.body})
  /\ UNCHANGED << at, op, lastErrorEnabled, maxResponse, response, lastError, result,
                  err, call, outOfMemory >>

FreeResult ==
  /\ at = "idle"
  /\ result # NoBlock
  /\ result' = NoBlock
  /\ Unchanged({result})
  /\ UNCHANGED << at, arguments, response, detail, lastError, err, call, outOfMemory >>

(* llm_client_destroy.  The detail and the result are not the client's.    *)
Destroy ==
  /\ at = "idle"
  /\ at' = "destroyed"
  /\ lastError' = Empty
  /\ Unchanged({lastError.body})
  /\ UNCHANGED << arguments, response, detail, result, err, call, outOfMemory >>

Next ==
  \/ \E o \in Ops, withDetail \in BOOLEAN : Begin(o, withDetail)
  \/ SetupFails \/ NoHandle \/ Perform
  \/ \E n \in ChunkLengths : Receive(n) \/ CaptureLost(n)
  \/ TransferFails \/ StreamStops \/ TransferEnds
  \/ ChatStreamFails \/ HttpError \/ ParseFails
  \/ HealthEnds \/ StreamEnds \/ PropsEnd \/ ParsedEnds \/ ModelsEnd
  \/ FreeDetail \/ FreeResult \/ Destroy

Spec == Init /\ [][Next]_vars

-----------------------------------------------------------------------------
(***************************************************************************)
(* Properties.                                                             *)
(***************************************************************************)

DetailType == [code : Codes, stage : Stages, http : Statuses,
               body : Block \cup {NoBlock}, len : 0 .. ReceiveBound,
               spans : Block \cup {NoBlock}]

(* The types of the state.                                                 *)
TypeOK ==
  /\ at \in {"idle", "begun", "transfer", "answered", "destroyed"}
  /\ op \in Ops
  /\ hasDetail \in BOOLEAN
  /\ lastErrorEnabled \in BOOLEAN
  /\ maxResponse \in ResponseLimits
  /\ buffer \in Block \cup {NoBlock}
  /\ received \in 0 .. ReceiveBound
  /\ status \in Statuses \ {"garbage"}
  /\ describesItself \in BOOLEAN
  /\ toolCallsFail \in BOOLEAN
  /\ detail \in DetailType
  /\ lastError \in DetailType
  /\ result \in Block \cup {NoBlock}
  /\ err \in Codes
  /\ heap \subseteq Block
  /\ call \in 0 .. CallBound
  /\ badFree \in BOOLEAN
  /\ outOfMemory \in BOOLEAN

(* Whichever way calls end and in whatever order the caller frees what is  *)
(* its own, every block in use has exactly one owner, so that none leaks,  *)
(* and none is freed twice.                                                *)
Owned == << detail.body, lastError.body, result, buffer >>
BlocksHaveOneOwner ==
  /\ ~badFree
  /\ heap = {Owned[i] : i \in DOMAIN Owned} \ {NoBlock}
  /\ \A i, j \in DOMAIN Owned : Owned[i] = Owned[j] => i = j \/ Owned[i] = NoBlock

(* message, type and error_code point into the body of the same struct, so *)
(* that freeing the caller's detail leaves those of the last error valid,  *)
(* and the other way round.                                                *)
SpansPointHome ==
  \A d \in {detail, lastError} : d.spans \in {NoBlock, d.body}

(* After a call its error is in the detail passed and in the last error:   *)
(* the two say the same, of this call and not of an earlier one, and a     *)
(* body they hold is all of the response and within the limit of the call, *)
(* which is max_response_bytes except for llm_health's own.                *)
Tells(d) ==
  /\ d.code = err
  /\ d.code = "NONE" <=> d = Empty
  /\ d.body # NoBlock => d.body.call = call /\ d.len = received
  /\ Limit > 0 => d.len <= Limit
ErrorsAreThisCalls ==
  at = "idle" /\ call > 0 =>
    /\ hasDetail => Tells(detail)
    /\ lastErrorEnabled => Tells(lastError)
    /\ hasDetail /\ lastErrorEnabled =>
         /\ detail.stage = lastError.stage
         /\ detail.http = lastError.http

(* The body of a response that arrived whole and made a call fail is not   *)
(* lost: the detail has it, and the last error, unless there was no memory *)
(* for it.  A stream keeps it only for a caller with a detail; and a chat  *)
(* stream whose tool calls are not complete at its end loses it, even the  *)
(* body of an HTTP error (src/llm.c:1860-1875).                            *)
ErrorBodyIsKept ==
  at = "idle" /\ status # "none" /\ err = "FAILED" /\ received > 0 /\ ~outOfMemory
    /\ ~toolCallsFail =>
      /\ hasDetail => detail.body # NoBlock
      /\ lastErrorEnabled /\ (op \in Streams => hasDetail) => lastError.body # NoBlock
=============================================================================
