------------------------------- MODULE ToolLoop -------------------------------
(***************************************************************************)
(* One call of llm_tool_loop_run_with_headers_ex (src/src/llm.c): the      *)
(* conversation is sent to the model, the tool calls of the answer are     *)
(* dispatched one after the other, their results are appended, and so on   *)
(* until the model asks for no tool or something stops the loop.           *)
(*                                                                         *)
(* The model's answers, the tools and the caller's abort callback are the  *)
(* environment.  llm_chat_with_headers is here what the loop sees of it:   *)
(* it forgets the client's last error, and gives an answer or leaves a new *)
(* last error.  A tool may use the client too, and leave an error in it.   *)
(* The client is one with enable_last_error.                               *)
(***************************************************************************)
EXTENDS Integers, Sequences

CONSTANTS
  Answers,        \* the answers the model may give
  Hash(_),        \* tool_loop_hash_turn: what an answer says, to 64 bits
  Initial,        \* the conversation to start with
  Outputs,        \* the lengths of tool results
  ToolErrors,     \* errors a tool's own use of the client may leave in it
  TurnLimits,     \* the values of the parameter max_turns
  MaxArgsPerTurn, \* max_tool_args_bytes_per_turn, 0 is unlimited
  OutputLimits,   \* values of max_tool_output_bytes_total, 0 is unlimited
  Window,         \* TOOL_LOOP_HASH_WINDOW
  SizeMax         \* SIZE_MAX

NoId == "no id"
CallStages == {"TRANSPORT", "TLS", "PROTOCOL", "JSON"}
Errors == [code  : {"NONE", "CANCELLED", "FAILED"},
           stage : {"NONE"} \cup CallStages]
Error(code, stage) == [code |-> code, stage |-> stage]
NoError == Error("NONE", "NONE")

ASSUME LimitsAssumption ==
  /\ TurnLimits \subseteq Nat
  /\ MaxArgsPerTurn \in Nat
  /\ OutputLimits \subseteq Nat
  /\ Window \in Nat \ {0}
  /\ SizeMax \in Nat
ASSUME ToolsAssumption ==
  /\ \A a \in Answers :
       a.calls \in Seq([id : STRING, what : STRING, argsLen : 0 .. SizeMax])
  /\ Outputs \subseteq 0 .. SizeMax
  /\ \A e \in ToolErrors : e \in Errors /\ e # NoError
ASSUME InitialAssumption == Initial \in Seq({Initial[i] : i \in DOMAIN Initial})

VARIABLES
  at,           \* where the call is
  wantAbort,    \* what the abort callback answers
  maxTurns,     \* the parameter max_turns
  maxToolOutputTotal, \* client->limits.max_tool_output_bytes_total
  turn,
  history,      \* the messages of the conversation
  recentHashes, \* the ring of struct tool_loop_guard
  recentCount,
  recentPos,
  toolOutputTotal,
  result,       \* the answer whose calls are being dispatched
  next,         \* the call to dispatch
  lastError,    \* client->last_error
  err,          \* the value returned
  sent,         \* history: the conversation last sent to the model
  turns,        \* history: what the answers said that were taken up
  dispatched,   \* history: the results of tools that were accepted
  meddled,      \* history: a tool has left its own error since the last request
  cause         \* history: what ended the loop

guard  == << recentHashes, recentCount, recentPos >>
limits == << maxTurns, maxToolOutputTotal >>
record == << sent, turns, dispatched, meddled >>
vars == << at, wantAbort, limits, turn, history, guard, toolOutputTotal,
           result, next, lastError, err, record, cause >>

AssistantMessage(a) == [role |-> "assistant", calls |-> a.calls, text |-> a.text]
ToolMessage(id, len) == [role |-> "tool", id |-> id, len |-> len]

(* What the hash of a turn is made of: names, arguments and text, no ids.  *)
Said(a) == << [i \in DOMAIN a.calls |-> a.calls[i].what], a.text >>

Total(lengths) ==
  LET total[n \in 0 .. Len(lengths)] ==
        IF n = 0 THEN 0 ELSE total[n - 1] + lengths[n]
  IN  total[Len(lengths)]

ArgsBytes(a) == Total([i \in DOMAIN a.calls |-> a.calls[i].argsLen])

Exceeds(n, limit) == n > SizeMax \/ (limit > 0 /\ n > limit)

Init ==
  /\ at = "start"
  /\ wantAbort \in BOOLEAN
  /\ maxTurns \in TurnLimits
  /\ maxToolOutputTotal \in OutputLimits
  /\ turn = 0
  /\ history = << >>
  /\ recentHashes = [i \in 0 .. Window - 1 |-> 0]
  /\ recentCount = 0
  /\ recentPos = 0
  /\ toolOutputTotal = 0
  /\ result = << >>
  /\ next = 0
  /\ lastError \in ToolErrors \cup {NoError}
  /\ err = "pending"
  /\ sent = << >>
  /\ turns = << >>
  /\ dispatched = << >>
  /\ meddled = FALSE
  /\ cause = "none"

-----------------------------------------------------------------------------
(***************************************************************************)
(* The end of the call: the error is kept for llm_client_last_error unless *)
(* there is one already, and the history is freed.                         *)
(***************************************************************************)

SetIfEmpty(last, code) ==
  CASE last # NoError       -> last
    [] code = "NONE"        -> NoError
    [] code = "CANCELLED"   -> Error(code, "NONE")
    [] code = "FAILED"      -> Error(code, "PROTOCOL")

(* `last` is the client's last error before the call returns `code`.       *)
Return(code, why, last) ==
  /\ at' = "returned"
  /\ err' = code
  /\ cause' = why
  /\ lastError' = SetIfEmpty(last, code)
  /\ history' = << >>
  /\ result' = << >>
  /\ next' = 0

-----------------------------------------------------------------------------
(* last_error_reset at the start of the call.                              *)
Entered_KeepsTheError == lastError
Entered == NoError

(***************************************************************************)
(* Before the loop: the caller's messages are copied.  One that is no      *)
(* message, or memory running out, ends the call.                          *)
(***************************************************************************)

CopyFails ==
  /\ at = "start"
  /\ Return("FAILED", "copy", Entered)
  /\ UNCHANGED << wantAbort, limits, turn, guard, toolOutputTotal, record >>

NoTurns ==
  /\ at = "start"
  /\ maxTurns = 0
  /\ Return("FAILED", "turns", Entered)
  /\ UNCHANGED << wantAbort, limits, turn, guard, toolOutputTotal, record >>

Copied ==
  /\ at = "start"
  /\ maxTurns > 0
  /\ at' = "poll"
  /\ history' = Initial
  /\ lastError' = Entered
  /\ UNCHANGED << wantAbort, limits, turn, guard, toolOutputTotal, result, next,
                  err, record, cause >>

-----------------------------------------------------------------------------
(***************************************************************************)
(* A turn: ask whether to abort, send the conversation, look at the answer.*)
(***************************************************************************)

AbortSeen ==
  /\ at = "poll"
  /\ wantAbort
  /\ Return("CANCELLED", "abort", lastError)
  /\ UNCHANGED << wantAbort, limits, turn, guard, toolOutputTotal, record >>

Ask ==
  /\ at = "poll"
  /\ ~wantAbort
  /\ at' = "asked"
  /\ sent' = history
  /\ lastError' = NoError
  /\ meddled' = FALSE
  /\ UNCHANGED << wantAbort, limits, turn, history, guard, toolOutputTotal, result,
                  next, err, turns, dispatched, cause >>

ChatFails ==
  /\ at = "asked"
  /\ \E stage \in CallStages : Return("FAILED", "chat", Error("FAILED", stage))
  /\ UNCHANGED << wantAbort, limits, turn, guard, toolOutputTotal, record >>

AnswerFinal ==
  /\ at = "asked"
  /\ \E a \in Answers : a.finish # "tool_calls"
  /\ Return("NONE", "final", lastError)
  /\ UNCHANGED << wantAbort, limits, turn, guard, toolOutputTotal, record >>

(* tool_loop_guard_seen: is the hash in the ring?                          *)
Seen(h) == \E i \in 0 .. recentCount - 1 : recentHashes[i] = h

(* ... and if it is not, it replaces the oldest.                           *)
NextPos_Saturates(pos) == IF pos + 1 < Window THEN pos + 1 ELSE pos
NextPos(pos) == (pos + 1) % Window

Remember(h) ==
  /\ recentHashes' = [recentHashes EXCEPT ![recentPos] = h]
  /\ recentCount' = IF recentCount < Window THEN recentCount + 1 ELSE recentCount
  /\ recentPos' = NextPos(recentPos)

IsLastTurn_TooLate == turn >= maxTurns
IsLastTurn == turn + 1 >= maxTurns

(* The turn's calls are not run: there are none, no turn is left to send   *)
(* their results in, their arguments are too long, or the model repeats    *)
(* itself.                                                                 *)
Refusal(a) ==
  IF a.calls = << >>                              THEN "no calls"
  ELSE IF IsLastTurn                              THEN "turns"
  ELSE IF Exceeds(ArgsBytes(a), MaxArgsPerTurn)   THEN "arguments"
  ELSE IF Seen(Hash(Said(a)))                     THEN "repeat"
  ELSE "none"

AnswerRefused ==
  /\ at = "asked"
  /\ \E a \in Answers :
       /\ a.finish = "tool_calls"
       /\ Refusal(a) # "none"
       /\ Return("FAILED", Refusal(a), lastError)
  /\ UNCHANGED << wantAbort, limits, turn, guard, toolOutputTotal, record >>

(* No memory for the new messages.                                         *)
HistoryFails ==
  /\ at = "asked"
  /\ \E a \in Answers :
       /\ a.finish = "tool_calls"
       /\ Refusal(a) = "none"
       /\ Remember(Hash(Said(a)))
  /\ Return("FAILED", "memory", lastError)
  /\ UNCHANGED << wantAbort, limits, turn, toolOutputTotal, record >>

TurnTaken ==
  /\ at = "asked"
  /\ \E a \in Answers :
       /\ a.finish = "tool_calls"
       /\ Refusal(a) = "none"
       /\ Remember(Hash(Said(a)))
       /\ history' = Append(history, AssistantMessage(a))
       /\ result' = a.calls
       /\ turns' = Append(turns, Said(a))
  /\ at' = "dispatch"
  /\ next' = 1
  /\ UNCHANGED << wantAbort, limits, turn, toolOutputTotal, lastError, err, sent,
                  dispatched, meddled, cause >>

-----------------------------------------------------------------------------
(***************************************************************************)
(* The turn's calls are dispatched in order.                               *)
(***************************************************************************)

Dispatching == at = "dispatch" /\ next <= Len(result)

(* What the client's last error is after the tool has run.                 *)
AfterTool == {lastError} \cup ToolErrors
Meddles(last) == meddled' = (meddled \/ last \in ToolErrors)

(* The dispatcher says no, or says yes without a result.                   *)
DispatchFails ==
  /\ Dispatching
  /\ \E last \in AfterTool :
       /\ Meddles(last)
       /\ Return("FAILED", "dispatch", last)
  /\ UNCHANGED << wantAbort, limits, turn, guard, toolOutputTotal, sent, turns,
                  dispatched >>

Counted_Wraps(len) == (toolOutputTotal + len) % (SizeMax + 1)
Counted(len) == toolOutputTotal + len

OutputRefused ==
  /\ Dispatching
  /\ \E len \in Outputs : Exceeds(Counted(len), maxToolOutputTotal)
  /\ \E last \in AfterTool :
       /\ Meddles(last)
       /\ Return("FAILED", "output", last)
  /\ UNCHANGED << wantAbort, limits, turn, guard, toolOutputTotal, sent, turns,
                  dispatched >>

(* No memory for the copy of the call's id.                                *)
OutputLost ==
  /\ Dispatching
  /\ result[next].id # NoId
  /\ \E len \in Outputs :
       /\ ~Exceeds(Counted(len), maxToolOutputTotal)
       /\ toolOutputTotal' = Counted(len)
  /\ \E last \in AfterTool :
       /\ Meddles(last)
       /\ Return("FAILED", "memory", last)
  /\ UNCHANGED << wantAbort, limits, turn, guard, sent, turns, dispatched >>

IdOfCall_First(n) == result[1].id
IdOfCall(n) == result[n].id

OutputTaken ==
  /\ Dispatching
  /\ \E len \in Outputs :
       /\ ~Exceeds(Counted(len), maxToolOutputTotal)
       /\ toolOutputTotal' = Counted(len)
       /\ history' = Append(history, ToolMessage(IdOfCall(next), len))
       /\ dispatched' = Append(dispatched, ToolMessage(IdOfCall(next), len))
  /\ \E last \in AfterTool :
       /\ Meddles(last)
       /\ lastError' = last
  /\ next' = next + 1
  /\ UNCHANGED << at, wantAbort, limits, turn, guard, result, err, sent, turns, cause >>

(* The loop's test follows.                                                *)
TurnDone ==
  /\ at = "dispatch"
  /\ next > Len(result)
  /\ turn' = turn + 1
  /\ IF turn' < maxTurns
       THEN /\ at' = "poll"
            /\ result' = << >>
            /\ next' = 0
            /\ UNCHANGED << history, lastError, err, cause >>
       ELSE Return("NONE", "turns", lastError)
  /\ UNCHANGED << wantAbort, limits, guard, toolOutputTotal, record >>

-----------------------------------------------------------------------------

RequestAbort ==
  /\ at # "returned"
  /\ ~wantAbort
  /\ wantAbort' = TRUE
  /\ UNCHANGED << at, limits, turn, history, guard, toolOutputTotal, result, next,
                  lastError, err, record, cause >>

Step ==
  \/ CopyFails \/ NoTurns \/ Copied
  \/ AbortSeen \/ Ask
  \/ ChatFails \/ AnswerFinal \/ AnswerRefused \/ HistoryFails \/ TurnTaken
  \/ DispatchFails \/ OutputRefused \/ OutputLost \/ OutputTaken \/ TurnDone

Next == Step \/ RequestAbort

Spec == Init /\ [][Next]_vars

-----------------------------------------------------------------------------
(***************************************************************************)
(* Properties.                                                             *)
(***************************************************************************)

TypeOK ==
  /\ at \in {"start", "poll", "asked", "dispatch", "returned"}
  /\ wantAbort \in BOOLEAN
  /\ maxTurns \in TurnLimits
  /\ maxToolOutputTotal \in OutputLimits
  /\ turn \in 0 .. maxTurns
  /\ DOMAIN recentHashes = 0 .. Window - 1
  /\ recentCount \in 0 .. Window
  /\ recentPos \in 0 .. Window - 1
  /\ toolOutputTotal \in 0 .. SizeMax
  /\ next \in 0 .. Len(result) + 1
  /\ lastError \in Errors
  /\ err \in {"pending", "NONE", "CANCELLED", "FAILED"}
  /\ meddled \in BOOLEAN

(* Whatever the model answers and whichever tool call fails, a request     *)
(* that leaves the loop is one a server accepts: it starts with the        *)
(* caller's conversation, after every assistant message come the results   *)
(* of its calls, all of them, in order and under their ids, and there are  *)
(* no other results.                                                       *)
AnswersTo(m, i) == {i + k : k \in DOMAIN m[i].calls}
RequestsAreWellFormed ==
  sent # << >> =>
    LET old == 1 .. Len(Initial)
        asking == {i \in DOMAIN sent \ old : sent[i].role = "assistant"}
        answering == {i \in DOMAIN sent \ old : sent[i].role = "tool"}
    IN  /\ SubSeq(sent, 1, Len(Initial)) = Initial
        /\ answering = UNION {AnswersTo(sent, i) : i \in asking}
        /\ \A i \in asking : \A k \in DOMAIN sent[i].calls :
             sent[i + k].id = sent[i].calls[k].id

(* The results of all turns together stay within                           *)
(* max_tool_output_bytes_total, and their count within a size_t.           *)
OutputBounded ==
  ~Exceeds(Total([i \in DOMAIN dispatched |-> dispatched[i].len]), maxToolOutputTotal)

(* Loop detection: no two turns within TOOL_LOOP_HASH_WINDOW of each other *)
(* are taken up when they have the same hash, and the loop gives up for a  *)
(* repetition only if one of the last turns had that hash.                 *)
Latest == {i \in DOMAIN turns : Len(turns) - i < Window}
RepeatsAreCaught ==
  /\ \A i, j \in DOMAIN turns :
       i < j /\ j - i <= Window => Hash(turns[i]) # Hash(turns[j])
  /\ cause = "repeat" =>
       \E a \in Answers, i \in Latest : Hash(Said(a)) = Hash(turns[i])

(* Tools are not run in vain: unless something fails on the way or the     *)
(* caller aborts, every result a tool gave has been sent to the model when *)
(* the loop ends, and it returns no error only after the model's last word.*)
(* (ToolMessages is SelectSeq, of which the provers know no definition.)   *)
ToolMessages(m) ==
  LET selected[n \in 0 .. Len(m)] ==
        IF n = 0 THEN << >>
        ELSE IF m[n].role = "tool" THEN Append(selected[n - 1], m[n])
        ELSE selected[n - 1]
  IN  selected[Len(m)]
ResultsReachTheModel ==
  /\ cause \in {"final", "no calls", "turns", "arguments", "repeat"} /\ maxTurns > 0 =>
       ToolMessages(SubSeq(sent, Len(Initial) + 1, Len(sent))) = dispatched
  /\ err = "NONE" => cause = "final"

(* What llm_client_last_error tells after the call: nothing if it returned *)
(* LLM_ERR_NONE, something if not, and, unless a tool has left an error of *)
(* its own in the client since the last request, this call's error, even   *)
(* if there was one of an earlier call.                                    *)
LastErrorIsThisCalls ==
  at = "returned" =>
    /\ lastError = NoError <=> err = "NONE"
    /\ ~meddled => lastError.code = err
    /\ ~meddled /\ cause # "chat" => lastError.stage \in {"NONE", "PROTOCOL"}
=============================================================================
