------------------------------ MODULE StreamCall ------------------------------
(***************************************************************************)
(* What a streaming call promises its caller, whatever the C code keeps in *)
(* its flags: callbacks are reported one batch after the other until       *)
(* something ends the call, the arguments of a tool call are completed at  *)
(* most once, and the value returned names what ended the call FIRST.      *)
(*                                                                         *)
(* ChatStream and CompletionsStream implement it.                          *)
(***************************************************************************)
EXTENDS Naturals, Sequences

VARIABLES
  calls,    \* the callbacks made so far
  sawDone,  \* the server has said [DONE]
  cause,    \* what ended the call first, "none" while nothing has
  outcome   \* the error and stage returned, Pending before

vars == << calls, sawDone, cause, outcome >>

Outcome(error, stage) == [error |-> error, stage |-> stage]
Pending == Outcome("pending", "pending")

Failures == {"abort", "protocol", "sse", "transport", "tls", "init", "http", "setup"}

(* A failure to set curl up leaves the transport's status unwritten, so    *)
(* either of two stages may be named.                                      *)
Outcomes(c) ==
  CASE c = "none"      -> {Outcome("NONE", "NONE")}
    [] c = "abort"     -> {Outcome("CANCELLED", "NONE")}
    [] c = "sse"       -> {Outcome("FAILED", "SSE")}
    [] c = "transport" -> {Outcome("FAILED", "TRANSPORT")}
    [] c = "tls"       -> {Outcome("FAILED", "TLS")}
    [] c = "init"      -> {Outcome("FAILED", "TRANSPORT"), Outcome("FAILED", "TLS")}
    [] OTHER           -> {Outcome("FAILED", "PROTOCOL")}

IsComplete(call) == call.call = "args_complete"

(* The calls the step adds: everything before them stays, [DONE] is        *)
(* followed by completed arguments only, and those are completed once.     *)
AddsCalls ==
  /\ \A p \in 1 .. Len(calls) : p <= Len(calls') /\ calls'[p] = calls[p]
  /\ \A p \in Len(calls) + 1 .. Len(calls') :
       /\ sawDone => IsComplete(calls'[p])
       /\ IsComplete(calls'[p]) =>
            \A q \in 1 .. p - 1 :
              IsComplete(calls'[q]) => calls'[q].index # calls'[p].index

-----------------------------------------------------------------------------
Init ==
  /\ calls = << >>
  /\ sawDone = FALSE
  /\ cause = "none"
  /\ outcome = Pending

(* Some callbacks, the last of which may be about a piece that makes the   *)
(* call fail.                                                              *)
Report ==
  /\ outcome = Pending
  /\ cause = "none"
  /\ AddsCalls
  /\ cause' \in {"none", "protocol"}
  /\ UNCHANGED << sawDone, outcome >>

Done ==
  /\ outcome = Pending
  /\ cause = "none"
  /\ sawDone' = TRUE
  /\ UNCHANGED << calls, cause, outcome >>

Fail ==
  /\ outcome = Pending
  /\ cause = "none"
  /\ cause' \in Failures
  /\ UNCHANGED << calls, sawDone, outcome >>

(* Only a call that nothing else has ended looks at the HTTP status.       *)
Return ==
  /\ outcome = Pending
  /\ cause' \in IF cause = "none" THEN {"none", "http", "setup"} ELSE {cause}
  /\ outcome' \in Outcomes(cause')
  /\ UNCHANGED << calls, sawDone >>

Next == Report \/ Done \/ Fail \/ Return

Spec == Init /\ [][Next]_vars

=============================================================================
