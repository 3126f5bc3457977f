------------------------------ MODULE MCToolLoop ------------------------------
(***************************************************************************)
(* Two messages to start with, the first with a tool result of an earlier  *)
(* conversation.  Two answers ask for different things and have one hash.  *)
(***************************************************************************)
EXTENDS ToolLoop

MCInitial == << [role |-> "user"], [role |-> "tool", id |-> "old", len |-> 1] >>

AToolCall(id, what, argsLen) == [id |-> id, what |-> what, argsLen |-> argsLen]
Asking(calls, text) == [finish |-> "tool_calls", calls |-> calls, text |-> text]

MCAnswers ==
  { Asking(<< AToolCall("id1", "add", 1) >>, "think"),
    Asking(<< AToolCall("id2", "add", 1), AToolCall("id3", "sub", 2) >>, "none"),
    Asking(<< AToolCall(NoId, "mul", 2) >>, "none"),
    Asking(<< AToolCall("id4", "div", 2) >>, "none"),
    Asking(<< AToolCall("id5", "sub", 2), AToolCall("id6", "sub", 2) >>, "none"),
    Asking(<< >>, "think"),
    [finish |-> "other", calls |-> << >>, text |-> "done"] }

MCHash(said) ==
  CASE said[1] = << "add" >>        -> 0
    [] said[1] = << "add", "sub" >> -> 1
    [] said[1] = << "mul" >>        -> 2
    [] said[1] = << "div" >>        -> 2
    [] OTHER                        -> 3

MCToolErrors == {Error("FAILED", "TRANSPORT")}
=============================================================================
