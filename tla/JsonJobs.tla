------------------------------ MODULE JsonJobs ------------------------------
(***************************************************************************)
(* Who uses the tokenizer, and what for.  A caller of jstok.h feeds it a   *)
(* text in pieces; a reader of an answer counts the tokens, allocates      *)
(* them, gets them and reads (tokenize in src/protocol_*.c); the writer of *)
(* a chat request does the same to the content a message brings            *)
(* (validate_content_json_array), message by message, before it writes.    *)
(* One job from the initial state; what it comes to is in "result".        *)
(***************************************************************************)
EXTENDS JsonBuild, JsonReference

LOCAL INSTANCE SequencesExt

CONSTANTS
  Readings,     \* bound of the model: [reader, body, index], what is read
  ChatRequests, \* bounds of the model: what is written
  OtherWritings \* [writer, what, cap]

VARIABLES
  job,       \* [kind, of, next]: kind "none", "feed", "read", "write", "content"
             \* (of message next, being checked) or "done"
  result     \* {} before it is there, and {what the job came to}

jobVars == << job, result >>

Job(kind, of) == [kind |-> kind, of |-> of, next |-> 1]
Done(outcome) == /\ job' = [job EXCEPT !.kind = "done"]
                 /\ result' = {outcome}

JobsInit == Init /\ job = Job("none", "none") /\ result = {}

(* A caller of its own, who resumes what is incomplete.                    *)
Feed(t, n, max) ==
  /\ job' = Job("feed", "text")
  /\ Begin(t, n, max)
  /\ UNCHANGED result
FeedMore(n) ==
  /\ job.kind = "feed"
  /\ More(n)
  /\ UNCHANGED jobVars

Parse == jstok_parse /\ UNCHANGED jobVars

-----------------------------------------------------------------------------
(* tokenize: the tokens are counted, allocated and found.                  *)

Counted == job.kind \in {"read", "content"} /\ rc # Running /\ room = CountOnly
Tokenized == job.kind \in {"read", "content"} /\ rc # Running /\ room # CountOnly

ReadAnswer(r) ==
  /\ job' = Job("read", r)
  /\ Begin(r.body, Len(r.body), CountOnly)
  /\ UNCHANGED result

(* No content is no array, so nothing is allocated for it.                 *)
Allocate ==
  /\ Counted
  /\ rc >= IF job.kind = "content" THEN 1 ELSE 0
  /\ Begin(text, Len(text), rc)
  /\ UNCHANGED jobVars

(* No memory for the tokens, or for what is read from them.                *)
OutOfMemory ==
  /\ Counted \/ (Tokenized /\ job.kind = "read")
  /\ rc > 0
  /\ Done(IF job.kind = "read" THEN Wrong(NOMEM) ELSE Refused)
  /\ UNCHANGED vars

Read(r) ==
  CASE r.reader = "chat_chunk" -> parse_chat_chunk_choice(text, tokens, r.index)
    [] r.reader = "chat" -> parse_chat_response(text, tokens)
    [] r.reader = "completions_chunk" -> parse_completions_chunk_choice(text, tokens, r.index)
    [] r.reader = "completions" -> parse_completions_response(text, tokens)
    [] r.reader = "embeddings" -> parse_embeddings_response(text, tokens)

ReadTokens ==
  /\ Tokenized /\ job.kind = "read" /\ rc >= 0
  /\ Done(Read(job.of))
  /\ UNCHANGED vars

(* An error of the tokenizer, in either pass.                              *)
ReadFails ==
  /\ Counted \/ Tokenized
  /\ job.kind = "read" /\ rc < 0
  /\ Done(Wrong(rc))
  /\ UNCHANGED vars

-----------------------------------------------------------------------------
(* build_chat_request: one message after the other.                        *)

WriteChat(r) ==
  /\ job' = Job("write", r)
  /\ UNCHANGED << vars, result >>

Pending == job.kind = "write" /\ job.next <= Len(job.of.messages)
Current == job.of.messages[job.next]
NextMessage == job' = [job EXCEPT !.kind = "write", !.next = @ + 1]

AppendMessage ==
  /\ Pending
  /\ Current.content_json = {}
  /\ NextMessage
  /\ UNCHANGED << vars, result >>

RefuseMessage ==
  /\ Pending
  /\ MessageRefused(Current)
  /\ Done(Refused)
  /\ UNCHANGED vars

CheckContent ==
  /\ Pending
  /\ Current.content_json # {} /\ ~MessageRefused(Current)
  /\ job' = [job EXCEPT !.kind = "content"]
  /\ Begin(The(Current.content_json), Len(The(Current.content_json)), CountOnly)
  /\ UNCHANGED result

AcceptContent ==
  /\ Tokenized /\ job.kind = "content"
  /\ rc > 0 /\ IsContent(tokens)
  /\ NextMessage
  /\ UNCHANGED << vars, result >>

RefuseContent ==
  /\ job.kind = "content"
  /\ \/ Counted /\ rc < 1
     \/ Tokenized /\ ~(rc > 0 /\ IsContent(tokens))
  /\ Done(Refused)
  /\ UNCHANGED vars

FinishChat ==
  /\ job.kind = "write" /\ job.next > Len(job.of.messages)
  /\ Done(build_chat_request(job.of))
  /\ UNCHANGED vars

-----------------------------------------------------------------------------
(* What is written without the tokenizer, in one go.                       *)

Written(w) ==
  CASE w.writer = "completions" -> build_completions_request(w.what)
    [] w.writer = "embeddings" -> build_embeddings_request(w.what)
    [] w.writer = "tool_calls" -> llm_tool_calls_json_write(w.what, w.cap)
    [] w.writer = "options" -> llm_request_opts_json_write(w.what, w.cap)

Write(w) ==
  /\ job' = [Job("write", w) EXCEPT !.kind = "done"]
  /\ result' = {Written(w)}
  /\ UNCHANGED vars

Begins ==
  \/ \E t \in Texts : \E n \in 0..Len(t), max \in {CountOnly} \cup Rooms : Feed(t, n, max)
  \/ \E r \in Readings : ReadAnswer(r)
  \/ \E r \in ChatRequests : WriteChat(r)
  \/ \E w \in OtherWritings : Write(w)

JobsNext ==
  \/ job.kind = "none" /\ Begins
  \/ \E n \in 1..Len(text) : FeedMore(n)
  \/ Parse
  \/ Allocate \/ OutOfMemory \/ ReadTokens \/ ReadFails
  \/ AppendMessage \/ RefuseMessage \/ CheckContent \/ AcceptContent \/ RefuseContent
  \/ FinishChat

JobsSpec == JobsInit /\ [][JobsNext]_<< vars, jobVars >>

=============================================================================
