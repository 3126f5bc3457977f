# Verification of desi, a C library for LLM gateways

TLA+ modules that model the library's core logic, TLC configurations that check
them on small instances, and TLAPS proofs of what matters most for every value
of the parameters. Every definition is translated from the C source;
`PROJECT.json` maps each one to the lines it stands for.

    tlc -config SseCuts.cfg MCSseCuts     # a run: module and cfg are listed below
    tlapm SseParserProofs.tla             # a module of proofs

## 1. The system

desi is a synchronous, single-threaded library: a caller makes a call, libcurl
runs it to its end on the caller's thread, and everything that happens in
between happens in callbacks within callbacks. The daemons run one thread each,
which serves one connection after the other. Nothing is persisted. What is
concurrent is the server, which cuts its answer into chunks as it likes, and
whatever the caller's abort callback looks at, which may change at any time.

| Component (source) | State | Operations | Interacts with |
|---|---|---|---|
| Event stream parser and writer (`src/sse.c`) | four growable buffers and their account, byte order mark and CR pending, unfinished UTF-8, id, retry, last error | `sse_feed`, `sse_write_event`, `sse_write_keepalive` | called per chunk by the streams; calls `on_frame` (abort) and `on_event` |
| Chat stream (`llm.c`, `tools_accum.c`) | accumulators per tool call, `saw_done`, `tool_calls_finalized`, `protocol_error`, `error`, `sse_error` | `llm_chat_stream_with_headers_choice_ex`, its callbacks | parser below it, the caller's callbacks above, transport around |
| Completions stream (`llm.c`) | `done`, `error`, `sse_error` | `llm_completions_stream_with_headers_choice_ex` | the same |
| Tool loop (`llm.c`) | history of messages, ring of hashes, counts of turns and bytes | `llm_tool_loop_run_with_headers_ex` | `llm_chat_with_headers`, the caller's dispatcher, which may use the client too |
| Requests without streaming (`llm.c`) | the body in transit, status | health, models, props, completions, embeddings, chat | transport, parsers, error detail |
| Error detail and last error (`llm.c`, `llm.h`) | the caller's `llm_error_detail_t`, `client->last_error`, `stream_capture_ctx` | fill, capture, reset, free | every call writes them |
| Transport (`transport_curl.c`) | a growing body, `llm_transport_status_t` | `http_get`, `http_post`, `http_post_stream` | libcurl below, callbacks above |
| Client configuration (`llm.c`) | headers with the authorization slot, TLS, proxy, model | setters, header sets of a request | every call reads it |
| HTTP server (`internal/http1_server.c`) | one connection: its buffer, what is left to send | listen, accept, read, answer, send, close | peers and kernel's queue outside, a request handler inside |
| Daemons (`daemons/`) | none | the handlers of `desid`, `agentd`, `mcpd` | the HTTP server |
| JSON tokenizer (`jstok.h`) | position, stack of open containers, token array | `jstok_parse`, in one go or resumed | every reader, and the writer of chat requests |
| JSON readers (`jstok.h`, `json_core.c`, `protocol_*.c`) | none | look-ups by key and place, numbers, escapes; five answers | streams, requests, tool loop |
| JSON writers (`json_build.c`) | a growing buffer, or the caller's | three requests, options, tool calls | requests, tool loop, the caller |

What is hard in it, and so what the properties are about:

- **Cuts.** A stream may be cut anywhere: inside CR LF, a UTF-8 sequence, the
  byte order mark, a tool call's arguments. The result must not depend on it.
- **Order of endings.** An abort, a limit, an invalid tool call, an HTTP error
  and a broken connection may coincide; six variables record what went wrong
  and the order in which they are tested decides what the caller is told.
- **Late pieces.** Tool call arguments that arrive after the caller was told
  that they are complete.
- **Half of several.** One of several tool calls, tools, allocations or copies
  fails after others have succeeded.
- **Ownership.** One response body may become the result, the caller's error
  detail, the client's last error or nobody's.
- **Texts that resemble each other.** Members found by counting tokens, among
  others that nest or have the same name; JSON of the caller put into JSON of
  the library.
- **One at a time.** A peer of the HTTP server that stops in the middle of its
  header keeps all others waiting.
- **Accounts and limits.** Unsigned subtractions, limits at exactly the limit,
  a ring at its end, sums near `SIZE_MAX`.

`PROJECT.json` lists the hazards line by line, each with the properties that
would catch it going wrong, or with the reason why none does.

## 2. The modules

| Module | What it models |
|---|---|
| `SseParser` | the parser of `src/sse.c`, one byte per step |
| `SseReference` | what a whole event stream means, defined without the parser |
| `SseWriter`, `SseRoundTrip` | the writer; writer, wire and parser composed |
| `StreamCall` | abstract: what a streaming call promises its caller |
| `ChatStream`, `CompletionsStream` | the two streaming calls; both implement `StreamCall` |
| `ToolLoop` | the tool loop |
| `Requests` | the calls of one client in a row: bodies, error details, memory |
| `ClientConfig` | what a client is configured with, and what a request makes of it |
| `Daemons`, `Http1Server` | the daemons' handlers; the server with peers and kernel around it |
| `Jstok` | the tokenizer, one turn of its loop per step |
| `JsonGrammar` | what a JSON text is, by recursive descent over its grammar: no stack, no room, no interruptions |
| `JsonReference` | the trees of a JSON text, found by trying every division of it |
| `JsonReaders`, `JsonBuild` | the readers and the writers, operators of tokens and of texts |
| `JsonJobs` | who uses the tokenizer and what for: feeding, reading an answer, writing a request |
| `JsonMembers` | what the helpers that count tokens promise, said of the stretches of the text |
| `JsonPromises` | what readers and writers promise, said of the reference's trees |
| `MC...` | small alphabets and event sets for TLC |
| `...Proofs` | the theorems about the module they extend |

`Http1Server` is composed of the server, the peers and a daemon's handler;
`JsonJobs` of tokenizer, readers and writers; `SseRoundTrip` of writer and parser.

An operator named `X_Something` that stands before `X` (for example
`Over_OffByOne` before `Over`) is a plausible bug in the code that `X` stands
for. Nothing in the specifications uses it: substituting it for `X` must break
the property that `PROJECT.json` pairs it with, which shows that the property
can see such a bug.

### SseParser

`Feed(chunk)` is the entry of `sse_feed` (refused after an error, refused over
the total limit, or accepted); every `Process` step is one round of its byte
loop on the head of `input`, and the call has returned when `input` is empty.
Bytes put back (the first bytes of a byte order mark that was none, the byte that
breaks off a UTF-8 sequence) go back in front of `input`. The buffers `line`,
`data`, `eventType` and `lastId` hold bytes, `cap` and `memUsed` are
`sse_buf_reserve`'s account. Each `realloc` may fail and each callback may
answer either way. `FirstCap` and `SizeMax` are 64 and `SIZE_MAX` in the source.
`fed` and `events` are history.

`SseReference` decodes all the bytes, splits the text into lines, the lines
into blocks and reads an event off each block, in recursive functions and with the
whole stream in view. It follows the UTF-8 table of the Unicode standard and has nothing of the
parser's state machine. `EventsAreTheStreams` and `KeepsTheRest` say that the
parser has, at every return of `sse_feed`, computed exactly that.

`SseWriter` is the writer as functions of an event: `DataLines` cuts the data
at its LFs, `WriteError` makes the checks in the order of `sse_write_event`, `Output`
is what goes out. `SseRoundTrip` extends both ends and puts the `wire` between
them: `Write` and `Keepalive` append to it, `Receive` feeds a piece of any length,
`Parse` is the parser's step. What the client should see of a text is the text
as it reads with a line end behind it (`Closed`): a UTF-8 sequence the data leaves
unfinished is one U+FFFD.

### StreamCall, ChatStream, CompletionsStream

`at` says how deep in the callbacks the thread is: `setup`, `transfer` (in
libcurl), `feed` (in a chunk), `deltas` (in `on_sse_event`), `finalize` (in
`finalize_tool_calls`), `verdict` (after the transfer), `returned`. `RequestAbort`
may happen at each of them. The framing is abstracted to a number of frames per
chunk, since `SseParser` has it in full; an event is what `on_sse_event` tells
apart: done, empty, unparsable, or parts of text, tool deltas in order and a
finish reason. Arguments are sequences of three characters, one of them
streamed escaped, and `ValidJson` says which sequences `jstok` accepts.

The server names the index of a tool call and the array of accumulators grows
to it (`Grown`). A `size_t` is a number up to `SizeMax`: `index + 1` and that
many entries of `AccumSize` bytes wrap as in the code (`NewCount`, `Asked`).
Where the array that is asked for does not cover the entry written next
(`Covers`), the behaviour of the program is undefined: `GrowOverruns` takes the
call to `undefined`, where the model ends, unless `realloc` failed first
(`GrowFails`). Every entry, those of a gap too, begins with 1 KiB for
arguments. So `max_tool_args_bytes_per_call` bounds each entry
(`AccumulatorsBounded`), but nothing bounds their number, although
`README.md:79-80` of the repository speaks of hard limits for tool argument
assembly.

External to the source, and modelled from how it is used: libcurl hands an
empty body over as one empty chunk (what the callback then does is `EmptyBody`), ends a transfer in every way, and stops
when a callback does not return the number of bytes it was given. A
`http_post_stream` that gets no curl handle leaves the status unwritten: the
stage reported is then a nondeterministic choice.

`StreamCall` has four variables: the callbacks made, whether the server has
said `[DONE]`, what ended the call first, and the value returned. It allows
callbacks until something ends the call, then nothing but the return of what
ended it. `KeepsPromise` is that the detailed streams implement it:
`ChatStream` under the identity on the history variables `calls`, `sawDone`,
`cause` and on `outcome`, `CompletionsStream` with `sawDone <- done`. `cause` is written
by the action that models the event that ended the call, `outcome` by
`Return` from the flags of the C code alone; that the two agree is the point.

### ToolLoop

Steps are the stretches of the loop between two things it does not control: the
abort callback, the request, each tool. `Refusal` is the sequence of tests on an answer, in
the code's order; `recentHashes`, `recentCount`, `recentPos` are `struct
tool_loop_guard`; `history` is the conversation. A tool may use the client and
leave an error in it (`ToolErrors`); the history variable `meddled` tells when
one has since the last request, because the code then reports the tool's error
as its own.

### Requests

One action per step that the calls share (`Begin`, `SetupFails`, `NoHandle`,
`Perform`, `Receive`, `TransferFails`, `TransferEnds`, `HttpError`,
`ParseFails`), those only streams have (`CaptureLost`, `StreamStops`,
`ChatStreamFails`, `StreamEnds`), the ends of the others (`HealthEnds`,
`PropsEnd`, `ParsedEnds`, `ModelsEnd`) and what the caller does between two calls (`FreeDetail`,
`FreeResult`, `Destroy`). `heap` is the set of blocks in use and `badFree`
remembers a block freed twice. `Limit` is the limit of the call's body:
`max_response_bytes`, but for `llm_health` 1024 bytes of its own (`HealthLimit`),
whatever the client's limits are. `Capture` is `error_detail_capture`, with its
copy for the client's last error, which may fail. Every way a stream can stop
is one disjunct: when it does is the subject of `ChatStream`. A chat stream
also fails when its tool calls are not complete at its end (`toolCallsFail`);
the code then reports a protocol error without looking at the status, and the
body of an HTTP error is lost (`llm.c:1860-1875`), which `ErrorBodyIsKept`
excepts. The HTTP status
of a stream without a curl handle may be garbage, since nothing has written it.

### ClientConfig

`headers`, `headersCount`, `customHeadersCount` and `authHeader` are the fields
of `struct llm_client`; a place of the array is what it points to. Creation and
`llm_client_set_tls_config` make several copies and are one step per copy
(`CopyHeader`, `CopyPath`), each of which may fail; the other setters are one
action, and `Refuses` is their failure. `allocated` counts what was allocated and not freed.
`Request` puts on the wire (`sent`) what `llm_header_set_init`,
`append_headers`, `apply_tls_config` and `apply_proxy_config` make of client
and request; `lost` headers at the front are gone when `curl_slist_append` found no memory.
A header is a name, its spelling and a value: names that differ in case are one name.
`wanted` is history: what the calls that succeeded asked for. The copies of URL
and model's name at creation are not checked by the code, and so may be missing in both.

### Http1Server, Daemons

`server` is where `desi_server_run` is: `starting`, `accepting`, `reading`
(`desi_read_request`), `header` and `body` (the two calls of `desi_write_all`),
`closing`, `stopped`. `Recv`, `SendHeader`, `SendBody`, `Accept`, `Close` are the system calls,
each of which may deliver or take less than it is offered, or fail. The kernel
keeps a `backlog`; a `close` with bytes unread resets the connection and may
take back what the peer has not yet read. What is sent is not spelt: a header
is one item with status, type and length, and one for its end. The bytes of a
request are, since its line ends are the subject. `HandlerNames` adds to the three daemons
handlers that refuse, leave the response empty, announce a body they do not
have or set a content type that does not fit 512 bytes: the server provides for
each. `Due` says what must be answered from the bytes sent alone, without lines,
buffers or cuts; `Decision` is what the code decides from what it has read.

### Jstok, JsonGrammar, JsonReference, JsonReaders, JsonMembers, JsonBuild, JsonJobs

A turn of `jstok_parse`'s loop is an action (`SkipSpace`, `Separator`,
`StartContainer`, `EndContainer`, `ParseKey`, `ParseString`, `ParsePrimitive`,
`EndOfInput`); `Begin` is a call with `jstok_init`, `More` one that shows more of the
same buffer to a parser that answered `PART`. A character is a value of its own,
and a word of letters that no rule looks into is one character. `JsonGrammar` says what a text is:
`ReadingOf` descends into it and gives its tokens and how deep it nests, a
string being what its grammar says and a number the stretch the grammar of
numbers divides. `TokensAreTheTexts` compares what a call returned with it; what is
read is never nested deeper than the stack.
`JsonReference` reads a text into trees by trying every place where it could be
divided; TLC evaluates its assumption `DescentFindsTheTrees`, that both find the same
tokens and depth in every part of every text of the model.

`JsonReaders` follows the token arithmetic of `jstok_skip`,
`jstok_object_get` and `jstok_array_at` and the five readers built on it; a
`size_t` has `SizeBits` bits. Their loops are recursive functions. The helpers
follow the sizes of the tokens; `ReadersFindTheMembers` (`JsonMembers`) says the
same of their spans: what is in a container begins before it ends, and the next
value is the first that begins behind this one (`Beyond`). The five readers are
compared with the trees (`AnswersAreRead`). `JsonBuild` has the writers. `JsonJobs` is the
interleaving of the two passes of `tokenize`, its allocation and what follows, and, for a
chat request, of one such pair for each message with content in JSON.

`ChatRequestsReadBack` and `OthersReadBack` read what was written with the
reference's trees: every argument is there, `stream` and `include_usage` are as
given, and each member of `params_json` and of the tools' JSON is there as a whole with
its value, unless a member before it has the name. `OthersReadBack` judges
refusals too: what is refused cannot be written (`Forbidden`) or does not fit
(`Fitting`, the length written with ample room), and nothing else is. In
`ChatStream` and `CompletionsStream` the verdict of a reader is an event's kind.

## 3. The runs

| Run | Module, cfg | Checks | Distinct states |
|---|---|---|---|
| `sse_cuts` | `MCSseCuts`, `SseCuts.cfg` | `EventsAreTheStreams`, `KeepsTheRest` | 1,021,356 |
| `sse_limits` | `MCSseParser`, `SseLimits.cfg` | `TypeOK`, `MemoryAccounted`, `WithinLimits`, `LimitsAreExact`, `ErrorIsFinal`, `FeedReturns` | 150,316 |
| `sse_round_trip` | `MCSseRoundTrip`, `SseRoundTrip.cfg` | `RoundTrip`, `SameLimitsAgree` | 67,490 |
| `chat` | `MCChatStream`, `ChatStream.cfg` | `AccumulatorsBounded`, `CompletedArgsAreWhole`, `ReportedCallsAreCompleted`, `LateDeltasFail`, `KeepsPromise`, `CallReturns` | 539,462 |
| `chat_parse_error` | `MCChatStream`, `ChatParseError.cfg` | `ParseErrorsAreReported` is **violated** | |
| `completions` | `MCCompletionsStream`, `Completions.cfg` | `TypeOK`, `KeepsPromise` | 6,348 |
| `completions_empty_body` | `MCCompletionsStream`, `CompletionsEmptyBody.cfg` | `CallbackFailurePropagates` is **violated** | |
| `tool_loop` | `MCToolLoop`, `ToolLoop.cfg` | `RequestsAreWellFormed`, `OutputBounded`, `RepeatsAreCaught`, `ResultsReachTheModel`, `LastErrorIsThisCalls` | 40,254 |
| `requests` | `Requests`, `Requests.cfg` | `BlocksHaveOneOwner`, `SpansPointHome`, `ErrorsAreThisCalls`, `ErrorBodyIsKept` | 179,546 |
| `client_config` | `MCClientConfig`, `ClientConfig.cfg` | `HeadersAreLive`, `AllocationsAreOwned`, `RequestsAreAsConfigured`, `TrustIsAsConfigured` | 276,661 |
| `http_server` | `MCHttp1Server`, `HttpServer.cfg` | `AnswersAreTheRequests`, `AnswersArriveWhole`, `OnlyAStalledPeerHoldsOthers` | 355,874 |
| `json` | `MCJson`, `Json.cfg` | `SpansAreInside`, `TokensAreTheTexts`, `ReadersFindTheMembers`, `AnswersAreRead`, `ChatRequestsReadBack`, `OthersReadBack` | 261,725 |

`TypeOK` is listed where a mutant of the code can break it. Other modules
have a `TypeOK` too, which is proved (section 4) for every value of the constants.

### Bounds, and why they are enough

- `SseCuts`: one of three alphabets in each behaviour. Six chunks out of the
  pieces of lines (LF, CR, colon, space, a letter, two field names) make a field, its line
  end in any form and the blank line that dispatches it, or two short frames.
  Five whole lines make two events with a line of id, type or retry before,
  between and after; `SizeMax` is 99, so that a retry of three digits overflows.
  Four single bytes around every boundary of the UTF-8 table are a longest
  sequence, or a byte order mark with a byte behind it. No limits there: they are the next run's.
- `SseLimits`: limits of a few bytes (line 9, frame 6, buffers 24, total 30,
  first capacity 4), so that each is met exactly and exceeded by one, by a byte
  that grows to a replacement of three and by a doubling cut back to what is left.
- `SseRoundTrip`: two events written and cut into pieces of 6 or 40 bytes, with data that begins with a
  space, contains or ends with LF or CR, is empty, not ASCII or not UTF-8, also
  with an unfinished sequence at its end; with
  limits that both ends apply and that some of the data exceeds.
- `ChatStream`: one set of events in each behaviour, over five frames. Two tool
  calls whose pieces interleave (two indices make order between calls matter;
  five frames hold pieces of both, a finish reason and a late piece), or text, usage,
  events that are empty or cannot be parsed and an index that leaves a gap, or
  indices whose array wraps: `SizeMax` is 7 and an entry two bytes, so that four entries
  are the first that wrap, to nothing, five wrap to less than asked for, and the
  number of entries wraps behind index 7. An accumulator holds three characters at most.
- `ToolLoop`: turn limits 0, 1, 2 and 6 with a ring of 2, so that the ring
  wraps twice; two answers that say different things have one hash; SIZE_MAX is
  7 and the output limit 6 or none, so that sums reach both.
- `Requests`: three calls, so that what one call leaves meets a later call with
  and without a detail of its own; bodies of up to three bytes against a limit
  of one byte or none, and the two bytes of a health check, which are thus both more than
  the client's limit and less than a body.
- `ClientConfig`: no bound but the values. Up to two headers of the client and
  of a request, with names in two spellings, one called like the authorization header, one
  without a name, one malformed; two keys; four TLS configurations in which
  every mode and every path occurs, an empty one too.

- `HttpServer`: a buffer of 6 bytes and 7 that a peer may send, so that a header
  ends before, at and behind the end of the buffer; a word is one byte. `mcpd` is
  sent any mixture of words, CR and LF, in pieces of one or four bytes; the
  other handlers whole lines; `desid` has two peers, so that one waits while the
  other is served, stalls or goes away.
- `Json`: eight texts (nesting of eight against a depth of 7, strings with
  escapes and braces, numbers in every form), each also with a character left out
  or replaced, and every text of two characters or less; each is cut at any places and
  given room for 0, 1, 2 or 9 tokens or only counted. Answers have up to two
  choices with the index right, missing, wrong or no number, members before
  them that hide others of the name, and tool calls; `size_t` has 5 bits, so
  that 1000 does not fit. Requests have up to two messages
  and every form of the caller's JSON: whole, empty, cut off, with something behind it;
  for every text written, buffers of exactly its length, one less and one more,
  of none and of plenty.

The bounds are constants of the modules (`FeedBound`, `LinesFeedBound`, `Utf8FeedBound`, `FrameBound`,
`WriteBound`, `CallBound`, `ReceiveBound`, `SizeMax`, `HealthLimit`, `Pieces`, `SendBound`, `Texts`,
`Rooms`, `Keys`, `Readings`, `ChatRequests`, `OtherWritings`); the turns of the loop
are bounded by the code.

Configurations with `CHECK_DEADLOCK FALSE` are those in which the system ends:
a stream or a loop returns, a client is destroyed, a job is done, the server
stops after an error or waits for peers that are all gone.

### Fairness

Three properties are liveness.

- `FeedReturns` (`FairSpec`: weak fairness of `Process`): `sse_feed` is a loop
  on one thread that nothing suspends. It shows that replaying bytes comes to an end.
- `CallReturns` (`LiveSpec`): weak fairness of the code between two callbacks
  of libcurl, which runs to its end; strong fairness of a chunk's end, since a
  chunk is finite, and of the transfer's end, because `overall_timeout_ms`
  (60 s by default) does not let chunks come for ever. With no timeout configured the
  property does not hold: a silent server keeps the call. A call that reaches
  `undefined` counts as ended, since C says no more about it.
- `OnlyAStalledPeerHoldsOthers` (`FairSpec`): weak fairness of the server's
  thread, which runs whenever a call it makes can return; the peers owe
  nothing. A connection in the queue is served or refused in the end unless
  the peer being served stalls for ever, which the code allows: `idle_timeout_ms` is
  read by nobody.

### What the violated properties show

Each states what a document of the repository says and TLC gives the behaviour
in which the code does otherwise.

- `ParseErrorsAreReported`: `HACKING.md:165` says "Never swallow errors from:" and
  lists JSON parsing (line 169); `on_sse_event` passes an unparsable event over, and the call may
  return `LLM_ERR_NONE` with a part of the answer missing.
- `CallbackFailurePropagates`: `llm_transport_contract.h:37` says that a callback's
  failure is propagated; for an empty body, 0 is both the callback's refusal
  and the number of bytes expected, and a cancelled completions stream returns
  `LLM_ERR_NONE`.

A third disagreement is not kept as a run, since the documents disagree among
themselves: `DESIGN.md:459` says that an event with empty data is not
dispatched, `sse-spec.md:112` and `sse_process_line` dispatch every block that has a data field.

## 4. The proofs

All are checked by TLAPS for every value of the constants that satisfies the
named `ASSUME`s: types and ranges of limits, alphabets and sets of events, and that a
ring has at least one place (`TOOL_LOOP_HASH_WINDOW` is 8). The bounds of the
model stay parameters.

| Module | Theorems | Argument |
|---|---|---|
| `SseParserProofs` | `TypeCorrect`, `MemoryAlwaysAccounted`, `LimitsHold`, `ErrorsAreFinal`, `EventsAreRight`, `RestIsKept`, `LimitsBite`, `WhatIsWrittenIsRead`, `WriterKeepsTheLimits` | `Inv`: the account balances, lengths are within capacities and limits, and a parser in error has dropped its chunk. The three parts need each other: the subtraction in `sse_buf_reserve` is safe only because the account balances, and the balance after a growth needs that the subtraction was. One lemma per part of a step, `ReserveBalances` below them all. `EventsAreRight`, `RestIsKept` and `LimitsBite` say that the parser computes what `SseReference` defines, and rest on `StreamInv`: there is a text `d` that has been read off the bytes before `input`, `L` are its ended lines and `line` is the one begun, and frame, last id, retry value and events are what `L` means (`Standing`); and whatever may still be fed, the text of the whole stream is `d` and then the text of `utf8`, `input` and that (`Ahead`). One lemma per kind of step: a byte of a line (`AppendStream`), a sequence left unfinished (`SequenceStream`), the end of a line (`DoneStream`, `LineFailsStream`). Below them are the equations of the reference's recursive functions (`Recursion`: a function defined from its values for shorter sequences exists), what a byte makes of a text (`NextByte` to `Continued`; `ValidIsWellFormed`: the arithmetic of `utf8_sequence_valid` is the standard's table), what a byte makes of the lines and a line of the events (`LinesOfByte`, `EventsOfMore`), and that what a text has shown stays, whatever follows (`ShownStays`), which is what a failed parser needs. The last two theorems are about both ends, `WireSpec`, and rest on `OnWire`: all that was sent is whole lines (`Sent`), whose events are those of the accepted writes with no block begun (`Quiet`), and what the parser was fed is a first part of it. A text and the LF behind it read as the text decoded and an LF, whatever the text ends with (`LineCloses`); so a field the writer makes reads as that field (`FieldSent`), the data fields of an event read as its data (`DataSent`, by induction over the bytes of the data, whose lines `DataLines` cuts), and an accepted event as that event (`EventSent`). `WriterKeepsTheLimits` assumes `LimitsFit`: the parser has no limit, or the writer has one no larger; a line of well-formed text is then as long when decoded as it was counted by the writer, prefix included, and the frame is the data and one LF (`Accepted`, `LineFits`). |
| `ChatStreamProofs` | `TypeCorrect`, `ArgumentsBounded`, `PromiseKept`, `LateDeltasFailTheCall`, `ReportsWait`, `ArgumentsAreWhole` | `Streamed`: accumulators hold streamed characters until frozen, and are frozen only below the cursor of `finalize_tool_calls`, so that nothing is unescaped twice. `NothingOver` carries the limit through every append. An array that grows grows by what its new last index asks for, since a size that wraps leads to `undefined` (`Covers`). `ChatStream` implements `StreamCall`: every step maps to a step or a stutter. `Located` says what may have happened at each place of the code, `Accounted` reads `cause` off the six flags, `CompletedBelow` says that completed calls lie below the cursor. The order of tests in the verdict is right because these hold. `CalledStep` says which action adds which callback, always behind those made; with it `LateInv` (what was completed is frozen) and `ReportInv` follow: below the cursor of `finalize_tool_calls` all that was heard of is completed, above the number of accumulators nothing was, and once finalized the finish reason has been reported or the call fails. `ArgumentsAreWhole` adds `HeardSoFar`: until it is frozen an accumulator holds the characters the user has heard of its call, in their order, unless the call is failing; what is completed is then the whole of them, unescaped. |
| `CompletionsStreamProofs` | `TypeCorrect`, `PromiseKept` | `CompletionsStream` implements `StreamCall` in the same way: `Located`, and `Accounted` reads `cause` off the flags. An abort that only an empty body has met ends nothing, though it is left in `error`. |
| `ToolLoopProofs` | `TypeCorrect`, `LastErrorKept`, `RepeatsCaught`, `RequestsWellFormed`, `OutputWithinLimit`, `ResultsReach` | `LastErrorInv`: from a request on the last error is empty unless a tool has left one. `RingInv`: counted back from `recentPos` the ring holds the hashes of the last turns, latest first (`Slot`); so a hash is found exactly if one of them had it. `ConversationInv`: between turns the history is well formed, and inside a turn it is that of the turn's start, the assistant message and the results of the calls before `next` (`InTurn`). `OutputInv`: `toolOutputTotal` is the sum of the lengths dispatched, so that the test against overflow never lets the sum wrap. `ReachInv`: the tool messages of the history (`ToolMessages`, a recursive function) are what was dispatched; only `InitialAssumption` is needed of the caller's messages, that they are a sequence. |
| `RequestsProofs` | `TypeCorrect`, `OwnersKept`, `ErrorsAreOfTheCall`, `BodiesKept`, `SpansStayHome` | `OwnInv`: while a call runs, the heap holds the arriving body and what an earlier detail still has, and blocks are as old as their call, so that new ones are new; `FailsOwners` goes through the four combinations of detail and last error. `ErrorsInv`: until a call ends, the detail passed and the last error are empty. `BodyInv`: until a transfer ends there is no status, and from its beginning a buffer, unless memory was short or nobody wants a stream's body; no body is longer than `Limit`, which is the health check's own for `llm_health`. `SpansStayHome` is a part of `ErrorsInv`. |
| `ClientConfigProofs` | `TypeCorrect`, `HeadersStayAlive`, `NothingLeaks`, `TrustIsKept`, `RequestsAreAsSet` | `HeadersInv`: the array is NULL or has a place behind the custom headers, and `authHeader` is that of the last key. `Balance`: what is allocated is what the client points to plus the copies of a `set_tls_config` under way. `TlsInv`: the settings are those last asked for, and the copies made are a beginning of those asked for now; a request is never left over when the client changes. `RequestsAreAsSet`: the merge of headers is a selection (`Selected`, a recursive function), and an induction over the length of what is selected from shows that it keeps exactly the client's headers whose names the request does not set, in their order, before those of the request (`HeadersAreAsked`); `TextsInv` says that the texts in the client are those last set. |
| `Http1ServerProofs` | `TypeCorrect`, `WholeAnswersArrive`, `AnswersAreDue` | `Progress`: while a peer is served and has not gone, what has reached it and what is left to send make up the answer to what was read of it (`Decision`), and when the server closes, the answer is whole or there was none to give. It needs that what was read of a peer does not change while it goes on sending (`Prefix`), that parts of a send put together are the whole (`Split`), and that no connection waits twice. `AnswersAreDue`: `Begun` says that whatever has reached a peer, also one that is gone by now, is the beginning of what was decided; and the decision is the one due for all the peer has sent (`DecisionIsDue`), because the first empty line found from line to line is the first there is, wherever the reads were cut. |
| `JstokProofs` | `TypeCorrect`, `SpansStayInside`, `TokensAreRight`, `MembersAreFound` | `Inv`: the spans are inside what was shown, every open container but one without a frame has its own frame and every frame its own token, in the same order, and no token starts behind the position (`StartsAreBehind`: so a token that is closed ends after it began, and the next one begins no earlier: `StartsAscend`). The scanners are proved to end inside the text; that a CHOOSE of a least position has one comes from well-founded induction (`LeastOf`). `TokensAreRight` says that the tokenizer finds what `ReadingOf` reads, and rests on `Knows`: what it has come to tells what it will have read. Its frames, with the text itself around them, are each a place of the descent whose container is still open (`Mirrors`), and finishing them one after the other (`Finish`: what the descent reads from that place on goes into the tokens, and the container's token gets its end and its size) makes the reading of the whole text (`Completes`), however much of the text will be shown (`Covered`). It needs the equation of the descent (`RestEquation`: a function defined from its values further right in the text exists), and that the scanners find what the grammar says: the end of a string, found by backslashes that come in pairs, is where reading its characters one by one ends (`StringsAgree`), the end of a number is the only place that divides it so (`NumbersAgree`), and both stay what they are when more is shown, unless the answer is `PART`. One lemma per turn of the loop shows that finishing the frames gives the same after it (`Moved`, `Took`, `Entered`, `Close`); a text that is refused has a place from which nothing can be read (`Refused`), and one too large or too deep has a reading with more tokens or containers than those counted so far (`TooLarge`). `MembersAreFound` is about what recursive descent reads, which `TokensAreRight` says the caller got: by induction from the right end of the text, the tokens of what is left of a container are a row of as many parts as are counted, one behind the other, each skipped from its first token to the one behind its last, names before values in an object (`AllLaid`). The loops of the helpers end, so that their functions have their equations (`TailRecursion`), and `jstok_skip` is followed through a part by how many children each open container still has (`SkipsOn`, `ReadsOn`); it never runs out of its own stack because what was read is no deeper than the tokenizer's (`ContainerReads`). Then the part found by counting is the part that begins where the spans say (`PartsOn`), the number of parts is the size (`PartsInside`), and the first member of a name is the least number of one (`MembersFound`). |

### Only model-checked

- Liveness (`FeedReturns`, `CallReturns`, `OnlyAStalledPeerHoldsOthers`): beyond the prover, as is `ENABLED`.
- `AnswersAreRead`, `ChatRequestsReadBack` and `OthersReadBack`: they speak of
  the trees of `JsonReference` and the texts of `JsonBuild`, which are written
  with `RECURSIVE` operators, and no theorem reaches them.
- That the trees of `JsonReference` have the tokens that `JsonGrammar` reads
  (`DescentFindsTheTrees`): evaluated by TLC for every part of the model's texts.

The theorems of the library on induction take an operator as a parameter, which
the provers cannot instantiate. Where a proof needs induction over a length or a
position, it takes the least counterexample (`WFMin`, by the well-founded order
of the natural numbers) and refutes it; and what is recursive in a module with
theorems is a recursive function, whose equation is proved first.

## 5. Not modelled

- libcurl: external; what it does with the options of `ClientConfig` is not modelled.
- Of `jstok.h`: the strict build, `jstok_atob`, `jstok_path` and
  `jstok_sse_next`, none of which the library uses.
- Of the writers: what of an options text that is refused is already in the
  caller's buffer (nothing says that it is meaningful), the digits `snprintf`
  makes of a number, and the buffer's doubling.
- Of the server: reason phrases, and the daemons' command lines. What
  `DESIGN.md` plans for the daemons is not written.
- Capacities of accumulators and bodies (doubling), copies of a tool call's id
  and name that nothing reads.
- `tools_loop.c` has no code; `accum_freeze` is called by tests only.
- Tests, fuzzers, examples and build files: read for what they state.

Weaknesses seen that no property covers, because no document promises otherwise:
a new tool call after the first finish reason is never completed and the stream
still succeeds; a stream without `[DONE]` and without a finish reason succeeds
with incomplete calls; a stream keeps the body of an HTTP error only for a
caller that passes a detail, and a chat stream whose tool calls are not complete
at its end for nobody; the index of a tool call is not limited, and memory for
every smaller one is allocated; an index near `SIZE_MAX` makes the size of the array wrap;
a choice index beyond a `size_t` wraps in `parse_choice_index`; headers lost for want of memory (`lost`) are not
reported; an HTTP error whose body breaks a limit of the
event stream parser is reported as an SSE error without status and body; the
text of an answer goes into the next request of the tool loop with its escapes
escaped once more; content that is several JSON values one after the other passes
for an array, empty parameter braces leave a comma, and parameters with space
around their braces are not taken for an object (`ChatRequestsReadBack`
says that what is then written is no JSON).

## 6. Plan

Done, in this order: A `SseParser`, `SseReference` and their proofs; B `SseWriter`,
`SseRoundTrip`; C `StreamCall`, `ChatStream`, `CompletionsStream`, the proofs of
both refinements; D `ToolLoop` and its proofs; E `Requests` and its proofs; F
`ClientConfig` and its proofs; G `Daemons`, `Http1Server` and its proofs; H
`Jstok`, `JsonGrammar`, `JsonReaders`, `JsonMembers` and their proofs, `JsonReference`, `JsonBuild`, `JsonJobs`.

Next:

1. `Jstok` under `ChatStream`, in place of the constant `ValidJson`, and under
   `Requests` for what `error_detail_parse_openai` finds.
2. The tool loop's texts through reader and writer, if a document comes to say
   how they should come back.
