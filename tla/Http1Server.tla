---------------------------- MODULE Http1Server -----------------------------
(***************************************************************************)
(* The HTTP server of the daemons (src/internal/http1_server.c): one       *)
(* thread that accepts a connection, reads until an empty line ends the    *)
(* header, calls the handler, sends what it answered and closes.  Around   *)
(* it its peers and the kernel: peers send bytes in pieces, stop sending   *)
(* or go away at any time, wait in the listening socket's queue, and may   *)
(* lose an answer when the server closes with bytes of theirs unread.      *)
(***************************************************************************)
EXTENDS Daemons, FiniteSets

CONSTANTS
  Peers,         \* the connections made to the server
  Pieces,        \* bound of the model: Pieces[h][p] is what peer p may send
                 \* at a time to a server with handler h, {} if p is not there
  Cap,           \* DESI_HTTP_MAX_HEADER_BYTES
  SendBound      \* bound of the model: the bytes a peer sends

LF == 10
CR == 13
SP == 32

ASSUME CapAssumption == Cap \in Nat \ {0} /\ SendBound \in Nat
ASSUME PiecesAssumption == Pieces \in [HandlerNames -> [Peers -> SUBSET Seq(Nat)]]
ASSUME WordsAssumption == Get \in Seq(Nat) /\ Health \in Seq(Nat)

VARIABLES
  server,    \* what desi_server_run does: "starting", "accepting", "reading",
             \* "header" and "body" (sending them), "closing", "stopped"
  handler,   \* the handler it was given
  serving,   \* the peers whose connection is being served, one at most
  backlog,   \* the connections the kernel keeps for accept
  conn,      \* conn[p]: "none", "queued", "served", "closed", or "refused"
             \* (reset in the queue when the server stopped)
  peer,      \* peer[p]: "open", "finished" (sends no more) or "gone"
  sent,      \* sent[p]: the bytes p has sent
  len,       \* len[p]: how many of them the server has read
  out,       \* what is left to send: [header, body]
  got        \* got[p]: what of the answer has reached p

serverVars == << server, serving, out >>
vars == << server, handler, serving, backlog, conn, peer, sent, len, out, got >>

Nothing == [header |-> << >>, body |-> << >>]

-----------------------------------------------------------------------------
(* Lines and the end of the header.                                        *)

IsEnd(byte) == byte \in {LF, CR}

(* A bug: CR LF is taken for two line ends.                                *)
desi_next_line_Apart(buf, start) ==
  LET ends == {i \in start..Len(buf) : IsEnd(buf[i])}
      end == CHOOSE i \in ends : \A j \in ends : i <= j
  IN IF ends = {} THEN [end |-> 0, next |-> 0] ELSE [end |-> end, next |-> end + 1]

(* Where the line that begins at "start" ends and the next one begins;     *)
(* end = 0: the line is not complete.                                      *)
desi_next_line(buf, start) ==
  LET ends == {i \in start..Len(buf) : IsEnd(buf[i])}
      end == CHOOSE i \in ends : \A j \in ends : i <= j
      pair == buf[end] = CR /\ end < Len(buf) /\ buf[end + 1] = LF
  IN IF ends = {} THEN [end |-> 0, next |-> 0]
     ELSE [end |-> end, next |-> end + (IF pair THEN 2 ELSE 1)]

(* The number of bytes up to and with the first empty line, 0 without one. *)
desi_find_header_end(buf) ==
  LET From[pos \in 1..Len(buf) + 1] ==
        LET line == desi_next_line(buf, pos)
        IN IF line.end = 0 THEN 0
           ELSE IF line.end = pos THEN line.next - 1
           ELSE From[line.next]
  IN From[1]

(* The method and the path of the request line, both << >> when it has not *)
(* both, each ended by a space.                                            *)
BadRequest == [method |-> << >>, path |-> << >>]
desi_parse_request_line(buf) ==
  LET line == SubSeq(buf, 1, desi_next_line(buf, 1).end - 1)
      spaces == {i \in 1..Len(line) : line[i] = SP}
      first == CHOOSE i \in spaces : \A j \in spaces : i <= j
      later == spaces \ {first}
      second == CHOOSE i \in later : \A j \in later : i <= j
  IN IF Cardinality(spaces) < 2 \/ first = 1 \/ second = first + 1 THEN BadRequest
     ELSE [method |-> SubSeq(line, 1, first - 1),
           path |-> SubSeq(line, first + 1, second - 1)]

-----------------------------------------------------------------------------
(* What desi_send_response makes of a response.                            *)

desi_send_response(resp) ==
  LET hollow == resp.body = NoBody
      status == IF hollow THEN 500 ELSE IF resp.status = 0 THEN 200 ELSE resp.status
      body == IF hollow THEN Text("Internal Server Error") ELSE resp.body
      type == IF body = << >> THEN "none"
              ELSE IF hollow \/ resp.type = "none" THEN "text/plain"
              ELSE resp.type
  IN [fits |-> type # "long",
      header |-> << [status |-> status, type |-> type, length |-> Len(body)] >> \o Text("end"),
      body |-> body]

TooLarge == Response(0, 413, "none", Text("Request Too Large"))
Malformed == Response(0, 400, "none", Text("Bad Request"))

(* The response to a request whose header is complete.                     *)
Answer(req) ==
  LET resp == Handler(handler, req.method, req.path)
  IN IF req = BadRequest THEN Malformed
     ELSE IF resp.rc < 0
          THEN Response(0, 500, resp.type, Text("Internal Server Error"))
          ELSE resp

-----------------------------------------------------------------------------
Init ==
  /\ server = "starting"
  /\ handler \in HandlerNames
  /\ serving = {}
  /\ backlog = << >>
  /\ conn = [p \in Peers |-> "none"]
  /\ peer = [p \in Peers |-> "open"]
  /\ sent = [p \in Peers |-> << >>]
  /\ len = [p \in Peers |-> 0]
  /\ out = Nothing
  /\ got = [p \in Peers |-> << >>]

(* desi_listen_socket.                                                     *)
Listen ==
  /\ server = "starting"
  /\ server' = "accepting"
  /\ UNCHANGED << handler, serving, backlog, conn, peer, sent, len, out, got >>

ListenFails ==
  /\ server = "starting"
  /\ server' = "stopped"
  /\ UNCHANGED << handler, serving, backlog, conn, peer, sent, len, out, got >>

Accept ==
  /\ server = "accepting" /\ backlog # << >>
  /\ server' = "reading"
  /\ serving' = {Head(backlog)}
  /\ backlog' = Tail(backlog)
  /\ conn' = [conn EXCEPT ![Head(backlog)] = "served"]
  /\ UNCHANGED << handler, peer, sent, len, out, got >>

(* Any error but EINTR ends the server; those who wait are reset.          *)
AcceptFails ==
  /\ server = "accepting"
  /\ server' = "stopped"
  /\ backlog' = << >>
  /\ conn' = [p \in Peers |-> IF conn[p] = "queued" THEN "refused" ELSE conn[p]]
  /\ UNCHANGED << handler, serving, peer, sent, len, out, got >>

-----------------------------------------------------------------------------
(* desi_read_request.                                                      *)

Buf(p) == SubSeq(sent[p], 1, len[p])
Unread(p) == Len(sent[p]) - len[p]
HeaderOpen(p) == desi_find_header_end(Buf(p)) = 0

SmallerOf(m, n) == IF m < n THEN m ELSE n

(* recv takes what has come: how a request is cut is up to its peer.       *)
Recv(p) ==
  /\ server = "reading" /\ p \in serving
  /\ len[p] < Cap /\ HeaderOpen(p)
  /\ Unread(p) > 0
  /\ len' = [len EXCEPT ![p] = SmallerOf(Len(sent[p]), Cap)]
  /\ UNCHANGED << server, handler, serving, backlog, conn, peer, sent, out, got >>

(* A bug: the end of what a peer sends is not taken for an end.            *)
RecvEnds_WhenGone(p) ==
  /\ server = "reading" /\ p \in serving
  /\ len[p] < Cap /\ HeaderOpen(p)
  /\ peer[p] = "gone"
  /\ server' = "closing"
  /\ UNCHANGED << handler, serving, backlog, conn, peer, sent, len, out, got >>

(* recv gives 0 when the peer sends no more, and may fail when it is gone. *)
RecvEnds(p) ==
  /\ server = "reading" /\ p \in serving
  /\ len[p] < Cap /\ HeaderOpen(p)
  /\ \/ peer[p] # "open" /\ Unread(p) = 0
     \/ peer[p] = "gone"
  /\ server' = "closing"
  /\ UNCHANGED << handler, serving, backlog, conn, peer, sent, len, out, got >>

(* A response whose header does not fit its buffer is not sent at all.     *)
Respond(resp) ==
  \E made \in {desi_send_response(resp)} :
    IF made.fits
    THEN server' = "header" /\ out' = [header |-> made.header, body |-> made.body]
    ELSE server' = "closing" /\ out' = Nothing

RequestTooLarge(p) ==
  /\ server = "reading" /\ p \in serving
  /\ len[p] = Cap /\ HeaderOpen(p)
  /\ Respond(TooLarge)
  /\ UNCHANGED << handler, serving, backlog, conn, peer, sent, len, got >>

(* desi_handle_client once the header is complete.                         *)
Handle(p) ==
  /\ server = "reading" /\ p \in serving
  /\ \E header_end \in {desi_find_header_end(Buf(p))} \ {0} :
       \E req \in {desi_parse_request_line(SubSeq(Buf(p), 1, header_end))} :
         Respond(Answer(req))
  /\ UNCHANGED << handler, serving, backlog, conn, peer, sent, len, got >>

-----------------------------------------------------------------------------
(* desi_write_all, first of the header, then of the body.  What is sent to *)
(* a peer that is gone is lost, or the call fails (SIGPIPE is ignored).    *)

SendPart(p, part) ==
  \E n \in 1..Len(out[part]) :
    /\ out' = [out EXCEPT ![part] = SubSeq(@, n + 1, Len(@))]
    /\ got' = [got EXCEPT ![p] =
                 IF peer[p] = "gone" THEN @ ELSE @ \o SubSeq(out[part], 1, n)]

(* A bug: a send that takes a part of the header is taken for a failure.   *)
SendHeader_Once(p) ==
  /\ server = "header" /\ p \in serving
  /\ SendPart(p, "header")
  /\ server' = IF out'.header = << >> /\ out.body # << >> THEN "body" ELSE "closing"
  /\ UNCHANGED << handler, serving, backlog, conn, peer, sent, len >>

SendHeader(p) ==
  /\ server = "header" /\ p \in serving
  /\ SendPart(p, "header")
  /\ server' = IF out'.header # << >> THEN "header"
               ELSE IF out.body # << >> THEN "body" ELSE "closing"
  /\ UNCHANGED << handler, serving, backlog, conn, peer, sent, len >>

SendBody(p) ==
  /\ server = "body" /\ p \in serving
  /\ SendPart(p, "body")
  /\ server' = IF out'.body # << >> THEN "body" ELSE "closing"
  /\ UNCHANGED << handler, serving, backlog, conn, peer, sent, len >>

SendFails(p) ==
  /\ server \in {"header", "body"} /\ p \in serving
  /\ peer[p] = "gone"
  /\ server' = "closing"
  /\ UNCHANGED << handler, serving, backlog, conn, peer, sent, len, out, got >>

(* close: bytes that were not read make it a reset, which takes what the   *)
(* peer has not yet read of the answer.                                    *)
Close(p) ==
  /\ server = "closing" /\ p \in serving
  /\ server' = "accepting"
  /\ serving' = {}
  /\ conn' = [conn EXCEPT ![p] = "closed"]
  /\ out' = Nothing
  /\ \E n \in (IF Unread(p) = 0 THEN {Len(got[p])} ELSE 0..Len(got[p])) :
       got' = [got EXCEPT ![p] = SubSeq(@, 1, n)]
  /\ UNCHANGED << handler, backlog, peer, sent, len >>

-----------------------------------------------------------------------------
(* The peers.                                                              *)

Connect(p) ==
  /\ conn[p] = "none" /\ server \notin {"starting", "stopped"}
  /\ Pieces[handler][p] # {}
  /\ conn' = [conn EXCEPT ![p] = "queued"]
  /\ backlog' = Append(backlog, p)
  /\ UNCHANGED << server, handler, serving, peer, sent, len, out, got >>

Connected(p) == conn[p] \in {"queued", "served"}

Send(p) ==
  /\ Connected(p) /\ peer[p] = "open"
  /\ \E piece \in Pieces[handler][p] :
       /\ Len(sent[p]) + Len(piece) <= SendBound
       /\ sent' = [sent EXCEPT ![p] = @ \o piece]
  /\ UNCHANGED << server, handler, serving, backlog, conn, peer, len, out, got >>

Finish(p) ==
  /\ Connected(p) /\ peer[p] = "open"
  /\ peer' = [peer EXCEPT ![p] = "finished"]
  /\ UNCHANGED << server, handler, serving, backlog, conn, sent, len, out, got >>

GoAway(p) ==
  /\ Connected(p) /\ peer[p] # "gone"
  /\ peer' = [peer EXCEPT ![p] = "gone"]
  /\ UNCHANGED << server, handler, serving, backlog, conn, sent, len, out, got >>

-----------------------------------------------------------------------------
(* What the server's thread does when no call of it fails.                 *)
ServerStep ==
  \/ Listen
  \/ Accept
  \/ \E p \in Peers :
       \/ Recv(p) \/ RecvEnds(p) \/ RequestTooLarge(p) \/ Handle(p)
       \/ SendHeader(p) \/ SendBody(p) \/ Close(p)

Next ==
  \/ ServerStep
  \/ ListenFails
  \/ AcceptFails
  \/ \E p \in Peers :
       SendFails(p) \/ Connect(p) \/ Send(p) \/ Finish(p) \/ GoAway(p)

Spec == Init /\ [][Next]_vars

(* The thread runs as long as a call it makes can return; the peers owe    *)
(* nothing.                                                                *)
FairSpec == Spec /\ WF_vars(ServerStep)

-----------------------------------------------------------------------------
(* What the answer must be, from the bytes sent alone: which of them came  *)
(* with which recv plays no part.                                          *)

EndsEmptyLine(text, i) ==
  /\ IsEnd(text[i])
  /\ i = 1 \/ IsEnd(text[i - 1])
  /\ ~(i > 1 /\ text[i] = LF /\ text[i - 1] = CR)

HasHeader(text) == \E i \in 1..SmallerOf(Len(text), Cap) : EndsEmptyLine(text, i)

(* text begins with the words m and p of a line, each ended by a space.    *)
Requests(text) ==
  {r \in [method : {SubSeq(text, 1, i) : i \in 1..Len(text)},
          path : {SubSeq(text, i, j) : i, j \in 1..Len(text)}] :
     /\ r.path # << >>
     /\ LET words == r.method \o << SP >> \o r.path
        IN /\ Len(text) > Len(words)
           /\ SubSeq(text, 1, Len(words) + 1) = words \o << SP >>
           /\ Cardinality({i \in DOMAIN words : words[i] = SP}) = 1
           /\ \A i \in DOMAIN words : ~IsEnd(words[i])}

Due(text) ==
  IF ~HasHeader(text) THEN TooLarge
  ELSE IF Requests(text) = {} THEN Malformed
  ELSE Answer(CHOOSE r \in Requests(text) : TRUE)

Answered(text) == HasHeader(text) \/ Len(text) >= Cap
Units(resp) ==
  LET made == desi_send_response(resp) IN made.header \o made.body

ContentTypes == {"none", "text/plain", "short", "long"}
Words == {"Not Found", "ok", "agent_ok", "mcp_active", "half done", "end",
          "Internal Server Error", "Request Too Large", "Bad Request"}
Item == [text : Words] \cup [status : Int, type : ContentTypes, length : Nat]

(* State of the server, the connections and the kernel's queue, in which   *)
(* no connection waits twice.                                              *)
TypeOK ==
  /\ server \in {"starting", "accepting", "reading", "header", "body", "closing",
                 "stopped"}
  /\ handler \in HandlerNames
  /\ serving = {p \in Peers : conn[p] = "served"}
  /\ \A p, q \in serving : p = q
  /\ serving = {} <=> server \in {"starting", "accepting", "stopped"}
  /\ backlog \in Seq(Peers)
  /\ \A i, j \in DOMAIN backlog : backlog[i] = backlog[j] => i = j
  /\ \A i \in DOMAIN backlog : conn[backlog[i]] = "queued"
  /\ conn \in [Peers -> {"none", "queued", "served", "closed", "refused"}]
  /\ peer \in [Peers -> {"open", "finished", "gone"}]
  /\ sent \in [Peers -> Seq(Nat)]
  /\ len \in [Peers -> Nat]
  /\ \A p \in Peers : len[p] <= SmallerOf(Len(sent[p]), Cap)
  /\ out \in [header : Seq(Item), body : Seq(Item)]
  /\ got \in [Peers -> Seq(Item)]

(* Whatever has reached a peer is the beginning of the one answer its      *)
(* bytes call for, however they were cut: 413 for a header that is too     *)
(* long (http1_server.c:173), 400 for a bad request line, what the handler *)
(* says otherwise, 500 in its place when it refuses.                       *)
AnswersAreTheRequests ==
  \A p \in Peers : got[p] # << >> =>
    /\ Answered(sent[p])
    /\ LET due == Units(Due(sent[p]))
       IN Len(got[p]) <= Len(due) /\ got[p] = SubSeq(due, 1, Len(got[p]))

(* What desi_handle_client answers to the bytes it has read from p.        *)
Decided(p) == ~HeaderOpen(p) \/ len[p] = Cap
Decision(p) ==
  IF HeaderOpen(p) THEN TooLarge
  ELSE Answer(desi_parse_request_line(
                SubSeq(Buf(p), 1, desi_find_header_end(Buf(p)))))

(* A peer that waits for its answer and has sent nothing the server did    *)
(* not read has the whole of it when the connection is closed; it is       *)
(* closed without one only on a header that never ended or an answer whose *)
(* header does not fit its buffer (http1_server.c:85).                     *)
AnswersArriveWhole ==
  \A p \in Peers :
    (conn[p] = "closed" /\ peer[p] # "gone" /\ Unread(p) = 0) =>
      IF Decided(p) /\ desi_send_response(Decision(p)).fits
      THEN got[p] = Units(Decision(p))
      ELSE got[p] = << >> /\ (Decided(p) \/ peer[p] = "finished")

(* The peer that is served has stopped in the middle of its header, and    *)
(* the server waits for it: idle_timeout_ms is not used.                   *)
Stalled ==
  \E p \in serving : /\ server = "reading" /\ peer[p] = "open"
                     /\ Unread(p) = 0 /\ ~Answered(sent[p])

(* A connection in the queue is served or refused in the end, unless the   *)
(* peer being served stalls for ever: nothing else holds the others        *)
(* (http1_server.c:237, one connection at a time).                         *)
OnlyAStalledPeerHoldsOthers ==
  \A p \in Peers :
    [](conn[p] = "queued" => <>(conn[p] # "queued" \/ []Stalled))

=============================================================================
