-------------------------- MODULE Http1ServerProofs --------------------------
(***************************************************************************)
(* For any peers, whatever they send and however it is cut, and for every  *)
(* handler: the state of the server has its types, whoever waits for its   *)
(* answer gets the whole of it, and whatever reaches a peer is a part of   *)
(* the answer that its bytes call for.                                     *)
(***************************************************************************)
EXTENDS Http1Server, FiniteSetTheorems, WellFoundedInduction, TLAPS

-----------------------------------------------------------------------------
(* Sequences.                                                              *)

LEMMA Split ==
  ASSUME NEW S, NEW s \in Seq(S), NEW n \in 0 .. Len(s)
  PROVE  /\ SubSeq(s, 1, n) \in Seq(S) /\ SubSeq(s, n + 1, Len(s)) \in Seq(S)
         /\ SubSeq(s, 1, n) \o SubSeq(s, n + 1, Len(s)) = s
         /\ SubSeq(s, 1, Len(s)) = s
<1>1. /\ SubSeq(s, 1, n) \in Seq(S) /\ Len(SubSeq(s, 1, n)) = n
      /\ SubSeq(s, n + 1, Len(s)) \in Seq(S) /\ Len(SubSeq(s, n + 1, Len(s))) = Len(s) - n
      /\ SubSeq(s, 1, Len(s)) \in Seq(S) /\ Len(SubSeq(s, 1, Len(s))) = Len(s)
  OBVIOUS
<1>2. SubSeq(s, 1, Len(s)) = s
  BY <1>1
<1> DEFINE a == SubSeq(s, 1, n)
           b == SubSeq(s, n + 1, Len(s))
<1>3. \A i \in 1 .. n : a[i] = s[i]
  OBVIOUS
<1>4. \A i \in 1 .. Len(s) - n : b[i] = s[n + i]
  OBVIOUS
<1>5. a \in Seq(S) /\ Len(a) = n /\ b \in Seq(S) /\ Len(b) = Len(s) - n
  BY <1>1
<1> HIDE DEF a, b
<1>6. a \o b \in Seq(S) /\ Len(a \o b) = Len(s)
  BY <1>5
<1>7. ASSUME NEW i \in 1 .. Len(s) PROVE (a \o b)[i] = s[i]
  <2>1. CASE i <= n
    BY <1>3, <1>5, <2>1
  <2>2. CASE i > n
    <3>1. i - n \in 1 .. Len(s) - n /\ n + (i - n) = i
      BY <2>2
    <3>2. b[i - n] = s[i]
      BY <1>4, <3>1
    <3>3. (a \o b)[i] = b[i - n]
      BY <1>5, <2>2
    <3> QED
      BY <3>2, <3>3
  <2>3. i <= n \/ i > n
    OBVIOUS
  <2> QED
    BY <2>1, <2>2, <2>3
<1>8. a \o b = s
  <2> DEFINE w == a \o b
  <2>1. w \in Seq(S) /\ Len(w) = Len(s) /\ \A i \in 1 .. Len(s) : w[i] = s[i]
    BY <1>6, <1>7
  <2> HIDE DEF w
  <2>2. w = s
    BY <2>1
  <2> QED
    BY <2>2 DEF w
<1> QED
  BY <1>1, <1>2, <1>8 DEF a, b

LEMMA Prefix ==
  ASSUME NEW S, NEW s \in Seq(S), NEW t \in Seq(S), NEW n \in 0 .. Len(s)
  PROVE  SubSeq(s \o t, 1, n) = SubSeq(s, 1, n)
<1>1. s \o t \in Seq(S) /\ Len(s \o t) = Len(s) + Len(t)
  OBVIOUS
<1>2. /\ SubSeq(s \o t, 1, n) \in Seq(S) /\ Len(SubSeq(s \o t, 1, n)) = n
      /\ SubSeq(s, 1, n) \in Seq(S) /\ Len(SubSeq(s, 1, n)) = n
  BY <1>1
<1>3. ASSUME NEW i \in 1 .. n PROVE SubSeq(s \o t, 1, n)[i] = SubSeq(s, 1, n)[i]
  BY <1>1
<1> QED
  BY <1>2, <1>3

LEMMA Assoc ==
  ASSUME NEW S, NEW a \in Seq(S), NEW b \in Seq(S), NEW c \in Seq(S)
  PROVE  (a \o b) \o c = a \o (b \o c) /\ a \o << >> = a /\ << >> \o a = a
  OBVIOUS

-----------------------------------------------------------------------------
(* What is sent is made of items.                                          *)

Bodies == {<< >>, NoBody} \cup {Text(w) : w \in Words}
Responses == [rc : Int, status : Int, type : ContentTypes, body : Bodies]

LEMMA HandlerResponds ==
  ASSUME NEW name \in HandlerNames, NEW method, NEW path
  PROVE  Handler(name, method, path) \in Responses
<1>1. ASSUME NEW w \in Words PROVE Text(w) \in Bodies
  BY DEF Bodies
<1>2. << >> \in Bodies /\ NoBody \in Bodies
  BY DEF Bodies
<1>3. /\ "Not Found" \in Words /\ "ok" \in Words /\ "agent_ok" \in Words
      /\ "mcp_active" \in Words /\ "half done" \in Words
      /\ "none" \in ContentTypes /\ "short" \in ContentTypes /\ "long" \in ContentTypes
  BY DEF Words, ContentTypes
<1>4. /\ Response(0, 404, "none", Text("Not Found")) \in Responses
      /\ Response(0, 404, "none", << >>) \in Responses
      /\ Response(0, 405, "none", << >>) \in Responses
      /\ Response(0, 200, "none", Text("ok")) \in Responses
      /\ Response(0, 200, "none", Text("agent_ok")) \in Responses
      /\ Response(0, 200, "none", Text("mcp_active")) \in Responses
      /\ Response(-1, 200, "short", Text("half done")) \in Responses
      /\ Response(0, 0, "none", << >>) \in Responses
      /\ Response(0, 200, "short", NoBody) \in Responses
      /\ Response(0, 200, "long", Text("ok")) \in Responses
  <2>1. Text("Not Found") \in Bodies
    BY <1>1, <1>3
  <2>2. Text("ok") \in Bodies
    BY <1>1, <1>3
  <2>3. Text("agent_ok") \in Bodies
    BY <1>1, <1>3
  <2>4. Text("mcp_active") \in Bodies
    BY <1>1, <1>3
  <2>5. Text("half done") \in Bodies
    BY <1>1, <1>3
  <2>6. Response(0, 404, "none", Text("Not Found")) \in Responses
    <3>1. ASSUME NEW body \in Bodies PROVE Response(0, 404, "none", body) \in Responses
      BY DEF Response, Responses, ContentTypes
    <3> QED
      BY <2>1, <3>1, Zenon
  <2>7. Response(0, 404, "none", << >>) \in Responses
    BY <1>2 DEF Response, Responses, ContentTypes
  <2>8. Response(0, 405, "none", << >>) \in Responses
    BY <1>2 DEF Response, Responses, ContentTypes
  <2>9. Response(0, 200, "none", Text("ok")) \in Responses
    BY <2>2 DEF Response, Responses, ContentTypes
  <2>10. Response(0, 200, "none", Text("agent_ok")) \in Responses
    BY <2>3 DEF Response, Responses, ContentTypes
  <2>11. Response(0, 200, "none", Text("mcp_active")) \in Responses
    BY <2>4 DEF Response, Responses, ContentTypes
  <2>12. Response(-1, 200, "short", Text("half done")) \in Responses
    <3>1. ASSUME NEW body \in Bodies PROVE Response(-1, 200, "short", body) \in Responses
      BY DEF Response, Responses, ContentTypes
    <3> QED
      BY <2>5, <3>1, Zenon
  <2>13. Response(0, 0, "none", << >>) \in Responses
    BY <1>2 DEF Response, Responses, ContentTypes
  <2>14. Response(0, 200, "short", NoBody) \in Responses
    BY <1>2 DEF Response, Responses, ContentTypes
  <2>15. Response(0, 200, "long", Text("ok")) \in Responses
    BY <2>2 DEF Response, Responses, ContentTypes
  <2> QED
    BY <2>6, <2>7, <2>8, <2>9, <2>10, <2>11, <2>12, <2>13, <2>14, <2>15
<1>5. desid_handler(method, path) \in Responses
  <2>1. CASE path # Health
    BY <1>4, <2>1 DEF desid_handler
  <2>2. CASE path = Health
    BY <1>4, <2>2 DEF desid_handler
  <2> QED
    BY <2>1, <2>2
<1>6. agentd_handler(method, path) \in Responses
  BY <1>4 DEF agentd_handler
<1>7. mcpd_handler(method, path) \in Responses
  BY <1>4 DEF mcpd_handler
<1> QED
  BY <1>4, <1>5, <1>6, <1>7, Zenon DEF Handler, HandlerNames

LEMMA AnswerResponds ==
  ASSUME NEW req, handler \in HandlerNames
  PROVE  Answer(req) \in Responses
<1>1. Malformed \in Responses
  BY DEF Malformed, Responses, Response, Bodies, ContentTypes, Words
<1>2. Handler(handler, req.method, req.path) \in Responses
  BY HandlerResponds
<1>3. ASSUME NEW type \in ContentTypes
      PROVE  Response(0, 500, type, Text("Internal Server Error")) \in Responses
  BY DEF Responses, Response, Bodies, Words
<1>4. Handler(handler, req.method, req.path).type \in ContentTypes
  BY <1>2 DEF Responses
<1> QED
  BY <1>1, <1>2, <1>3, <1>4 DEF Answer

LEMMA TooLargeResponds == TooLarge \in Responses
  BY DEF TooLarge, Responses, Response, Bodies, ContentTypes, Words

LEMMA BodyItems ==
  ASSUME NEW body \in Bodies, body # NoBody
  PROVE  body \in Seq(Item)
<1>1. ASSUME NEW w \in Words PROVE Text(w) \in Seq(Item)
  BY DEF Text, Item
<1>2. << >> \in Seq(Item)
  OBVIOUS
<1>3. body = << >> \/ \E w \in Words : body = Text(w)
  BY DEF Bodies
<1> QED
  BY <1>1, <1>2, <1>3

LEMMA SendsItems ==
  ASSUME NEW resp \in Responses
  PROVE  /\ desi_send_response(resp).header \in Seq(Item)
         /\ desi_send_response(resp).body \in Seq(Item)
<1> DEFINE hollow == resp.body = NoBody
           status == IF hollow THEN 500 ELSE IF resp.status = 0 THEN 200 ELSE resp.status
           body == IF hollow THEN Text("Internal Server Error") ELSE resp.body
           type == IF body = << >> THEN "none"
                   ELSE IF hollow \/ resp.type = "none" THEN "text/plain"
                   ELSE resp.type
<1>1. Text("Internal Server Error") \in Seq(Item) /\ Text("end") \in Seq(Item)
  BY DEF Text, Item, Words
<1>2. body \in Seq(Item)
  BY <1>1, BodyItems DEF Responses
<1>3. resp.status \in Int /\ resp.type \in ContentTypes
  BY DEF Responses
<1>4. status \in Int
  BY <1>3
<1>5. type \in ContentTypes
  <2> HIDE DEF body, hollow
  <2> QED
    BY <1>3 DEF ContentTypes
<1> HIDE DEF status, body, type
<1>6. [status |-> status, type |-> type, length |-> Len(body)] \in Item
  BY <1>2, <1>4, <1>5 DEF Item
<1>7. << [status |-> status, type |-> type, length |-> Len(body)] >> \o Text("end") \in Seq(Item)
  <2> DEFINE x == [status |-> status, type |-> type, length |-> Len(body)]
             end == Text("end")
  <2>1. x \in Item /\ end \in Seq(Item)
    BY <1>1, <1>6
  <2> HIDE DEF x, end
  <2>2. << x >> \o end \in Seq(Item)
    BY <2>1
  <2> QED
    BY <2>2 DEF x, end
<1> QED
  BY <1>2, <1>7 DEF desi_send_response, status, body, type

-----------------------------------------------------------------------------
(* The inductive invariant: what has reached the peer that is served and   *)
(* what is left to send make up the answer to what was read from it, until *)
(* it goes away.                                                           *)

Whole(p) == Decided(p) /\ desi_send_response(Decision(p)).fits

Outcome(p) ==
  IF Whole(p) THEN got[p] = Units(Decision(p))
  ELSE got[p] = << >> /\ (Decided(p) \/ peer[p] = "finished")

Progress(p) ==
  /\ conn[p] \in {"none", "queued"} => got[p] = << >>
  /\ conn[p] = "served" =>
       /\ server = "reading" => got[p] = << >>
       /\ server = "header" => Whole(p)
       /\ server = "body" => Whole(p) /\ out.header = << >>
       /\ (server \in {"header", "body"} /\ peer[p] # "gone") =>
            (got[p] \o out.header) \o out.body = Units(Decision(p))
       /\ (server = "closing" /\ peer[p] # "gone") => Outcome(p)
  /\ (conn[p] = "closed" /\ peer[p] # "gone" /\ Unread(p) = 0) => Outcome(p)

Inv == TypeOK /\ \A p \in Peers : Progress(p)

(* What was read of a peer tells all about it.                             *)
LEMMA SameDecision ==
  ASSUME NEW p, Buf(p)' = Buf(p), UNCHANGED << handler, len[p] >>
  PROVE  /\ Decided(p)' = Decided(p) /\ Decision(p)' = Decision(p)
         /\ Whole(p)' = Whole(p)
<1>1. HeaderOpen(p)' = HeaderOpen(p)
  BY DEF HeaderOpen
<1>2. Decided(p)' = Decided(p)
  BY <1>1 DEF Decided
<1>3. Decision(p)' = Decision(p)
  BY <1>1 DEF Decision, Answer
<1> QED
  BY <1>2, <1>3 DEF Whole

(* A step that concerns other peers, or only how one goes on.              *)
LEMMA Untouched ==
  ASSUME Inv, NEW p \in Peers,
         Buf(p)' = Buf(p), UNCHANGED << handler, len[p], got[p] >>,
         Unread(p)' = 0 => Unread(p) = 0,
         conn'[p] = conn[p], conn[p] = "served" => UNCHANGED << server, out >>,
         peer'[p] \in {peer[p], "gone"} \/ (peer[p] = "open" /\ peer'[p] = "finished")
  PROVE  Progress(p)'
<1>1. /\ Decided(p)' = Decided(p) /\ Decision(p)' = Decision(p)
      /\ Whole(p)' = Whole(p)
  BY SameDecision
<1>2. Units(Decision(p))' = Units(Decision(p))
  BY <1>1
<1>3. (peer'[p] # "gone" /\ Outcome(p)) => Outcome(p)'
  BY <1>1, <1>2 DEF Outcome
<1>4. peer'[p] # "gone" => peer[p] # "gone"
  OBVIOUS
<1>5. Progress(p)
  BY DEF Inv
<1> QED
  BY <1>1, <1>2, <1>3, <1>4, <1>5 DEF Progress

-----------------------------------------------------------------------------
(* The peer that is served, and the others while it is.                    *)

LEMMA Served ==
  ASSUME Inv, NEW p \in serving
  PROVE  /\ p \in Peers /\ conn[p] = "served" /\ serving = {p}
         /\ \A q \in Peers : q # p => conn[q] # "served"
  BY DEF Inv, TypeOK

LEMMA Others ==
  ASSUME Inv, NEW p \in serving, NEW q \in Peers, q # p,
         UNCHANGED << handler, sent, peer, len[q], got[q], conn[q] >>
  PROVE  Progress(q)'
<1>1. conn[q] # "served"
  BY Served
<1>2. Buf(q)' = Buf(q) /\ (Unread(q)' = 0 => Unread(q) = 0)
  BY DEF Buf, Unread
<1> QED
  BY <1>1, <1>2, Untouched

LEMMA InitInv == Init => Inv
<1> SUFFICES ASSUME Init PROVE Inv
  OBVIOUS
<1>1. TypeOK
  BY CapAssumption DEF Init, TypeOK, Nothing, SmallerOf
<1>2. ASSUME NEW p \in Peers PROVE Progress(p)
  BY DEF Init, Progress
<1> QED
  BY <1>1, <1>2 DEF Inv

-----------------------------------------------------------------------------
(* The listening socket and its queue.                                     *)

LEMMA ListenInv == Inv /\ (Listen \/ ListenFails) => Inv'
<1> SUFFICES ASSUME Inv, Listen \/ ListenFails PROVE Inv'
  OBVIOUS
<1>1. TypeOK'
  BY DEF Inv, TypeOK, Listen, ListenFails
<1>2. ASSUME NEW p \in Peers PROVE Progress(p)'
  <2>1. Buf(p)' = Buf(p) /\ (Unread(p)' = 0 => Unread(p) = 0)
    BY DEF Buf, Unread, Listen, ListenFails
  <2>2. conn[p] # "served"
    BY DEF Inv, TypeOK, Listen, ListenFails
  <2> QED
    BY <2>1, <2>2, Untouched DEF Listen, ListenFails
<1> QED
  BY <1>1, <1>2 DEF Inv

LEMMA AcceptInv == Inv /\ Accept => Inv'
<1> SUFFICES ASSUME Inv, Accept PROVE Inv'
  OBVIOUS
<1> DEFINE h == Head(backlog)
<1>1. /\ backlog \in Seq(Peers) /\ backlog # << >> /\ Len(backlog) > 0
      /\ h = backlog[1] /\ h \in Peers /\ conn[h] = "queued"
      /\ 1 \in DOMAIN backlog
  BY DEF Inv, TypeOK, Accept
<1>2. /\ backlog' = Tail(backlog) /\ backlog' \in Seq(Peers)
      /\ Len(backlog') = Len(backlog) - 1
      /\ \A i \in DOMAIN backlog' : i + 1 \in DOMAIN backlog /\ backlog'[i] = backlog[i + 1]
  BY <1>1 DEF Accept
<1>3. /\ serving = {} /\ \A p \in Peers : conn[p] # "served"
  BY DEF Inv, TypeOK, Accept
<1>4. conn' = [conn EXCEPT ![h] = "served"] /\ serving' = {h} /\ server' = "reading"
      /\ UNCHANGED << handler, peer, sent, len, out, got >>
  BY DEF Accept
<1> HIDE DEF h
<1>5. /\ conn' \in [Peers -> {"none", "queued", "served", "closed", "refused"}]
      /\ conn'[h] = "served" /\ \A p \in Peers : p # h => conn'[p] = conn[p]
  BY <1>1, <1>4 DEF Inv, TypeOK
<1>6. serving' = {p \in Peers : conn'[p] = "served"}
  BY <1>1, <1>3, <1>4, <1>5
<1>7. \A i \in DOMAIN backlog' : backlog'[i] # h /\ conn'[backlog'[i]] = "queued"
  <2> TAKE i \in DOMAIN backlog'
  <2>1. i + 1 \in DOMAIN backlog /\ i + 1 # 1 /\ backlog'[i] = backlog[i + 1]
    BY <1>2
  <2>2. backlog[i + 1] # backlog[1]
    BY <1>1, <2>1 DEF Inv, TypeOK
  <2>3. backlog[i + 1] \in Peers /\ conn[backlog[i + 1]] = "queued"
    BY <1>1, <2>1 DEF Inv, TypeOK
  <2> QED
    BY <1>1, <1>5, <2>1, <2>2, <2>3
<1>8. \A i, j \in DOMAIN backlog' : backlog'[i] = backlog'[j] => i = j
  <2> TAKE i, j \in DOMAIN backlog'
  <2> HAVE backlog'[i] = backlog'[j]
  <2>1. /\ i + 1 \in DOMAIN backlog /\ j + 1 \in DOMAIN backlog
        /\ backlog[i + 1] = backlog[j + 1]
    BY <1>2
  <2>2. i + 1 = j + 1
    BY <2>1 DEF Inv, TypeOK
  <2> QED
    BY <1>2, <2>2
<1>9. TypeOK'
  BY <1>2, <1>4, <1>5, <1>6, <1>7, <1>8 DEF Inv, TypeOK
<1>10. ASSUME NEW p \in Peers PROVE Progress(p)'
  <2>1. CASE p = h
    BY <1>1, <1>4, <1>5, <2>1 DEF Inv, Progress
  <2>2. CASE p # h
    <3>1. Buf(p)' = Buf(p) /\ (Unread(p)' = 0 => Unread(p) = 0)
      BY <1>4 DEF Buf, Unread
    <3>2. conn'[p] = conn[p] /\ conn[p] # "served"
      BY <1>3, <1>5, <2>2
    <3> QED
      BY <1>4, <3>1, <3>2, Untouched
  <2> QED
    BY <2>1, <2>2
<1> QED
  BY <1>9, <1>10 DEF Inv

LEMMA AcceptFailsInv == Inv /\ AcceptFails => Inv'
<1> SUFFICES ASSUME Inv, AcceptFails PROVE Inv'
  OBVIOUS
<1>1. TypeOK'
  BY DEF Inv, TypeOK, AcceptFails
<1>2. ASSUME NEW p \in Peers PROVE Progress(p)'
  <2>1. Buf(p)' = Buf(p) /\ (Unread(p)' = 0 => Unread(p) = 0)
    BY DEF Buf, Unread, AcceptFails
  <2>2. conn[p] # "served"
    BY DEF Inv, TypeOK, AcceptFails
  <2>3. CASE conn[p] = "queued"
    <3>1. conn'[p] = "refused"
      BY <2>3 DEF AcceptFails
    <3> QED
      BY <3>1 DEF Progress
  <2>4. CASE conn[p] # "queued"
    <3>1. conn'[p] = conn[p]
      BY <2>4 DEF AcceptFails
    <3> QED
      BY <2>1, <2>2, <3>1, Untouched DEF AcceptFails
  <2> QED
    BY <2>3, <2>4
<1> QED
  BY <1>1, <1>2 DEF Inv

-----------------------------------------------------------------------------
(* Reading a request and deciding on its answer.                           *)

LEMMA DecisionResponds ==
  ASSUME Inv, NEW p
  PROVE  Decision(p) \in Responses
  BY AnswerResponds, TooLargeResponds DEF Inv, TypeOK, Decision

LEMMA RecvInv == ASSUME Inv, NEW p \in Peers, Recv(p) PROVE Inv'
<1>1. /\ server = "reading" /\ p \in serving /\ len[p] < Cap /\ Unread(p) > 0
      /\ len' = [len EXCEPT ![p] = SmallerOf(Len(sent[p]), Cap)]
      /\ UNCHANGED << server, handler, serving, backlog, conn, peer, sent, out, got >>
  BY DEF Recv
<1>2. sent[p] \in Seq(Nat) /\ Len(sent[p]) \in Nat /\ Cap \in Nat
  BY CapAssumption DEF Inv, TypeOK
<1>3. SmallerOf(Len(sent[p]), Cap) \in Nat
  BY <1>2 DEF SmallerOf
<1>4. /\ len' \in [Peers -> Nat] /\ len'[p] = SmallerOf(Len(sent[p]), Cap)
      /\ \A q \in Peers : q # p => len'[q] = len[q]
  BY <1>1, <1>3 DEF Inv, TypeOK
<1>5. \A q \in Peers : len'[q] <= SmallerOf(Len(sent[q]), Cap)
  <2> TAKE q \in Peers
  <2>1. CASE q = p
    BY <1>3, <1>4, <2>1
  <2>2. CASE q # p
    BY <1>4, <2>2 DEF Inv, TypeOK
  <2> QED
    BY <2>1, <2>2
<1>6. TypeOK'
  BY <1>1, <1>4, <1>5 DEF Inv, TypeOK
<1>7. ASSUME NEW q \in Peers PROVE Progress(q)'
  <2>1. CASE q = p
    BY <1>1, <2>1, Served DEF Inv, Progress
  <2>2. CASE q # p
    BY <1>1, <1>4, <2>2, Others
  <2> QED
    BY <2>1, <2>2
<1> QED
  BY <1>6, <1>7 DEF Inv

LEMMA RecvEndsInv == ASSUME Inv, NEW p \in Peers, RecvEnds(p) PROVE Inv'
<1>1. /\ server = "reading" /\ p \in serving /\ len[p] < Cap /\ HeaderOpen(p)
      /\ peer[p] # "open" /\ server' = "closing"
      /\ UNCHANGED << handler, serving, backlog, conn, peer, sent, len, out, got >>
  BY DEF RecvEnds
<1>2. TypeOK'
  BY <1>1 DEF Inv, TypeOK
<1>3. ASSUME NEW q \in Peers PROVE Progress(q)'
  <2>1. CASE q = p
    <3>1. got[p] = << >> /\ conn[p] = "served"
      BY <1>1, Served DEF Inv, Progress
    <3>2. ~Decided(p)
      BY <1>1, CapAssumption DEF Decided, Inv, TypeOK
    <3>3. Buf(p)' = Buf(p)
      BY <1>1 DEF Buf
    <3>4. ~Decided(p)' /\ ~Whole(p)'
      BY <1>1, <3>2, <3>3, SameDecision DEF Whole
    <3>5. peer'[p] # "gone" => peer'[p] = "finished"
      BY <1>1 DEF Inv, TypeOK
    <3>6. peer'[p] # "gone" => Outcome(p)'
      BY <1>1, <3>1, <3>4, <3>5 DEF Outcome
    <3> QED
      BY <1>1, <2>1, <3>1, <3>6 DEF Progress
  <2>2. CASE q # p
    BY <1>1, <2>2, Others
  <2> QED
    BY <2>1, <2>2
<1> QED
  BY <1>2, <1>3 DEF Inv

(* The server goes on to send what it has decided on, or to close.         *)
LEMMA RespondInv ==
  ASSUME Inv, NEW p \in Peers, p \in serving, server = "reading",
         Decided(p), Respond(Decision(p)),
         UNCHANGED << handler, serving, backlog, conn, peer, sent, len, got >>
  PROVE  Inv'
<1> DEFINE made == desi_send_response(Decision(p))
<1>1. made.header \in Seq(Item) /\ made.body \in Seq(Item)
  BY DecisionResponds, SendsItems
<1>2. \/ /\ made.fits /\ server' = "header"
         /\ out' = [header |-> made.header, body |-> made.body]
      \/ /\ ~made.fits /\ server' = "closing" /\ out' = Nothing
  BY DEF Respond
<1>3. Units(Decision(p)) = made.header \o made.body /\ (Whole(p) <=> made.fits)
  BY Zenon DEF Units, Whole
<1> HIDE DEF made
<1>4. TypeOK'
  <2>1. out' \in [header : Seq(Item), body : Seq(Item)]
    <3>1. CASE out' = [header |-> made.header, body |-> made.body]
      BY <1>1, <3>1
    <3>2. CASE out' = Nothing
      BY <3>2 DEF Nothing
    <3> QED
      BY <1>2, <3>1, <3>2
  <2>2. server' \in {"header", "closing"}
    BY <1>2
  <2> QED
    BY <2>1, <2>2 DEF Inv, TypeOK
<1>5. ASSUME NEW q \in Peers PROVE Progress(q)'
  <2>1. CASE q = p
    <3>1. got[p] = << >> /\ conn[p] = "served"
      BY Served DEF Inv, Progress
    <3>2. Buf(p)' = Buf(p)
      BY DEF Buf
    <3>3. /\ Decided(p)' = Decided(p) /\ Decision(p)' = Decision(p)
          /\ Whole(p)' = Whole(p)
      BY <3>2, SameDecision
    <3>4. Units(Decision(p))' = Units(Decision(p))
      BY <3>3
    <3>5. CASE made.fits
      <4>1. server' = "header" /\ out'.header = made.header /\ out'.body = made.body
        BY <1>2, <3>5
      <4>2. (<< >> \o made.header) \o made.body = made.header \o made.body
        BY <1>1
      <4>3. (got'[p] \o out'.header) \o out'.body = Units(Decision(p))'
        BY <1>3, <3>1, <3>4, <4>1, <4>2
      <4>4. Whole(p)'
        BY <1>3, <3>3, <3>5
      <4> QED
        BY <2>1, <3>1, <4>1, <4>3, <4>4 DEF Progress
    <3>6. CASE ~made.fits
      <4>1. Outcome(p)'
        BY <1>3, <3>1, <3>3, <3>6 DEF Outcome
      <4>2. server' = "closing"
        BY <1>2, <3>6
      <4> QED
        BY <2>1, <3>1, <4>1, <4>2 DEF Progress
    <3> QED
      BY <3>5, <3>6
  <2>2. CASE q # p
    BY <2>2, Others
  <2> QED
    BY <2>1, <2>2
<1> QED
  BY <1>4, <1>5 DEF Inv

LEMMA RequestTooLargeInv == ASSUME Inv, NEW p \in Peers, RequestTooLarge(p) PROVE Inv'
<1>1. Decided(p) /\ Decision(p) = TooLarge
  BY DEF RequestTooLarge, Decided, Decision
<1> QED
  BY <1>1, RespondInv DEF RequestTooLarge

LEMMA HandleInv == ASSUME Inv, NEW p \in Peers, Handle(p) PROVE Inv'
<1>1. Decided(p) /\ Respond(Decision(p))
  BY DEF Handle, Decided, Decision, HeaderOpen
<1> QED
  BY <1>1, RespondInv DEF Handle

-----------------------------------------------------------------------------
(* Sending and closing.                                                    *)

LEMMA Sends ==
  ASSUME Inv, NEW p \in Peers, p \in serving,
         NEW part \in {"header", "body"}, SendPart(p, part)
  PROVE  /\ out' \in [header : Seq(Item), body : Seq(Item)]
         /\ \A other \in {"header", "body"} : other # part => out'[other] = out[other]
         /\ got' \in [Peers -> Seq(Item)]
         /\ \A q \in Peers : q # p => got'[q] = got[q]
         /\ peer[p] # "gone" => got'[p] \o out'[part] = got[p] \o out[part]
<1>1. PICK n \in 1 .. Len(out[part]) :
        /\ out' = [out EXCEPT ![part] = SubSeq(@, n + 1, Len(@))]
        /\ got' = [got EXCEPT ![p] =
                     IF peer[p] = "gone" THEN @ ELSE @ \o SubSeq(out[part], 1, n)]
  BY DEF SendPart
<1> DEFINE s == out[part]
           a == SubSeq(s, 1, n)
           b == SubSeq(s, n + 1, Len(s))
<1>2. s \in Seq(Item) /\ out \in [header : Seq(Item), body : Seq(Item)]
      /\ got \in [Peers -> Seq(Item)] /\ got[p] \in Seq(Item)
  BY DEF Inv, TypeOK
<1>3. n \in 0 .. Len(s)
  BY <1>2
<1>4. a \in Seq(Item) /\ b \in Seq(Item) /\ a \o b = s
  BY <1>2, <1>3, Split
<1>5. out' = [out EXCEPT ![part] = b]
  BY <1>1
<1>6. got' = [got EXCEPT ![p] = IF peer[p] = "gone" THEN got[p] ELSE got[p] \o a]
  BY <1>1
<1> HIDE DEF a, b
<1>7. got[p] \o a \in Seq(Item)
  BY <1>2, <1>4
<1>8. /\ out' \in [header : Seq(Item), body : Seq(Item)] /\ out'[part] = b
      /\ \A other \in {"header", "body"} : other # part => out'[other] = out[other]
  BY <1>2, <1>4, <1>5
<1>9. /\ got' \in [Peers -> Seq(Item)]
      /\ \A q \in Peers : q # p => got'[q] = got[q]
      /\ peer[p] # "gone" => got'[p] = got[p] \o a
  BY <1>2, <1>6, <1>7
<1>10. (got[p] \o a) \o b = got[p] \o (a \o b)
  <2>1. ASSUME NEW x \in Seq(Item), NEW y \in Seq(Item), NEW z \in Seq(Item)
        PROVE  (x \o y) \o z = x \o (y \o z)
    BY Assoc
  <2>2. got[p] \in Seq(Item) /\ a \in Seq(Item) /\ b \in Seq(Item)
    BY <1>2, <1>4
  <2> QED
    BY <2>1, <2>2, Zenon
<1> QED
  BY <1>4, <1>8, <1>9, <1>10

LEMMA SendHeaderInv == ASSUME Inv, NEW p \in Peers, SendHeader(p) PROVE Inv'
<1>1. /\ server = "header" /\ p \in serving /\ SendPart(p, "header")
      /\ server' = IF out'.header # << >> THEN "header"
                   ELSE IF out.body # << >> THEN "body" ELSE "closing"
      /\ UNCHANGED << handler, serving, backlog, conn, peer, sent, len >>
  BY DEF SendHeader
<1>2. /\ out' \in [header : Seq(Item), body : Seq(Item)] /\ out'.body = out.body
      /\ got' \in [Peers -> Seq(Item)]
      /\ \A q \in Peers : q # p => got'[q] = got[q]
      /\ peer[p] # "gone" => got'[p] \o out'.header = got[p] \o out.header
  <2>1. "header" \in {"header", "body"} /\ "body" \in {"header", "body"} /\ "body" # "header"
    OBVIOUS
  <2> QED
    BY <1>1, <2>1, Sends
<1>3. TypeOK'
  <2>1. server' \in {"header", "body", "closing"}
    BY <1>1
  <2> QED
    BY <1>1, <1>2, <2>1 DEF Inv, TypeOK
<1>4. ASSUME NEW q \in Peers PROVE Progress(q)'
  <2>1. CASE q = p
    <3>1. /\ Whole(p) /\ conn[p] = "served"
          /\ peer[p] # "gone" => (got[p] \o out.header) \o out.body = Units(Decision(p))
      BY <1>1, Served DEF Inv, Progress
    <3>2. Buf(p)' = Buf(p)
      BY <1>1 DEF Buf
    <3>3. /\ Decided(p)' = Decided(p) /\ Decision(p)' = Decision(p)
          /\ Whole(p)' = Whole(p)
      BY <1>1, <3>2, SameDecision
    <3>4. Units(Decision(p))' = Units(Decision(p))
      BY <3>3
    <3>5. peer'[p] # "gone" =>
            (got'[p] \o out'.header) \o out'.body = Units(Decision(p))'
      BY <1>1, <1>2, <3>1, <3>4
    <3>6. (server' = "closing" /\ peer'[p] # "gone") => Outcome(p)'
      <4> SUFFICES ASSUME server' = "closing", peer'[p] # "gone" PROVE Outcome(p)'
        OBVIOUS
      <4>1. out'.header = << >> /\ out'.body = << >>
        BY <1>1, <1>2
      <4>2. got'[p] \in Seq(Item)
        BY <1>2
      <4>3. got'[p] = Units(Decision(p))'
        BY <3>5, <4>1, <4>2, Assoc
      <4> QED
        BY <3>1, <3>3, <4>3 DEF Outcome
    <3>7. server' = "body" => out'.header = << >>
      BY <1>1
    <3>8. server' # "reading" /\ conn'[p] = "served"
      BY <1>1, <3>1
    <3> QED
      BY <2>1, <3>1, <3>3, <3>5, <3>6, <3>7, <3>8 DEF Progress
  <2>2. CASE q # p
    BY <1>1, <1>2, <2>2, Others
  <2> QED
    BY <2>1, <2>2
<1> QED
  BY <1>3, <1>4 DEF Inv

LEMMA SendBodyInv == ASSUME Inv, NEW p \in Peers, SendBody(p) PROVE Inv'
<1>1. /\ server = "body" /\ p \in serving /\ SendPart(p, "body")
      /\ server' = IF out'.body # << >> THEN "body" ELSE "closing"
      /\ UNCHANGED << handler, serving, backlog, conn, peer, sent, len >>
  BY DEF SendBody
<1>2. /\ out' \in [header : Seq(Item), body : Seq(Item)] /\ out'.header = out.header
      /\ got' \in [Peers -> Seq(Item)]
      /\ \A q \in Peers : q # p => got'[q] = got[q]
      /\ peer[p] # "gone" => got'[p] \o out'.body = got[p] \o out.body
  <2>1. "header" \in {"header", "body"} /\ "body" \in {"header", "body"} /\ "body" # "header"
    OBVIOUS
  <2> QED
    BY <1>1, <2>1, Sends
<1>3. TypeOK'
  <2>1. server' \in {"body", "closing"}
    BY <1>1
  <2> QED
    BY <1>1, <1>2, <2>1 DEF Inv, TypeOK
<1>4. ASSUME NEW q \in Peers PROVE Progress(q)'
  <2>1. CASE q = p
    <3>1. /\ Whole(p) /\ conn[p] = "served" /\ out.header = << >>
          /\ peer[p] # "gone" => (got[p] \o out.header) \o out.body = Units(Decision(p))
      BY <1>1, Served DEF Inv, Progress
    <3>2. Buf(p)' = Buf(p)
      BY <1>1 DEF Buf
    <3>3. /\ Decided(p)' = Decided(p) /\ Decision(p)' = Decision(p)
          /\ Whole(p)' = Whole(p)
      BY <1>1, <3>2, SameDecision
    <3>4. Units(Decision(p))' = Units(Decision(p))
      BY <3>3
    <3>5. got[p] \in Seq(Item) /\ got'[p] \in Seq(Item)
      BY <1>2 DEF Inv, TypeOK
    <3>6. got[p] \o out.header = got[p] /\ got'[p] \o out'.header = got'[p]
      <4>1. ASSUME NEW g \in Seq(Item) PROVE g \o << >> = g
        BY Assoc
      <4> QED
        BY <1>2, <3>1, <3>5, <4>1
    <3>7. peer'[p] # "gone" => got'[p] \o out'.body = Units(Decision(p))'
      BY <1>1, <1>2, <3>1, <3>4, <3>6
    <3>8. (server' = "closing" /\ peer'[p] # "gone") => Outcome(p)'
      <4> SUFFICES ASSUME server' = "closing", peer'[p] # "gone" PROVE Outcome(p)'
        OBVIOUS
      <4>1. out'.body = << >>
        BY <1>1
      <4>2. got'[p] = Units(Decision(p))'
        BY <3>5, <3>7, <4>1, Assoc
      <4> QED
        BY <3>1, <3>3, <4>2 DEF Outcome
    <3>9. server' \in {"body", "closing"} /\ conn'[p] = "served" /\ out'.header = << >>
      BY <1>1, <1>2, <3>1
    <3> QED
      BY <2>1, <3>1, <3>3, <3>6, <3>7, <3>8, <3>9 DEF Progress
  <2>2. CASE q # p
    BY <1>1, <1>2, <2>2, Others
  <2> QED
    BY <2>1, <2>2
<1> QED
  BY <1>3, <1>4 DEF Inv

LEMMA SendFailsInv == ASSUME Inv, NEW p \in Peers, SendFails(p) PROVE Inv'
<1>1. /\ p \in serving /\ server \in {"header", "body"} /\ server' = "closing"
      /\ peer[p] = "gone"
      /\ UNCHANGED << handler, serving, backlog, conn, peer, sent, len, out, got >>
  BY DEF SendFails
<1>2. TypeOK'
  BY <1>1 DEF Inv, TypeOK
<1>3. ASSUME NEW q \in Peers PROVE Progress(q)'
  <2>1. CASE q = p
    BY <1>1, <2>1, Served DEF Progress
  <2>2. CASE q # p
    BY <1>1, <2>2, Others
  <2> QED
    BY <2>1, <2>2
<1> QED
  BY <1>2, <1>3 DEF Inv

LEMMA CloseInv == ASSUME Inv, NEW p \in Peers, Close(p) PROVE Inv'
<1>1. /\ server = "closing" /\ p \in serving /\ server' = "accepting" /\ serving' = {}
      /\ conn' = [conn EXCEPT ![p] = "closed"] /\ out' = Nothing
      /\ UNCHANGED << handler, backlog, peer, sent, len >>
  BY DEF Close
<1>2. PICK n \in (IF Unread(p) = 0 THEN {Len(got[p])} ELSE 0 .. Len(got[p])) :
        got' = [got EXCEPT ![p] = SubSeq(@, 1, n)]
  BY DEF Close
<1>3. got \in [Peers -> Seq(Item)] /\ got[p] \in Seq(Item) /\ n \in 0 .. Len(got[p])
  BY <1>2 DEF Inv, TypeOK
<1>4. /\ SubSeq(got[p], 1, n) \in Seq(Item)
      /\ Unread(p) = 0 => SubSeq(got[p], 1, n) = got[p]
  BY <1>2, <1>3, Split
<1>5. /\ got' \in [Peers -> Seq(Item)] /\ got'[p] = SubSeq(got[p], 1, n)
      /\ \A q \in Peers : q # p => got'[q] = got[q]
  BY <1>2, <1>3, <1>4
<1>6. /\ conn' \in [Peers -> {"none", "queued", "served", "closed", "refused"}]
      /\ conn'[p] = "closed" /\ \A q \in Peers : q # p => conn'[q] = conn[q]
  BY <1>1 DEF Inv, TypeOK
<1>7. TypeOK'
  <2>1. serving' = {q \in Peers : conn'[q] = "served"}
    BY <1>1, <1>6, Served
  <2>2. \A i \in DOMAIN backlog : backlog[i] \in Peers /\ backlog[i] # p
    <3> TAKE i \in DOMAIN backlog
    <3>1. backlog[i] \in Peers /\ conn[backlog[i]] = "queued"
      BY DEF Inv, TypeOK
    <3> QED
      BY <1>1, <3>1, Served
  <2>3. out' \in [header : Seq(Item), body : Seq(Item)]
    BY <1>1 DEF Nothing
  <2> QED
    BY <1>1, <1>5, <1>6, <2>1, <2>2, <2>3 DEF Inv, TypeOK
<1>8. ASSUME NEW q \in Peers PROVE Progress(q)'
  <2>1. CASE q = p
    <3>1. peer[p] # "gone" => Outcome(p)
      BY <1>1, Served DEF Inv, Progress
    <3>2. Buf(p)' = Buf(p) /\ Unread(p)' = Unread(p)
      BY <1>1 DEF Buf, Unread
    <3>3. /\ Decided(p)' = Decided(p) /\ Decision(p)' = Decision(p)
          /\ Whole(p)' = Whole(p)
      BY <1>1, <3>2, SameDecision
    <3>4. Units(Decision(p))' = Units(Decision(p))
      BY <3>3
    <3>5. Unread(p) = 0 => got'[p] = got[p]
      BY <1>4, <1>5
    <3>6. (peer'[p] # "gone" /\ Unread(p)' = 0) => Outcome(p)'
      BY <1>1, <3>1, <3>2, <3>3, <3>4, <3>5 DEF Outcome
    <3> QED
      BY <1>6, <2>1, <3>6 DEF Progress
  <2>2. CASE q # p
    BY <1>1, <1>5, <1>6, <2>2, Others
  <2> QED
    BY <2>1, <2>2
<1> QED
  BY <1>7, <1>8 DEF Inv

-----------------------------------------------------------------------------
(* The peers.                                                              *)

LEMMA ConnectInv == ASSUME Inv, NEW p \in Peers, Connect(p) PROVE Inv'
<1>1. /\ conn[p] = "none" /\ server \notin {"starting", "stopped"}
      /\ conn' = [conn EXCEPT ![p] = "queued"] /\ backlog' = Append(backlog, p)
      /\ UNCHANGED << server, handler, serving, peer, sent, len, out, got >>
  BY DEF Connect
<1>2. /\ conn' \in [Peers -> {"none", "queued", "served", "closed", "refused"}]
      /\ conn'[p] = "queued" /\ \A q \in Peers : q # p => conn'[q] = conn[q]
  BY <1>1 DEF Inv, TypeOK
<1>3. /\ backlog \in Seq(Peers) /\ backlog' \in Seq(Peers)
      /\ DOMAIN backlog = 1 .. Len(backlog) /\ DOMAIN backlog' = 1 .. Len(backlog) + 1
      /\ \A i \in 1 .. Len(backlog) : backlog'[i] = backlog[i]
      /\ backlog'[Len(backlog) + 1] = p /\ Len(backlog) \in Nat
  BY <1>1 DEF Inv, TypeOK
<1>4. \A i \in 1 .. Len(backlog) : conn[backlog[i]] = "queued" /\ backlog[i] \in Peers
  <2> TAKE i \in 1 .. Len(backlog)
  <2>1. backlog[i] \in Peers
    BY <1>3
  <2>2. i \in DOMAIN backlog
    BY <1>3
  <2> QED
    BY <2>1, <2>2 DEF Inv, TypeOK
<1>5. \A i \in 1 .. Len(backlog) : backlog[i] # p
  BY <1>1, <1>4
<1>6. \A i \in DOMAIN backlog' : conn'[backlog'[i]] = "queued"
  BY <1>2, <1>3, <1>4
<1>7. \A i, j \in DOMAIN backlog' : backlog'[i] = backlog'[j] => i = j
  <2>1. \A i, j \in 1 .. Len(backlog) : backlog[i] = backlog[j] => i = j
    BY <1>3 DEF Inv, TypeOK
  <2> QED
    BY <1>3, <1>5, <2>1
<1>8. serving' = {q \in Peers : conn'[q] = "served"}
  BY <1>1, <1>2 DEF Inv, TypeOK
<1>9. TypeOK'
  BY <1>1, <1>2, <1>3, <1>6, <1>7, <1>8, ZenonT(60) DEF Inv, TypeOK
<1>10. ASSUME NEW q \in Peers PROVE Progress(q)'
  <2>1. CASE q = p
    BY <1>1, <1>2, <2>1 DEF Inv, Progress
  <2>2. CASE q # p
    <3>1. Buf(q)' = Buf(q) /\ (Unread(q)' = 0 => Unread(q) = 0)
      BY <1>1 DEF Buf, Unread
    <3> QED
      BY <1>1, <1>2, <2>2, <3>1, Untouched
  <2> QED
    BY <2>1, <2>2
<1> QED
  BY <1>9, <1>10 DEF Inv

LEMMA SendInv == ASSUME Inv, NEW p \in Peers, Send(p) PROVE Inv'
<1>1. UNCHANGED << server, handler, serving, backlog, conn, peer, len, out, got >>
      /\ Connected(p)
  BY DEF Send
<1>2. PICK piece \in Pieces[handler][p] : sent' = [sent EXCEPT ![p] = @ \o piece]
  BY DEF Send
<1>3. piece \in Seq(Nat)
  BY PiecesAssumption DEF Inv, TypeOK
<1>4. sent \in [Peers -> Seq(Nat)] /\ sent[p] \in Seq(Nat) /\ Len(sent[p]) \in Nat
      /\ Len(piece) \in Nat /\ len[p] \in Nat /\ Cap \in Nat
  BY <1>3, CapAssumption DEF Inv, TypeOK
<1>5. sent[p] \o piece \in Seq(Nat) /\ Len(sent[p] \o piece) = Len(sent[p]) + Len(piece)
  BY <1>3, <1>4
<1>6. /\ sent' \in [Peers -> Seq(Nat)] /\ sent'[p] = sent[p] \o piece
      /\ \A q \in Peers : q # p => sent'[q] = sent[q]
  BY <1>2, <1>4, <1>5
<1>7. len[p] <= Len(sent[p]) /\ len[p] <= Cap
  BY <1>4 DEF Inv, TypeOK, SmallerOf
<1>8. \A q \in Peers : len[q] <= SmallerOf(Len(sent'[q]), Cap)
  <2>1. len[p] <= SmallerOf(Len(sent'[p]), Cap)
    BY <1>4, <1>5, <1>6, <1>7 DEF SmallerOf
  <2> QED
    BY <1>6, <2>1 DEF Inv, TypeOK
<1>9. TypeOK'
  BY <1>1, <1>6, <1>8 DEF Inv, TypeOK
<1>10. ASSUME NEW q \in Peers PROVE Progress(q)'
  <2>1. CASE q = p
    <3>1. len[p] \in 0 .. Len(sent[p])
      BY <1>4, <1>7
    <3>2. SubSeq(sent[p] \o piece, 1, len[p]) = SubSeq(sent[p], 1, len[p])
      BY <1>3, <1>4, <3>1, Prefix
    <3>3. Buf(p)' = Buf(p)
      BY <1>1, <1>6, <3>2 DEF Buf
    <3>4. Unread(p)' = 0 => Unread(p) = 0
      BY <1>1, <1>4, <1>5, <1>6, <1>7 DEF Unread
    <3> QED
      BY <1>1, <2>1, <3>3, <3>4, Untouched
  <2>2. CASE q # p
    <3>1. Buf(q)' = Buf(q) /\ (Unread(q)' = 0 => Unread(q) = 0)
      BY <1>1, <1>6, <2>2 DEF Buf, Unread
    <3> QED
      BY <1>1, <3>1, Untouched
  <2> QED
    BY <2>1, <2>2
<1> QED
  BY <1>9, <1>10 DEF Inv

LEMMA FinishInv == ASSUME Inv, NEW p \in Peers, Finish(p) \/ GoAway(p) PROVE Inv'
<1>1. /\ UNCHANGED << server, handler, serving, backlog, conn, sent, len, out, got >>
      /\ \/ peer[p] = "open" /\ peer' = [peer EXCEPT ![p] = "finished"]
         \/ peer' = [peer EXCEPT ![p] = "gone"]
  BY DEF Finish, GoAway
<1>2. peer' \in [Peers -> {"open", "finished", "gone"}]
  BY <1>1, ZenonT(60) DEF Inv, TypeOK
<1>3. ASSUME NEW q \in Peers
      PROVE  \/ peer'[q] \in {peer[q], "gone"}
             \/ peer[q] = "open" /\ peer'[q] = "finished"
  <2>1. peer \in [Peers -> {"open", "finished", "gone"}]
    BY DEF Inv, TypeOK
  <2>2. CASE q = p
    BY <1>1, <2>1, <2>2
  <2>3. CASE q # p
    BY <1>1, <2>1, <2>3
  <2> QED
    BY <2>2, <2>3
<1>4. TypeOK'
  BY <1>1, <1>2 DEF Inv, TypeOK
<1>5. ASSUME NEW q \in Peers PROVE Progress(q)'
  <2>1. Buf(q)' = Buf(q) /\ (Unread(q)' = 0 => Unread(q) = 0)
    BY <1>1 DEF Buf, Unread
  <2> QED
    BY <1>1, <1>3, <2>1, Untouched
<1> QED
  BY <1>4, <1>5 DEF Inv

-----------------------------------------------------------------------------
LEMMA StepInv == Inv /\ [Next]_vars => Inv'
<1> SUFFICES ASSUME Inv, [Next]_vars PROVE Inv'
  OBVIOUS
<1>1. CASE Listen \/ ListenFails
  BY <1>1, ListenInv
<1>2. CASE Accept
  BY <1>2, AcceptInv
<1>3. CASE AcceptFails
  BY <1>3, AcceptFailsInv
<1>4. ASSUME NEW p \in Peers,
             Recv(p) \/ RecvEnds(p) \/ RequestTooLarge(p) \/ Handle(p)
      PROVE  Inv'
  BY <1>4, RecvInv, RecvEndsInv, RequestTooLargeInv, HandleInv
<1>5. ASSUME NEW p \in Peers,
             SendHeader(p) \/ SendBody(p) \/ SendFails(p) \/ Close(p)
      PROVE  Inv'
  BY <1>5, SendHeaderInv, SendBodyInv, SendFailsInv, CloseInv
<1>6. ASSUME NEW p \in Peers, Connect(p) \/ Send(p) \/ Finish(p) \/ GoAway(p)
      PROVE  Inv'
  BY <1>6, ConnectInv, SendInv, FinishInv
<1>7. CASE UNCHANGED vars
  <2>1. TypeOK'
    BY <1>7 DEF vars, Inv, TypeOK
  <2>2. ASSUME NEW p \in Peers PROVE Progress(p)'
    <3>1. Buf(p)' = Buf(p) /\ (Unread(p)' = 0 => Unread(p) = 0)
      BY <1>7 DEF vars, Buf, Unread
    <3> QED
      BY <1>7, <3>1, Untouched DEF vars
  <2> QED
    BY <2>1, <2>2 DEF Inv
<1> QED
  BY <1>1, <1>2, <1>3, <1>4, <1>5, <1>6, <1>7 DEF Next, ServerStep

LEMMA Invariance == Spec => []Inv
<1>1. Init => Inv
  BY InitInv
<1>2. Inv /\ [Next]_vars => Inv'
  BY StepInv
<1> QED
  BY <1>1, <1>2, PTL DEF Spec

(* The state of the server, of its connections and of the kernel's queue   *)
(* has its types in every reachable state: one connection is served at a   *)
(* time and none waits twice (desi_server_run).                            *)
THEOREM TypeCorrect == Spec => []TypeOK
<1>1. Inv => TypeOK
  BY DEF Inv
<1> QED
  BY <1>1, Invariance, PTL

(* Whoever waits for its answer, and has sent nothing that was not read,   *)
(* has the whole answer to what it sent once its connection is closed,     *)
(* however its bytes and those of the answer were cut                      *)
(* (desi_handle_client, desi_send_response, desi_write_all).               *)
THEOREM WholeAnswersArrive == Spec => []AnswersArriveWhole
<1>1. Inv => AnswersArriveWhole
  <2> SUFFICES ASSUME Inv, NEW p \in Peers,
                      conn[p] = "closed", peer[p] # "gone", Unread(p) = 0
               PROVE  IF Decided(p) /\ desi_send_response(Decision(p)).fits
                      THEN got[p] = Units(Decision(p))
                      ELSE got[p] = << >> /\ (Decided(p) \/ peer[p] = "finished")
    BY DEF AnswersArriveWhole
  <2>1. Outcome(p)
    BY DEF Inv, Progress
  <2> QED
    BY <2>1 DEF Outcome, Whole
<1> QED
  BY <1>1, Invariance, PTL

-----------------------------------------------------------------------------
Less == {p \in Nat \X Nat : p[1] < p[2]}

LEMMA LessWF == IsWellFoundedOn(Less, Nat)
<1>1. OpToRel(<, Nat) = Less
  BY DEF OpToRel, Less
<1> QED
  BY <1>1, NatLessThanWellFounded

LEMMA UpTo ==
  ASSUME NEW N \in Nat, NEW T, 0 \in T, \A n \in 1 .. N : n - 1 \in T => n \in T
  PROVE  \A n \in 0 .. N : n \in T
<1> DEFINE outside == {n \in 0 .. N : n \notin T}
<1>1. CASE outside = {}
  BY <1>1
<1>2. CASE outside # {}
  <2>1. outside \in SUBSET Nat
    OBVIOUS
  <2>2. PICK x \in outside : \A y \in outside : ~ (<< y, x >> \in Less)
    BY <1>2, <2>1, LessWF, WFMin
  <2>3. x \in 1 .. N /\ x - 1 \in 0 .. N
    BY <2>2
  <2>4. << x - 1, x >> \in Less
    BY <2>3 DEF Less
  <2>5. x - 1 \in T
    BY <2>2, <2>3, <2>4
  <2>6. QED
    BY <2>2, <2>3, <2>5
<1>3. QED
  BY <1>1, <1>2


LEMMA Least ==
  ASSUME NEW S \in SUBSET Nat, S # {}
  PROVE  LET least == CHOOSE i \in S : \A j \in S : i <= j
         IN  least \in S /\ \A j \in S : least <= j
<1>1. PICK x \in S : \A y \in S : ~ (<< y, x >> \in Less)
  BY LessWF, WFMin
<1>2. \A y \in S : x <= y
  <2> TAKE y \in S
  <2>1. x \in Nat /\ y \in Nat
    OBVIOUS
  <2>2. y < x => << y, x >> \in Less
    BY <2>1 DEF Less
  <2> QED
    BY <1>1, <2>1, <2>2
<1> QED
  BY <1>1, <1>2

-----------------------------------------------------------------------------
(* The end of the header is where the first empty line is.                 *)

EndOf(buf, start) == desi_next_line(buf, start).end
NextOf(buf, start) == desi_next_line(buf, start).next

NoEnd(buf, i, j) == \A k \in i .. j : ~IsEnd(buf[k])

(* CR LF at i.                                                             *)
Pair(buf, i) == i < Len(buf) /\ buf[i] = CR /\ buf[i + 1] = LF

LEMMA NextLine ==
  ASSUME NEW buf \in Seq(Nat), NEW start \in 1 .. Len(buf) + 1
  PROVE  \/ EndOf(buf, start) = 0 /\ NoEnd(buf, start, Len(buf))
         \/ /\ EndOf(buf, start) \in start .. Len(buf)
            /\ IsEnd(buf[EndOf(buf, start)])
            /\ NoEnd(buf, start, EndOf(buf, start) - 1)
            /\ NextOf(buf, start) = EndOf(buf, start)
                                    + (IF Pair(buf, EndOf(buf, start)) THEN 2 ELSE 1)
<1> DEFINE ends == {i \in start .. Len(buf) : IsEnd(buf[i])}
           least == CHOOSE i \in ends : \A j \in ends : i <= j
           pair == buf[least] = CR /\ least < Len(buf) /\ buf[least + 1] = LF
<1>1. desi_next_line(buf, start) =
        IF ends = {} THEN [end |-> 0, next |-> 0]
        ELSE [end |-> least, next |-> least + (IF pair THEN 2 ELSE 1)]
  BY DEF desi_next_line
<1>2. Len(buf) \in Nat /\ ends \in SUBSET Nat
  OBVIOUS
<1>3. CASE ends = {}
  <2>1. EndOf(buf, start) = 0
    BY <1>1, <1>3 DEF EndOf
  <2> QED
    BY <1>3, <2>1 DEF NoEnd
<1>4. CASE ends # {}
  <2>1. least \in ends /\ \A j \in ends : least <= j
    BY <1>2, <1>4, Least
  <2>2. pair <=> Pair(buf, least)
    BY DEF Pair
  <2> HIDE DEF pair, least, ends
  <2>3. EndOf(buf, start) = least /\ NextOf(buf, start) = least + (IF Pair(buf, least) THEN 2 ELSE 1)
    BY <1>1, <1>4, <2>2 DEF EndOf, NextOf
  <2>4. NoEnd(buf, start, least - 1)
    <3> SUFFICES ASSUME NEW k \in start .. least - 1, IsEnd(buf[k]) PROVE FALSE
      BY DEF NoEnd
    <3>1. k \in ends
      BY <1>2, <2>1 DEF ends
    <3> QED
      BY <2>1, <3>1
  <2> QED
    BY <2>1, <2>3, <2>4 DEF ends
<1> QED
  BY <1>3, <1>4

(* EndsEmptyLine for a text whose first line begins at pos.                *)
EmptyAt(buf, pos) ==
  {i \in pos .. Len(buf) :
     /\ IsEnd(buf[i])
     /\ i = pos \/ IsEnd(buf[i - 1])
     /\ ~(i > pos /\ buf[i] = LF /\ buf[i - 1] = CR)}

LEMMA SameEmptyLines ==
  ASSUME NEW buf \in Seq(Nat), NEW pos \in 1 .. Len(buf),
         EndOf(buf, pos) # 0, EndOf(buf, pos) # pos
  PROVE  /\ NextOf(buf, pos) \in pos + 1 .. Len(buf) + 1
         /\ EmptyAt(buf, pos) = EmptyAt(buf, NextOf(buf, pos))
<1> DEFINE e == EndOf(buf, pos)
           next == NextOf(buf, pos)
<1>1. Len(buf) \in Nat /\ pos \in 1 .. Len(buf) + 1
  OBVIOUS
<1>2. /\ e \in pos + 1 .. Len(buf) /\ IsEnd(buf[e]) /\ NoEnd(buf, pos, e - 1)
      /\ next = e + (IF Pair(buf, e) THEN 2 ELSE 1)
  BY <1>1, NextLine
<1> HIDE DEF e, next
<1>3. Pair(buf, e) => e < Len(buf) /\ buf[e] = CR /\ buf[e + 1] = LF
  BY DEF Pair
<1>4. next \in pos + 1 .. Len(buf) + 1 /\ next > e
  BY <1>1, <1>2, <1>3
<1>5. ~IsEnd(buf[e - 1])
  BY <1>1, <1>2 DEF NoEnd
<1>6. ASSUME NEW i \in EmptyAt(buf, pos)
      PROVE  i \in EmptyAt(buf, next)
  <2>1. /\ i \in pos .. Len(buf) /\ IsEnd(buf[i]) /\ (i = pos \/ IsEnd(buf[i - 1]))
        /\ ~(i > pos /\ buf[i] = LF /\ buf[i - 1] = CR)
    BY DEF EmptyAt
  <2>2. i > e
    BY <1>1, <1>2, <1>5, <2>1 DEF NoEnd
  <2>3. CASE Pair(buf, e)
    <3>1. i # e + 1
      BY <1>1, <1>2, <1>3, <2>1, <2>3
    <3>2. i >= next
      BY <1>1, <1>2, <2>1, <2>2, <2>3, <3>1
    <3> QED
      BY <1>1, <1>2, <1>4, <2>1, <3>2 DEF EmptyAt
  <2>4. CASE ~Pair(buf, e)
    BY <1>1, <1>2, <1>4, <2>1, <2>2, <2>4 DEF EmptyAt
  <2> QED
    BY <2>3, <2>4
<1>7. ASSUME NEW i \in EmptyAt(buf, next)
      PROVE  i \in EmptyAt(buf, pos)
  <2>1. /\ i \in next .. Len(buf) /\ IsEnd(buf[i]) /\ (i = next \/ IsEnd(buf[i - 1]))
        /\ ~(i > next /\ buf[i] = LF /\ buf[i - 1] = CR)
    BY DEF EmptyAt
  <2>2. i \in pos .. Len(buf) /\ i > pos
    BY <1>1, <1>4, <2>1
  <2>3. CASE i > next
    BY <1>1, <1>4, <2>1, <2>2, <2>3 DEF EmptyAt
  <2>4. CASE i = next /\ Pair(buf, e)
    <3>1. i - 1 = e + 1 /\ buf[e + 1] = LF
      BY <1>1, <1>2, <1>3, <2>4
    <3>2. IsEnd(buf[i - 1]) /\ buf[i - 1] # CR
      BY <3>1 DEF IsEnd, LF, CR
    <3> QED
      BY <2>1, <2>2, <3>2 DEF EmptyAt
  <2>5. CASE i = next /\ ~Pair(buf, e)
    <3>1. i - 1 = e /\ i = e + 1
      BY <1>1, <1>2, <2>5
    <3>2. ~(buf[i] = LF /\ buf[i - 1] = CR)
      BY <1>1, <1>2, <2>1, <2>5, <3>1 DEF Pair
    <3> QED
      BY <1>2, <2>1, <2>2, <3>1, <3>2 DEF EmptyAt
  <2> QED
    BY <1>1, <1>4, <2>1, <2>3, <2>4, <2>5
<1>8. EmptyAt(buf, pos) = EmptyAt(buf, next)
  BY <1>6, <1>7
<1> QED
  BY <1>4, <1>8 DEF next

LEMMA HeaderEnd ==
  ASSUME NEW buf \in Seq(Nat)
  PROVE  /\ desi_find_header_end(buf) \in 0 .. Len(buf)
         /\ desi_find_header_end(buf) = 0
              => \A i \in 1 .. Len(buf) : ~EndsEmptyLine(buf, i)
         /\ desi_find_header_end(buf) # 0
              => \E i \in 1 .. desi_find_header_end(buf) : EndsEmptyLine(buf, i)
<1> DEFINE N == Len(buf)
           Val(f, pos) ==
             LET line == desi_next_line(buf, pos)
             IN IF line.end = 0 THEN 0
                ELSE IF line.end = pos THEN line.next - 1
                ELSE f[line.next]
           Is(f) == f = [pos \in 1 .. N + 1 |-> Val(f, pos)]
           From == CHOOSE f : Is(f)
           First(pos) == CHOOSE i \in EmptyAt(buf, pos) : \A j \in EmptyAt(buf, pos) : i <= j
           g == [pos \in 1 .. N + 1 |-> IF EmptyAt(buf, pos) = {} THEN 0
                                        ELSE NextOf(buf, First(pos)) - 1]
<1>1. desi_find_header_end(buf) = From[1]
  BY DEF desi_find_header_end
<1>2. N \in Nat
  OBVIOUS
<1>3. ASSUME NEW f, NEW pos
      PROVE  Val(f, pos) = IF EndOf(buf, pos) = 0 THEN 0
                           ELSE IF EndOf(buf, pos) = pos THEN NextOf(buf, pos) - 1
                           ELSE f[NextOf(buf, pos)]
  BY DEF EndOf, NextOf
<1> HIDE DEF Val, From
<1>4. ASSUME NEW pos \in 1 .. N + 1, EmptyAt(buf, pos) # {}
      PROVE  /\ First(pos) \in EmptyAt(buf, pos) /\ \A j \in EmptyAt(buf, pos) : First(pos) <= j
             /\ First(pos) \in pos .. N
  <2>1. EmptyAt(buf, pos) \in SUBSET Nat
    BY <1>2 DEF EmptyAt
  <2>2. First(pos) \in EmptyAt(buf, pos) /\ \A j \in EmptyAt(buf, pos) : First(pos) <= j
    BY <1>4, <2>1, Least
  <2> QED
    BY <2>2 DEF EmptyAt
<1>5. ASSUME NEW pos \in 1 .. N + 1
      PROVE  g[pos] = Val(g, pos)
  <2>1. g[pos] = IF EmptyAt(buf, pos) = {} THEN 0 ELSE NextOf(buf, First(pos)) - 1
    OBVIOUS
  <2>2. CASE EndOf(buf, pos) = 0
    <3>1. NoEnd(buf, pos, N)
      BY <2>2, NextLine
    <3>2. EmptyAt(buf, pos) = {}
      BY <1>2, <3>1 DEF EmptyAt, NoEnd
    <3> QED
      BY <1>3, <2>1, <2>2, <3>2
  <2>3. CASE EndOf(buf, pos) # 0
    <3>1. EndOf(buf, pos) \in pos .. N /\ IsEnd(buf[EndOf(buf, pos)])
      BY <2>3, NextLine
    <3>2. CASE EndOf(buf, pos) = pos
      <4>1. pos \in EmptyAt(buf, pos)
        BY <1>2, <3>1, <3>2 DEF EmptyAt
      <4>2. First(pos) = pos
        BY <1>2, <1>4, <4>1
      <4> HIDE DEF First
      <4> QED
        BY <1>3, <2>1, <2>3, <3>2, <4>1, <4>2
    <3>3. CASE EndOf(buf, pos) # pos
      <4>1. pos \in 1 .. N
        BY <1>2, <3>1
      <4>2. /\ NextOf(buf, pos) \in 1 .. N + 1
            /\ EmptyAt(buf, pos) = EmptyAt(buf, NextOf(buf, pos))
        BY <1>2, <2>3, <3>3, <4>1, SameEmptyLines
      <4>3. First(pos) = First(NextOf(buf, pos))
        BY <4>2
      <4> HIDE DEF First
      <4>4. g[NextOf(buf, pos)] = g[pos]
        BY <2>1, <4>2, <4>3
      <4> HIDE DEF g
      <4> QED
        BY <1>3, <2>3, <3>3, <4>4
    <3> QED
      BY <3>2, <3>3
  <2> QED
    BY <2>2, <2>3
<1> HIDE DEF First
<1>6. Is(From)
  <2>1. Is(g)
    <3>1. g = [pos \in 1 .. N + 1 |-> g[pos]]
      OBVIOUS
    <3> HIDE DEF g
    <3> QED
      BY <1>5, <3>1
  <2> HIDE DEF Is, g
  <2> QED
    BY <2>1 DEF From
<1>7. \A pos \in 1 .. N + 1 : From[pos] = Val(From, pos)
  BY <1>6
<1> DEFINE T == {n \in 0 .. N : \A pos \in N + 1 - n .. N + 1 : From[pos] = g[pos]}
<1>8. 0 \in T
  <2>1. NoEnd(buf, N + 1, N) /\ EmptyAt(buf, N + 1) = {}
    BY <1>2 DEF NoEnd, EmptyAt
  <2>2. N + 1 \in 1 .. N + 1
    BY <1>2
  <2>3. EndOf(buf, N + 1) = 0
    BY <1>2, <2>2, NextLine
  <2>4. From[N + 1] = 0
    BY <1>3, <1>7, <2>2, <2>3
  <2>5. g[N + 1] = 0
    BY <2>1, <2>2
  <2> HIDE DEF g
  <2> QED
    BY <1>2, <2>4, <2>5
<1>9. ASSUME NEW n \in 1 .. N, n - 1 \in T
      PROVE  n \in T
  <2> DEFINE pos == N + 1 - n
  <2>1. pos \in 1 .. N + 1
    BY <1>2
  <2>2. \A q \in pos + 1 .. N + 1 : From[q] = g[q]
    <3>1. \A q \in N + 1 - (n - 1) .. N + 1 : From[q] = g[q]
      <4> HIDE DEF g
      <4> QED
        BY <1>9
    <3>2. N + 1 - (n - 1) = pos + 1
      BY <1>2
    <3> HIDE DEF g, pos
    <3> QED
      BY <3>1, <3>2
  <2>3. From[pos] = g[pos]
    <3>1. CASE EndOf(buf, pos) # 0 /\ EndOf(buf, pos) # pos
      <4>1. pos \in 1 .. N
        BY <1>2
      <4>2. NextOf(buf, pos) \in pos + 1 .. N + 1
        BY <3>1, <4>1, SameEmptyLines
      <4>3. From[NextOf(buf, pos)] = g[NextOf(buf, pos)]
        BY <2>2, <4>2
      <4> HIDE DEF g, pos
      <4> QED
        BY <1>3, <1>5, <1>7, <2>1, <3>1, <4>3
    <3>2. CASE ~(EndOf(buf, pos) # 0 /\ EndOf(buf, pos) # pos)
      <4> HIDE DEF g, pos
      <4> QED
        BY <1>3, <1>5, <1>7, <2>1, <3>2
    <3> QED
      BY <3>1, <3>2
  <2>4. \A q \in pos .. N + 1 : q = pos \/ q \in pos + 1 .. N + 1
    BY <1>2
  <2> HIDE DEF g
  <2> QED
    BY <1>2, <2>2, <2>3, <2>4
<1> HIDE DEF T
<1>10. \A n \in 0 .. N : n \in T
  <2> HIDE DEF N
  <2> QED
    BY <1>2, <1>8, <1>9, UpTo
<1>11. From[1] = g[1]
  <2>1. N \in 0 .. N /\ 1 \in N + 1 - N .. N + 1
    BY <1>2
  <2>2. N \in T
    BY <1>10, <2>1
  <2> HIDE DEF g
  <2> QED
    BY <2>1, <2>2 DEF T
<1>12. 1 \in 1 .. N + 1
  BY <1>2
<1>13. EmptyAt(buf, 1) = {i \in 1 .. N : EndsEmptyLine(buf, i)}
  BY <1>2 DEF EmptyAt, EndsEmptyLine
<1>14. From[1] = IF EmptyAt(buf, 1) = {} THEN 0 ELSE NextOf(buf, First(1)) - 1
  BY <1>11, <1>12
<1>15. CASE EmptyAt(buf, 1) = {}
  BY <1>1, <1>2, <1>13, <1>14, <1>15
<1>16. CASE EmptyAt(buf, 1) # {}
  <2>1. First(1) \in 1 .. N /\ EndsEmptyLine(buf, First(1))
    BY <1>4, <1>12, <1>13, <1>16
  <2>2. IsEnd(buf[First(1)])
    BY <2>1 DEF EndsEmptyLine
  <2>3. EndOf(buf, First(1)) = First(1) /\ First(1) \in 1 .. N + 1
    BY <1>2, <2>1, <2>2, NextLine DEF NoEnd
  <2>4. NextOf(buf, First(1)) = First(1) + (IF Pair(buf, First(1)) THEN 2 ELSE 1)
    BY <2>1, <2>3, NextLine
  <2>5. From[1] \in First(1) .. N
    BY <1>2, <1>14, <1>16, <2>1, <2>4 DEF Pair
  <2> QED
    BY <1>1, <1>2, <2>1, <2>5
<1> QED
  BY <1>15, <1>16

-----------------------------------------------------------------------------
(* The request line.                                                       *)

(* A request that text begins with, by the lengths of its words.           *)
Begins(text, m, k) ==
  /\ m + k + 2 <= Len(text)
  /\ text[m + 1] = SP /\ text[m + k + 2] = SP
  /\ \A i \in 1 .. m + k + 1 : text[i] = SP => i = m + 1
  /\ \A i \in 1 .. m + k + 1 : ~IsEnd(text[i])

Requested(text, m, k) ==
  [method |-> SubSeq(text, 1, m), path |-> SubSeq(text, m + 2, m + k + 1)]

LEMMA SubSequence ==
  ASSUME NEW s \in Seq(Nat), NEW i \in 1 .. Len(s) + 1, NEW j \in i - 1 .. Len(s)
  PROVE  /\ SubSeq(s, i, j) \in Seq(Nat)
         /\ Len(SubSeq(s, i, j)) = j - i + 1
         /\ \A n \in 1 .. j - i + 1 : SubSeq(s, i, j)[n] = s[i + n - 1]
  OBVIOUS

LEMMA SameSequence ==
  ASSUME NEW s \in Seq(Nat), NEW t \in Seq(Nat), Len(s) = Len(t),
         \A n \in 1 .. Len(s) : s[n] = t[n]
  PROVE  s = t
  OBVIOUS

LEMMA Concat ==
  ASSUME NEW s \in Seq(Nat), NEW t \in Seq(Nat)
  PROVE  /\ s \o t \in Seq(Nat)
         /\ Len(s \o t) = Len(s) + Len(t)
         /\ \A n \in 1 .. Len(s) : (s \o t)[n] = s[n]
         /\ \A n \in 1 .. Len(t) : (s \o t)[Len(s) + n] = t[n]
  OBVIOUS

(* The words of a request, without and with the space after them, and      *)
(* where they are in the text.                                             *)
WordsOf(method, path) == method \o << SP >> \o path
LineOf(method, path) == WordsOf(method, path) \o << SP >>

Laid(words, whole, method, path, m, k) ==
  /\ words \in Seq(Nat) /\ Len(words) = m + k + 1
  /\ \A n \in 1 .. m : words[n] = method[n]
  /\ words[m + 1] = SP
  /\ \A n \in 1 .. k : words[m + 1 + n] = path[n]
  /\ whole \in Seq(Nat) /\ Len(whole) = m + k + 2
  /\ \A n \in 1 .. m + k + 1 : whole[n] = words[n]
  /\ whole[m + k + 2] = SP

LEMMA WordsAre ==
  ASSUME NEW m \in Nat, NEW k \in Nat,
         NEW method \in Seq(Nat), NEW path \in Seq(Nat),
         Len(method) = m, Len(path) = k
  PROVE  Laid(WordsOf(method, path), LineOf(method, path), method, path, m, k)
<1> DEFINE space == << SP >>
           front == method \o space
           words == WordsOf(method, path)
           whole == LineOf(method, path)
<1>1. m \in Nat /\ k \in Nat /\ space \in Seq(Nat) /\ Len(space) = 1 /\ space[1] = SP
      /\ 1 \in 1 .. 1
  BY DEF SP
<1>2. words = front \o path /\ whole = words \o space
  BY DEF WordsOf, LineOf
<1> HIDE DEF space, words, whole
<1>3. /\ front \in Seq(Nat) /\ Len(front) = m + 1 /\ front[m + 1] = SP
      /\ \A n \in 1 .. m : front[n] = method[n]
  <2>1. /\ front \in Seq(Nat)
        /\ Len(front) = Len(method) + Len(space)
        /\ \A n \in 1 .. Len(method) : front[n] = method[n]
        /\ \A n \in 1 .. Len(space) : front[Len(method) + n] = space[n]
    BY <1>1, Concat, Zenon
  <2> HIDE DEF front
  <2> QED
    BY <1>1, <2>1
<1> HIDE DEF front
<1>4. /\ words \in Seq(Nat) /\ Len(words) = m + k + 1
      /\ \A n \in 1 .. m + 1 : words[n] = front[n]
      /\ \A n \in 1 .. k : words[m + 1 + n] = path[n]
  <2>1. /\ words \in Seq(Nat)
        /\ Len(words) = Len(front) + Len(path)
        /\ \A n \in 1 .. Len(front) : words[n] = front[n]
        /\ \A n \in 1 .. Len(path) : words[Len(front) + n] = path[n]
    <3>1. words = front \o path
      BY <1>2
    <3>2. /\ front \o path \in Seq(Nat)
          /\ Len(front \o path) = Len(front) + Len(path)
          /\ \A n \in 1 .. Len(front) : (front \o path)[n] = front[n]
          /\ \A n \in 1 .. Len(path) : (front \o path)[Len(front) + n] = path[n]
      BY <1>3, Concat, Zenon
    <3> QED
      BY <3>1, <3>2, Zenon
  <2>2. Len(words) = m + 1 + k
    BY <1>3, <2>1
  <2>3. (\A n \in 1 .. m + 1 : words[n] = front[n]) /\ (\A n \in 1 .. k : words[m + 1 + n] = path[n])
    BY <1>3, <2>1, Zenon
  <2>4. Len(words) = m + k + 1
    BY <1>1, <2>2
  <2> QED
    BY <2>1, <2>3, <2>4, Zenon
<1>5. m + 1 \in 1 .. m + 1 /\ \A n \in 1 .. m : n \in 1 .. m + 1
  BY <1>1
<1>6. /\ whole \in Seq(Nat) /\ Len(whole) = m + k + 2
      /\ \A n \in 1 .. m + k + 1 : whole[n] = words[n]
      /\ whole[m + k + 2] = SP
  <2>1. /\ words \o space \in Seq(Nat)
        /\ Len(words \o space) = Len(words) + Len(space)
        /\ \A n \in 1 .. Len(words) : (words \o space)[n] = words[n]
        /\ \A n \in 1 .. Len(space) : (words \o space)[Len(words) + n] = space[n]
    BY <1>1, <1>4, Concat, Zenon
  <2>2. /\ whole \in Seq(Nat)
        /\ Len(whole) = Len(words) + Len(space)
        /\ \A n \in 1 .. Len(words) : whole[n] = words[n]
        /\ \A n \in 1 .. Len(space) : whole[Len(words) + n] = space[n]
    BY <1>2, <2>1, Zenon
  <2>3. Len(words) + 1 = m + k + 2 /\ Len(words) = m + k + 1 /\ 1 \in 1 .. Len(space)
    BY <1>1, <1>4
  <2>4. whole[m + k + 2] = SP
    BY <1>1, <2>2, <2>3
  <2> QED
    BY <1>1, <2>2, <2>3, <2>4
<1>7. (\A n \in 1 .. m : words[n] = method[n]) /\ words[m + 1] = SP
  BY <1>3, <1>4, <1>5
<1> QED
  <2>1. Laid(words, whole, method, path, m, k)
    BY <1>4, <1>6, <1>7, Zenon DEF Laid
  <2> QED
    BY <2>1 DEF words, whole

(* The stretch behind the first space, as long as the path.                *)
InsideOf(q, s, m, k) ==
  /\ q \in Seq(Nat) /\ Len(q) = k
  /\ \A n \in 1 .. k : q[n] = s[m + 1 + n]

LEMMA Inside ==
  ASSUME NEW s \in Seq(Nat), NEW m \in Nat, NEW k \in Nat, m + k + 2 <= Len(s)
  PROVE  InsideOf(SubSeq(s, m + 2, m + k + 1), s, m, k)
<1>1. m + 2 \in 1 .. Len(s) + 1 /\ m + k + 1 \in m + 2 - 1 .. Len(s) /\ m + k + 1 - (m + 2) + 1 = k
  OBVIOUS
<1>2. \A n \in 1 .. k : m + 2 + n - 1 = m + 1 + n
  OBVIOUS
<1> QED
  BY <1>1, <1>2, SubSequence DEF InsideOf

LEMMA RequestsBegin ==
  ASSUME NEW text \in Seq(Nat), NEW r \in Requests(text)
  PROVE  \E m, k \in 1 .. Len(text) : Begins(text, m, k) /\ r = Requested(text, m, k)
<1> DEFINE words == WordsOf(r.method, r.path)
           whole == LineOf(r.method, r.path)
           spaces == {i \in DOMAIN words : words[i] = SP}
           M == {SubSeq(text, 1, i) : i \in 1 .. Len(text)}
           P == {SubSeq(text, i, j) : i, j \in 1 .. Len(text)}
           Fits(q) ==
             /\ q.path # << >>
             /\ Len(text) > Len(WordsOf(q.method, q.path))
             /\ SubSeq(text, 1, Len(WordsOf(q.method, q.path)) + 1) = LineOf(q.method, q.path)
             /\ Cardinality({i \in DOMAIN WordsOf(q.method, q.path) :
                               WordsOf(q.method, q.path)[i] = SP}) = 1
             /\ \A i \in DOMAIN WordsOf(q.method, q.path) : ~IsEnd(WordsOf(q.method, q.path)[i])
<1>set. Requests(text) = {q \in [method : M, path : P] : Fits(q)}
  BY DEF Requests, WordsOf, LineOf
<1>1. /\ r.method \in M /\ r.path \in P
      /\ r = [method |-> r.method, path |-> r.path]
      /\ r.path # << >>
      /\ Len(text) > Len(words)
      /\ SubSeq(text, 1, Len(words) + 1) = whole
      /\ Cardinality(spaces) = 1
      /\ \A i \in DOMAIN words : ~IsEnd(words[i])
  <2>1. Fits(r) => /\ r.path # << >>
                   /\ Len(text) > Len(words)
                   /\ SubSeq(text, 1, Len(words) + 1) = whole
                   /\ Cardinality(spaces) = 1
                   /\ \A i \in DOMAIN words : ~IsEnd(words[i])
    OBVIOUS
  <2> HIDE DEF M, P, Fits, words, whole, spaces
  <2>2. r \in [method : M, path : P] /\ Fits(r)
    BY <1>set
  <2> QED
    BY <2>1, <2>2
<1> HIDE DEF words, whole
<1>2. Len(text) \in Nat
  OBVIOUS
<1>3. PICK m \in 1 .. Len(text) : r.method = SubSeq(text, 1, m)
  BY <1>1
<1> HIDE DEF M
<1>4. r.method \in Seq(Nat) /\ Len(r.method) = m
  BY <1>2, <1>3, SubSequence
<1>5. PICK i \in 1 .. Len(text), j \in 1 .. Len(text) : r.path = SubSeq(text, i, j)
  BY <1>1
<1> HIDE DEF P
<1>6. r.path \in Seq(Nat) /\ Len(r.path) \in 1 .. Len(text)
  <2>1. CASE j < i
    BY <1>1, <1>2, <1>5, <2>1
  <2>2. CASE j >= i
    BY <1>2, <1>5, <2>2, SubSequence
  <2> QED
    BY <2>1, <2>2
<1> DEFINE k == Len(r.path)
<1>7. k \in 1 .. Len(text)
  BY <1>6
<1>8. Laid(words, whole, r.method, r.path, m, k)
  <2> HIDE DEF k
  <2>1. Len(r.path) = k /\ k \in Nat /\ m \in Nat
    BY <1>7 DEF k
  <2> QED
    BY <1>4, <1>6, <2>1, WordsAre, Zenon DEF words, whole
<1> HIDE DEF k
<1>lengths. words \in Seq(Nat) /\ Len(words) = m + k + 1 /\ whole \in Seq(Nat) /\ Len(whole) = m + k + 2
  BY <1>8 DEF Laid
<1>inMethod. \A n \in 1 .. m : words[n] = r.method[n]
  BY <1>8, Zenon DEF Laid
<1>inPath. \A n \in 1 .. k : words[m + 1 + n] = r.path[n]
  BY <1>8, Zenon DEF Laid
<1>inWords. \A n \in 1 .. m + k + 1 : whole[n] = words[n]
  BY <1>8, Zenon DEF Laid
<1>spaces. words[m + 1] = SP /\ whole[m + k + 2] = SP
  BY <1>8 DEF Laid
<1>9. m + k + 2 <= Len(text) /\ SubSeq(text, 1, m + k + 2) = whole
  <2>1. Len(words) + 1 = m + k + 2 /\ Len(words) \in Nat
    BY <1>7, <1>lengths
  <2> QED
    BY <1>1, <1>2, <2>1
<1>10. \A n \in 1 .. m + k + 2 : text[n] = whole[n]
  BY <1>2, <1>7, <1>9, SubSequence
<1>11. \A n \in 1 .. m + k + 1 : text[n] = words[n]
  BY <1>7, <1>inWords, <1>10
<1>12. m + 1 \in 1 .. m + k + 1 /\ m + k + 2 \in 1 .. m + k + 2
  BY <1>7
<1>13. text[m + 1] = SP /\ text[m + k + 2] = SP
  BY <1>spaces, <1>10, <1>11, <1>12
<1>14. DOMAIN words = 1 .. m + k + 1
  BY <1>lengths
<1>15. \A n \in 1 .. m + k + 1 : ~IsEnd(text[n])
  BY <1>1, <1>11, <1>14
<1>16. \A n \in 1 .. m + k + 1 : text[n] = SP => n = m + 1
  <2>1. IsFiniteSet(spaces)
    <3>1. m + k + 1 \in Int
      BY <1>7
    <3>2. IsFiniteSet(1 .. m + k + 1)
      BY <3>1, FS_Interval
    <3> QED
      BY <1>14, <3>2, FS_Subset
  <2>2. PICK x : spaces = {x}
    BY <1>1, <2>1, FS_Singleton
  <2> QED
    BY <1>spaces, <1>11, <1>12, <1>14, <2>2, SMTT(60)
<1>17. r.path = SubSeq(text, m + 2, m + k + 1)
  <2> DEFINE s == SubSeq(text, m + 2, m + k + 1)
  <2>1. InsideOf(s, text, m, k)
    BY <1>7, <1>9, Inside
  <2> HIDE DEF s
  <2>2. s \in Seq(Nat) /\ Len(s) = k
    BY <2>1 DEF InsideOf
  <2>3. \A n \in 1 .. k : s[n] = r.path[n]
    <3> TAKE n \in 1 .. k
    <3>1. m + 1 + n \in 1 .. m + k + 1
      BY <1>7
    <3>2. s[n] = text[m + 1 + n]
      BY <2>1 DEF InsideOf
    <3> QED
      BY <1>inPath, <1>11, <3>1, <3>2
  <2>4. s = r.path
    BY <1>6, <2>2, <2>3, SameSequence DEF k
  <2> QED
    BY <2>4 DEF s
<1> QED
  BY <1>1, <1>3, <1>7, <1>9, <1>13, <1>15, <1>16, <1>17 DEF Begins, Requested

LEMMA BeginsRequests ==
  ASSUME NEW text \in Seq(Nat), NEW m \in 1 .. Len(text), NEW k \in 1 .. Len(text),
         Begins(text, m, k)
  PROVE  Requested(text, m, k) \in Requests(text)
<1> DEFINE r == Requested(text, m, k)
           words == WordsOf(r.method, r.path)
           whole == LineOf(r.method, r.path)
           spaces == {i \in DOMAIN words : words[i] = SP}
<1>1. Len(text) \in Nat /\ m + k + 2 <= Len(text)
  BY DEF Begins
<1>2. r.method = SubSeq(text, 1, m) /\ r.path = SubSeq(text, m + 2, m + k + 1)
  BY DEF Requested
<1>3. /\ r.method \in Seq(Nat) /\ Len(r.method) = m
      /\ \A n \in 1 .. m : r.method[n] = text[n]
  <2> DEFINE s == SubSeq(text, 1, m)
  <2>1. s \in Seq(Nat) /\ Len(s) = m /\ \A n \in 1 .. m : s[n] = text[n]
    BY <1>1, SubSequence
  <2>2. r.method = s
    BY <1>2
  <2> HIDE DEF s, r
  <2> QED
    BY <2>1, <2>2
<1>4. /\ r.path \in Seq(Nat) /\ Len(r.path) = k
      /\ \A n \in 1 .. k : r.path[n] = text[m + 1 + n]
  <2> DEFINE s == SubSeq(text, m + 2, m + k + 1)
  <2>1. /\ s \in Seq(Nat) /\ Len(s) = m + k + 1 - (m + 2) + 1
        /\ \A n \in 1 .. m + k + 1 - (m + 2) + 1 : s[n] = text[m + 2 + n - 1]
    BY <1>1, SubSequence
  <2>2. m + k + 1 - (m + 2) + 1 = k /\ \A n \in 1 .. k : m + 2 + n - 1 = m + 1 + n
    BY <1>1
  <2>3. r.path = s
    BY <1>2
  <2> HIDE DEF s, r
  <2> QED
    BY <2>1, <2>2, <2>3
<1> HIDE DEF r
<1>5. Laid(words, whole, r.method, r.path, m, k)
  <2>1. m \in Nat /\ k \in Nat
    OBVIOUS
  <2> QED
    BY <1>3, <1>4, <2>1, WordsAre, Zenon
<1> HIDE DEF words, whole
<1>lengths. words \in Seq(Nat) /\ Len(words) = m + k + 1 /\ whole \in Seq(Nat) /\ Len(whole) = m + k + 2
  BY <1>5 DEF Laid
<1>inMethod. \A n \in 1 .. m : words[n] = r.method[n]
  BY <1>5, Zenon DEF Laid
<1>inPath. \A n \in 1 .. k : words[m + 1 + n] = r.path[n]
  BY <1>5, Zenon DEF Laid
<1>inWords. \A n \in 1 .. m + k + 1 : whole[n] = words[n]
  BY <1>5, Zenon DEF Laid
<1>spaces. words[m + 1] = SP /\ whole[m + k + 2] = SP
  BY <1>5 DEF Laid
<1>6. \A n \in 1 .. m + k + 1 : words[n] = text[n]
  <2> TAKE n \in 1 .. m + k + 1
  <2>1. CASE n <= m
    BY <1>3, <1>inMethod, <2>1
  <2>2. CASE n = m + 1
    BY <1>spaces, <2>2 DEF Begins
  <2>3. CASE n > m + 1
    <3>1. n - (m + 1) \in 1 .. k /\ m + 1 + (n - (m + 1)) = n
      BY <1>1, <2>3
    <3> QED
      BY <1>4, <1>inPath, <3>1
  <2> QED
    BY <1>1, <2>1, <2>2, <2>3
<1>7. SubSeq(text, 1, m + k + 2) = whole
  <2> DEFINE s == SubSeq(text, 1, m + k + 2)
  <2>1. s \in Seq(Nat) /\ Len(s) = m + k + 2 /\ \A n \in 1 .. m + k + 2 : s[n] = text[n]
    BY <1>1, SubSequence
  <2>2. \A n \in 1 .. m + k + 2 : n \in 1 .. m + k + 1 \/ n = m + k + 2
    BY <1>1
  <2>3. \A n \in 1 .. m + k + 2 : s[n] = whole[n]
    BY <1>inWords, <1>spaces, <1>6, <2>1, <2>2 DEF Begins
  <2> HIDE DEF s
  <2>4. s = whole
    BY <1>lengths, <2>1, <2>3, SameSequence
  <2> QED
    BY <2>4 DEF s
<1>8. DOMAIN words = 1 .. m + k + 1 /\ m + 1 \in 1 .. m + k + 1
  BY <1>1, <1>lengths
<1>9. spaces = {m + 1}
  BY <1>spaces, <1>6, <1>8 DEF Begins
<1>10. Cardinality(spaces) = 1
  BY <1>9, FS_Singleton
<1>11. \A n \in DOMAIN words : ~IsEnd(words[n])
  BY <1>6, <1>8 DEF Begins
<1>12. r.path # << >>
  BY <1>4
<1> DEFINE M == {SubSeq(text, 1, i) : i \in 1 .. Len(text)}
           P == {SubSeq(text, i, j) : i, j \in 1 .. Len(text)}
           Fits(q) ==
             /\ q.path # << >>
             /\ Len(text) > Len(WordsOf(q.method, q.path))
             /\ SubSeq(text, 1, Len(WordsOf(q.method, q.path)) + 1) = LineOf(q.method, q.path)
             /\ Cardinality({i \in DOMAIN WordsOf(q.method, q.path) :
                               WordsOf(q.method, q.path)[i] = SP}) = 1
             /\ \A i \in DOMAIN WordsOf(q.method, q.path) : ~IsEnd(WordsOf(q.method, q.path)[i])
<1>13. r.method \in M /\ r.path \in P
  <2>1. m + 2 \in 1 .. Len(text) /\ m + k + 1 \in 1 .. Len(text)
    BY <1>1
  <2>2. \E i, j \in 1 .. Len(text) : r.path = SubSeq(text, i, j)
    BY <1>2, <2>1
  <2>3. r.path \in P
    <3> HIDE DEF r
    <3> QED
      BY <2>2
  <2> QED
    BY <1>2, <2>3
<1>14. r = [method |-> r.method, path |-> r.path]
  BY DEF r, Requested
<1>15. Len(text) > Len(words) /\ SubSeq(text, 1, Len(words) + 1) = whole
  <2>1. Len(words) + 1 = m + k + 2
    BY <1>1, <1>lengths
  <2>2. SubSeq(text, 1, Len(words) + 1) = whole
    BY <1>7, <2>1
  <2>3. Len(text) > Len(words)
    BY <1>1, <1>lengths
  <2> QED
    BY <2>2, <2>3
<1>16. Fits(r)
  BY <1>10, <1>11, <1>12, <1>15 DEF words, whole
<1>17. Requests(text) = {q \in [method : M, path : P] : Fits(q)}
  BY DEF Requests, WordsOf, LineOf
<1> HIDE DEF M, P, Fits
<1>18. r \in [method : M, path : P]
  BY <1>13, <1>14
<1>19. r \in Requests(text)
  BY <1>16, <1>17, <1>18
<1> QED
  BY <1>19 DEF r

(* Two beginnings of one text are the same.                                *)
LEMMA OneRequest ==
  ASSUME NEW text \in Seq(Nat), NEW m \in Nat, NEW k \in Nat, NEW first \in Nat,
         NEW second \in Nat, Begins(text, m, k), m >= 1, k >= 1,
         first >= 1, second > first,
         text[first] = SP, text[second] = SP,
         \A i \in 1 .. second - 1 : text[i] = SP => i = first
  PROVE  first = m + 1 /\ second = m + k + 2
<1>1. /\ text[m + 1] = SP /\ text[m + k + 2] = SP
      /\ \A i \in 1 .. m + k + 1 : text[i] = SP => i = m + 1
  BY DEF Begins
<1>2. first = m + 1
  <2>1. CASE m + 1 < second
    BY <1>1, <2>1
  <2>2. CASE second <= m + 1
    <3>1. first \in 1 .. m + k + 1
      BY <2>2
    <3> QED
      BY <1>1, <3>1
  <2> QED
    BY <2>1, <2>2
<1>3. second = m + k + 2
  <2>1. CASE second < m + k + 2
    <3>1. second \in 1 .. m + k + 1
      BY <2>1
    <3>2. second = m + 1
      BY <1>1, <3>1
    <3> QED
      BY <1>2, <3>2
  <2>2. CASE m + k + 2 < second
    <3>1. m + k + 2 \in 1 .. second - 1
      BY <2>2
    <3>2. m + k + 2 = first
      BY <1>1, <3>1
    <3> QED
      BY <1>2, <3>2
  <2> QED
    BY <2>1, <2>2
<1> QED
  BY <1>2, <1>3

(* What is read of the first line of a header is what it requests: one     *)
(* request at most, and the bytes behind the header play no part.          *)
LEMMA RequestLine ==
  ASSUME NEW text \in Seq(Nat), NEW h \in 1 .. Len(text),
         NEW x \in 1 .. h, IsEnd(text[x])
  PROVE  LET req == desi_parse_request_line(SubSeq(text, 1, h))
         IN  Requests(text) = IF req = BadRequest THEN {} ELSE {req}
<1> DEFINE buf == SubSeq(text, 1, h)
           e == EndOf(buf, 1)
           line == SubSeq(buf, 1, e - 1)
           spaces == {i \in 1 .. Len(line) : line[i] = SP}
           first == CHOOSE i \in spaces : \A j \in spaces : i <= j
           later == spaces \ {first}
           second == CHOOSE i \in later : \A j \in later : i <= j
           parsed == [method |-> SubSeq(line, 1, first - 1),
                      path |-> SubSeq(line, first + 1, second - 1)]
           req == desi_parse_request_line(buf)
<1>1. req = IF Cardinality(spaces) < 2 \/ first = 1 \/ second = first + 1 THEN BadRequest
            ELSE parsed
  BY DEF desi_parse_request_line, EndOf
<1>2. Len(text) \in Nat /\ h \in Nat /\ x \in Nat
  OBVIOUS
<1>3. buf \in Seq(Nat) /\ Len(buf) = h /\ \A i \in 1 .. h : buf[i] = text[i]
  BY <1>2, SubSequence
<1> HIDE DEF buf
<1>4. e \in 1 .. h /\ IsEnd(text[e]) /\ \A i \in 1 .. e - 1 : ~IsEnd(text[i])
  <2>1. 1 \in 1 .. Len(buf) + 1
    BY <1>2, <1>3
  <2>2. ~NoEnd(buf, 1, Len(buf))
    BY <1>2, <1>3 DEF NoEnd
  <2>3. e \in 1 .. Len(buf) /\ IsEnd(buf[e]) /\ NoEnd(buf, 1, e - 1)
    BY <1>3, <2>1, <2>2, NextLine
  <2> HIDE DEF e
  <2> QED
    BY <1>2, <1>3, <2>3 DEF NoEnd
<1> HIDE DEF e
<1>5. line \in Seq(Nat) /\ Len(line) = e - 1 /\ \A i \in 1 .. e - 1 : line[i] = text[i]
  <2>1. 1 \in 1 .. Len(buf) + 1 /\ e - 1 \in 1 - 1 .. Len(buf)
    BY <1>2, <1>3, <1>4
  <2>2. /\ line \in Seq(Nat) /\ Len(line) = e - 1 - 1 + 1
        /\ \A n \in 1 .. e - 1 - 1 + 1 : line[n] = buf[1 + n - 1]
    BY <1>3, <2>1, SubSequence
  <2>3. e - 1 - 1 + 1 = e - 1
    BY <1>4
  <2>4. \A n \in 1 .. e - 1 : 1 + n - 1 = n /\ n \in 1 .. h
    BY <1>2, <1>4
  <2> HIDE DEF line
  <2> QED
    BY <1>3, <2>2, <2>3, <2>4
<1>6. ASSUME NEW i \in 1 .. Len(text), NEW j \in i - 1 .. e - 1
      PROVE  SubSeq(line, i, j) = SubSeq(text, i, j)
  <2>1. i \in 1 .. Len(line) + 1 \/ i > e
    BY <1>2, <1>4, <1>5
  <2>2. i <= e
    BY <1>2, <1>4
  <2> DEFINE s == SubSeq(line, i, j)
             t == SubSeq(text, i, j)
  <2>3. /\ s \in Seq(Nat) /\ Len(s) = j - i + 1
        /\ \A n \in 1 .. j - i + 1 : s[n] = line[i + n - 1]
    BY <1>2, <1>4, <1>5, <2>1, <2>2, SubSequence
  <2>4. /\ t \in Seq(Nat) /\ Len(t) = j - i + 1
        /\ \A n \in 1 .. j - i + 1 : t[n] = text[i + n - 1]
    BY <1>2, <1>4, SubSequence
  <2>5. \A n \in 1 .. j - i + 1 : i + n - 1 \in 1 .. e - 1
    BY <1>2, <1>4
  <2> HIDE DEF s, t
  <2>6. \A n \in 1 .. j - i + 1 : s[n] = t[n]
    BY <1>5, <2>3, <2>4, <2>5
  <2>7. s = t
    BY <2>3, <2>4, <2>6, SameSequence
  <2> QED
    BY <2>7 DEF s, t
<1> HIDE DEF line
<1>7. /\ spaces = {i \in 1 .. e - 1 : text[i] = SP} /\ spaces \in SUBSET Nat
      /\ IsFiniteSet(spaces)
  <2>1. spaces = {i \in 1 .. e - 1 : text[i] = SP} /\ spaces \in SUBSET Nat
    BY <1>5
  <2>2. 1 \in Int /\ e - 1 \in Int
    BY <1>4
  <2>3. IsFiniteSet(1 .. e - 1)
    BY <2>2, FS_Interval
  <2> QED
    BY <2>1, <2>3, FS_Subset
<1> HIDE DEF spaces
<1>8. spaces # {} => first \in spaces /\ \A j \in spaces : first <= j
  BY <1>7, Least
<1> HIDE DEF first
<1>9. later \in SUBSET Nat
  BY <1>7
<1>10. later # {} => second \in later /\ \A j \in later : second <= j
  BY <1>9, Least
<1> HIDE DEF second
<1>11. Cardinality(spaces) >= 2 <=> (spaces # {} /\ later # {})
  <2>1. Cardinality(spaces) \in Nat /\ (Cardinality(spaces) = 0 <=> spaces = {})
    BY <1>7, FS_CardinalityType, FS_EmptySet
  <2>2. CASE spaces = {}
    BY <2>1, <2>2
  <2>3. CASE spaces # {}
    <3>1. first \in spaces
      BY <1>8, <2>3
    <3>2. Cardinality(spaces) = 1 <=> \E y : spaces = {y}
      BY <1>7, FS_Singleton
    <3>3. (\E y : spaces = {y}) <=> later = {}
      BY <3>1
    <3>4. Cardinality(spaces) = 1 <=> later = {}
      BY <3>2, <3>3, Zenon
    <3> HIDE DEF later
    <3> QED
      BY <2>1, <2>3, <3>4
  <2> QED
    BY <2>2, <2>3
<1>12. ASSUME NEW r \in Requests(text)
       PROVE  req = r /\ req # BadRequest
  <2>1. PICK m \in 1 .. Len(text), k \in 1 .. Len(text) :
          Begins(text, m, k) /\ r = Requested(text, m, k)
    BY RequestsBegin
  <2>2. /\ m + k + 2 <= Len(text) /\ text[m + 1] = SP /\ text[m + k + 2] = SP
        /\ \A i \in 1 .. m + k + 1 : ~IsEnd(text[i])
    BY <2>1 DEF Begins
  <2>3. ~IsEnd(SP)
    BY DEF IsEnd, SP, LF, CR
  <2>4. e > m + k + 2
    <3>1. e \notin 1 .. m + k + 1 /\ e # m + k + 2
      BY <1>4, <2>2, <2>3
    <3> QED
      BY <1>2, <1>4, <3>1
  <2>5. m + 1 \in spaces /\ m + k + 2 \in spaces /\ m + 1 # m + k + 2
    <3>1. m + 1 \in 1 .. e - 1 /\ m + k + 2 \in 1 .. e - 1 /\ m + 1 # m + k + 2
      BY <1>2, <1>4, <2>4
    <3> QED
      BY <1>7, <2>2, <3>1
  <2>6. spaces # {} /\ later # {}
    BY <2>5
  <2>7. /\ first \in Nat /\ second \in Nat /\ first >= 1 /\ second > first
        /\ text[first] = SP /\ text[second] = SP
        /\ \A i \in 1 .. second - 1 : text[i] = SP => i = first
    <3>1. first \in spaces /\ second \in spaces /\ second # first
      BY <1>8, <1>10, <2>6
    <3>2. first \in 1 .. e - 1 /\ second \in 1 .. e - 1 /\ text[first] = SP /\ text[second] = SP
      BY <1>7, <3>1
    <3>3. second > first
      BY <1>8, <2>6, <3>1, <3>2
    <3>4. ASSUME NEW i \in 1 .. second - 1, text[i] = SP, i # first PROVE FALSE
      <4>1. i \in spaces
        BY <1>4, <1>7, <3>2, <3>4
      <4>2. i \in later
        BY <3>4, <4>1
      <4> QED
        BY <1>10, <2>6, <3>2, <4>2
    <3> QED
      BY <1>4, <3>2, <3>3, <3>4
  <2>8. first = m + 1 /\ second = m + k + 2
    <3>1. m \in Nat /\ k \in Nat /\ m >= 1 /\ k >= 1
      BY <1>2
    <3> HIDE DEF later
    <3> QED
      BY <2>1, <2>7, <3>1, OneRequest
  <2>9. req = parsed
    <3>1. ~(Cardinality(spaces) < 2)
      BY <1>7, <1>11, <2>6, FS_CardinalityType
    <3>2. first # 1 /\ second # first + 1
      BY <1>2, <2>8
    <3> HIDE DEF req, parsed
    <3> QED
      BY <1>1, <3>1, <3>2
  <2>10. SubSeq(line, 1, first - 1) = SubSeq(text, 1, m)
    <3>1. 1 \in 1 .. Len(text) /\ m \in 1 - 1 .. e - 1 /\ first - 1 = m
      BY <1>2, <1>4, <2>4, <2>8
    <3> QED
      BY <1>6, <3>1
  <2>11. SubSeq(line, first + 1, second - 1) = SubSeq(text, m + 2, m + k + 1)
    <3>1. /\ m + 2 \in 1 .. Len(text) /\ m + k + 1 \in m + 2 - 1 .. e - 1
          /\ first + 1 = m + 2 /\ second - 1 = m + k + 1
      BY <1>2, <1>4, <2>2, <2>4, <2>8
    <3>2. SubSeq(line, m + 2, m + k + 1) = SubSeq(text, m + 2, m + k + 1)
      BY <1>6, <3>1
    <3> QED
      BY <3>1, <3>2
  <2>12. parsed = Requested(text, m, k)
    BY <2>10, <2>11 DEF Requested
  <2>13. r.method # << >>
    <3>1. r.method = SubSeq(text, 1, m)
      BY <2>1 DEF Requested
    <3>2. 1 \in 1 .. Len(text) + 1 /\ m \in 1 - 1 .. Len(text) /\ m \in Nat /\ m # 0
      BY <1>2
    <3>3. Len(SubSeq(text, 1, m)) = m - 1 + 1
      BY <3>2, SubSequence
    <3>4. Len(r.method) = m
      BY <3>1, <3>2, <3>3
    <3>5. Len(<< >>) = 0
      OBVIOUS
    <3> QED
      BY <3>2, <3>4, <3>5
  <2> HIDE DEF req, parsed
  <2> QED
    BY <2>1, <2>9, <2>12, <2>13 DEF BadRequest
<1>13. ASSUME req # BadRequest
       PROVE  req \in Requests(text)
  <2>1. /\ ~(Cardinality(spaces) < 2) /\ first # 1 /\ second # first + 1
        /\ req = parsed
    <3> HIDE DEF req, parsed
    <3> QED
      BY <1>1, <1>13
  <2>2. spaces # {} /\ later # {}
    <3> HIDE DEF later
    <3> QED
      BY <1>7, <1>11, <2>1, FS_CardinalityType
  <2>3. first \in spaces /\ second \in later /\ second \in spaces /\ second # first
    BY <1>8, <1>10, <2>2
  <2>4. first \in 1 .. e - 1 /\ second \in 1 .. e - 1 /\ text[first] = SP /\ text[second] = SP
    BY <1>7, <2>3
  <2>5. first < second
    BY <1>8, <2>2, <2>3, <2>4
  <2> DEFINE m == first - 1
             k == second - first - 1
  <2>6. /\ m \in 1 .. Len(text) /\ k \in 1 .. Len(text)
        /\ m + 1 = first /\ m + k + 2 = second /\ second <= e - 1 /\ e <= Len(text)
    BY <1>2, <1>4, <2>1, <2>4, <2>5, SMTT(60)
  <2>7. Begins(text, m, k)
    <3>1. ASSUME NEW i \in 1 .. m + k + 1
          PROVE  ~IsEnd(text[i]) /\ (text[i] = SP => i = m + 1)
      <4>1. i \in 1 .. e - 1 /\ i < second /\ i \in Nat
        BY <1>2, <1>4, <2>4, <2>6
      <4>2. ASSUME text[i] = SP, i # first PROVE FALSE
        <5>1. i \in later
          BY <1>7, <4>1, <4>2
        <5> QED
          BY <1>10, <2>2, <2>4, <4>1, <5>1
      <4> QED
        BY <1>4, <2>6, <4>1, <4>2
    <3>2. m + k + 2 <= Len(text) /\ text[m + 1] = SP /\ text[m + k + 2] = SP
      BY <1>2, <1>4, <2>4, <2>6
    <3> HIDE DEF m, k
    <3> QED
      BY <3>1, <3>2 DEF Begins
  <2>8. SubSeq(line, 1, first - 1) = SubSeq(text, 1, m)
    <3>1. 1 \in 1 .. Len(text) /\ m \in 1 - 1 .. e - 1
      BY <1>2, <1>4, <2>4, <2>6
    <3> QED
      BY <1>6, <3>1
  <2>9. SubSeq(line, first + 1, second - 1) = SubSeq(text, m + 2, m + k + 1)
    <3>1. /\ m + 2 \in 1 .. Len(text) /\ m + k + 1 \in m + 2 - 1 .. e - 1
          /\ first + 1 = m + 2 /\ second - 1 = m + k + 1
      BY <1>2, <1>4, <2>4, <2>5, <2>6
    <3> HIDE DEF m, k
    <3> DEFINE i == m + 2
               j == m + k + 1
    <3>2. i \in 1 .. Len(text) /\ j \in i - 1 .. e - 1
      BY <1>2, <1>4, <2>6, <3>1
    <3> HIDE DEF i, j
    <3>3. SubSeq(line, i, j) = SubSeq(text, i, j)
      BY <1>6, <3>2
    <3> QED
      BY <3>1, <3>3 DEF i, j
  <2>10. parsed = Requested(text, m, k)
    BY <2>8, <2>9 DEF Requested
  <2> HIDE DEF m, k, parsed, req
  <2> QED
    BY <2>1, <2>6, <2>7, <2>10, BeginsRequests
<1> HIDE DEF req
<1>14. Requests(text) = IF req = BadRequest THEN {} ELSE {req}
  BY <1>12, <1>13
<1> QED
  BY <1>14 DEF req, buf

-----------------------------------------------------------------------------
(* What the server makes of the bytes it has read is what is due for all   *)
(* that was sent.                                                          *)
LEMMA DecisionIsDue ==
  ASSUME TypeOK, NEW p \in Peers, Decided(p)
  PROVE  Answered(sent[p]) /\ Decision(p) = Due(sent[p])
<1> DEFINE text == sent[p]
           n == len[p]
           buf == Buf(p)
           h == desi_find_header_end(buf)
<1>1. /\ text \in Seq(Nat) /\ Len(text) \in Nat /\ Cap \in Nat /\ n \in Nat
      /\ n <= Len(text) /\ n <= Cap
  BY CapAssumption DEF TypeOK, SmallerOf
<1>2. buf \in Seq(Nat) /\ Len(buf) = n /\ \A i \in 1 .. n : buf[i] = text[i]
  BY <1>1, SubSequence DEF Buf
<1> HIDE DEF text, n, buf
<1>3. \A i \in 1 .. n : EndsEmptyLine(buf, i) <=> EndsEmptyLine(text, i)
  <2> TAKE i \in 1 .. n
  <2>1. buf[i] = text[i] /\ (i > 1 => i - 1 \in 1 .. n /\ buf[i - 1] = text[i - 1])
    BY <1>1, <1>2
  <2> QED
    BY <1>1, <2>1 DEF EndsEmptyLine
<1>4. /\ h \in 0 .. n
      /\ h = 0 => \A i \in 1 .. n : ~EndsEmptyLine(buf, i)
      /\ h # 0 => \E i \in 1 .. h : EndsEmptyLine(buf, i)
  BY <1>2, HeaderEnd
<1>5. HeaderOpen(p) <=> h = 0
  BY DEF HeaderOpen, buf
<1> HIDE DEF h
<1>6. CASE HeaderOpen(p)
  <2>1. n = Cap
    BY <1>6 DEF Decided, n
  <2>2. SmallerOf(Len(text), Cap) = n
    BY <1>1, <2>1 DEF SmallerOf
  <2>3. ~HasHeader(text)
    BY <1>3, <1>4, <1>5, <1>6, <2>2 DEF HasHeader
  <2>4. Len(text) >= Cap
    BY <1>1, <2>1
  <2> QED
    BY <1>6, <2>3, <2>4 DEF Answered, Decision, Due, text
<1>7. CASE ~HeaderOpen(p)
  <2>1. h \in 1 .. n /\ h \in 1 .. Len(text) /\ h \in Nat
    BY <1>1, <1>4, <1>5, <1>7
  <2>2. PICK x \in 1 .. h : EndsEmptyLine(buf, x)
    BY <1>4, <2>1
  <2>3. x \in 1 .. n /\ EndsEmptyLine(text, x) /\ x \in 1 .. SmallerOf(Len(text), Cap)
    BY <1>1, <1>3, <2>1, <2>2 DEF SmallerOf
  <2>4. HasHeader(text) /\ IsEnd(text[x])
    BY <2>3 DEF HasHeader, EndsEmptyLine
  <2> DEFINE req == desi_parse_request_line(SubSeq(text, 1, h))
  <2>5. Requests(text) = IF req = BadRequest THEN {} ELSE {req}
    BY <1>1, <2>1, <2>4, RequestLine
  <2>6. SubSeq(buf, 1, h) = SubSeq(text, 1, h)
    <3> DEFINE s == SubSeq(buf, 1, h)
               t == SubSeq(text, 1, h)
    <3>1. s \in Seq(Nat) /\ Len(s) = h /\ \A i \in 1 .. h : s[i] = buf[i]
      BY <1>1, <1>2, <2>1, SubSequence
    <3>2. t \in Seq(Nat) /\ Len(t) = h /\ \A i \in 1 .. h : t[i] = text[i]
      BY <1>1, <2>1, SubSequence
    <3>3. \A i \in 1 .. h : i \in 1 .. n
      BY <1>1, <2>1
    <3> HIDE DEF s, t
    <3>4. s = t
      BY <1>2, <3>1, <3>2, <3>3, SameSequence
    <3> QED
      BY <3>4 DEF s, t
  <2>7. Decision(p) = Answer(req)
    BY <1>7, <2>6 DEF Decision, buf, h
  <2> HIDE DEF req
  <2>8. Due(text) = IF Requests(text) = {} THEN Malformed
                    ELSE Answer(CHOOSE r \in Requests(text) : TRUE)
    BY <2>4 DEF Due
  <2>9. CASE req = BadRequest
    BY <2>4, <2>5, <2>7, <2>8, <2>9 DEF Answered, Answer, text
  <2>10. CASE req # BadRequest
    <3>1. Requests(text) = {req} /\ Requests(text) # {}
      BY <2>5, <2>10
    <3>2. (CHOOSE r \in Requests(text) : TRUE) = req
      BY <3>1
    <3> QED
      BY <2>4, <2>7, <2>8, <3>1, <3>2 DEF Answered, text
  <2> QED
    BY <2>9, <2>10
<1> QED
  BY <1>6, <1>7

-----------------------------------------------------------------------------
(* What has reached a peer, the one that is gone and the one whose         *)
(* connection was reset too, is a part of the answer to what was read.     *)

Begun(p) ==
  got[p] # << >> =>
    /\ Decided(p)
    /\ Len(got[p]) <= Len(Units(Decision(p)))
    /\ got[p] = SubSeq(Units(Decision(p)), 1, Len(got[p]))

BegunInv == \A p \in Peers : Begun(p)

LEMMA FrontOfFront ==
  ASSUME NEW S, NEW u \in Seq(S), NEW g \in Seq(S), NEW n \in 0 .. Len(g),
         Len(g) <= Len(u), g = SubSeq(u, 1, Len(g))
  PROVE  /\ Len(SubSeq(g, 1, n)) = n /\ n <= Len(u)
         /\ SubSeq(g, 1, n) = SubSeq(u, 1, n)
<1> DEFINE a == SubSeq(g, 1, n)
           b == SubSeq(u, 1, n)
<1>1. Len(u) \in Nat /\ Len(g) \in Nat /\ n \in Nat /\ n <= Len(g)
  OBVIOUS
<1>2. \A i \in 1 .. Len(g) : g[i] = u[i]
  <2> DEFINE w == SubSeq(u, 1, Len(g))
  <2>1. \A i \in 1 .. Len(g) : w[i] = u[i]
    BY <1>1
  <2>2. g = w
    OBVIOUS
  <2> HIDE DEF w
  <2> QED
    BY <2>1, <2>2
<1>3. a \in Seq(S) /\ Len(a) = n /\ \A i \in 1 .. n : a[i] = g[i]
  BY <1>1
<1>4. b \in Seq(S) /\ Len(b) = n /\ \A i \in 1 .. n : b[i] = u[i]
  BY <1>1
<1> HIDE DEF a, b
<1>5. a = b
  BY <1>1, <1>2, <1>3, <1>4
<1> QED
  BY <1>1, <1>3, <1>5 DEF a, b

LEMMA UnitsItems == ASSUME Inv, NEW p PROVE Units(Decision(p)) \in Seq(Item)
<1>1. /\ desi_send_response(Decision(p)).header \in Seq(Item)
      /\ desi_send_response(Decision(p)).body \in Seq(Item)
  BY DecisionResponds, SendsItems
<1> QED
  BY <1>1 DEF Units

(* A step that takes away of what has reached p, or nothing.               *)
LEMMA NothingNew ==
  ASSUME NEW p \in Peers, Inv, Begun(p),
         Buf(p)' = Buf(p), UNCHANGED << handler, len[p] >>,
         NEW n \in 0 .. Len(got[p]), got'[p] = SubSeq(got[p], 1, n)
  PROVE  Begun(p)'
<1>1. Decided(p)' = Decided(p) /\ Decision(p)' = Decision(p)
  BY SameDecision
<1>2. Units(Decision(p))' = Units(Decision(p))
  BY <1>1
<1>3. got[p] \in Seq(Item)
  BY DEF Inv, TypeOK
<1> DEFINE u == Units(Decision(p))
<1>4. u \in Seq(Item)
  BY UnitsItems
<1> HIDE DEF u
<1>5. CASE got[p] = << >>
  BY <1>5 DEF Begun
<1>6. CASE got[p] # << >>
  <2>1. Decided(p) /\ Len(got[p]) <= Len(u) /\ got[p] = SubSeq(u, 1, Len(got[p]))
    BY <1>6 DEF Begun, u
  <2>2. /\ Len(SubSeq(got[p], 1, n)) = n /\ n <= Len(u)
        /\ SubSeq(got[p], 1, n) = SubSeq(u, 1, n)
    BY <1>3, <1>4, <2>1, FrontOfFront
  <2>3. Len(got'[p]) = n /\ got'[p] = SubSeq(u, 1, n)
    BY <2>2
  <2> QED
    BY <1>1, <1>2, <2>1, <2>2, <2>3 DEF Begun, u
<1> QED
  BY <1>5, <1>6

LEMMA FrontOfWhole ==
  ASSUME NEW S, NEW g \in Seq(S), NEW a \in Seq(S), NEW b \in Seq(S)
  PROVE  /\ Len(g) <= Len((g \o a) \o b)
         /\ g = SubSeq((g \o a) \o b, 1, Len(g))
<1>1. Len(g) \in 0 .. Len(g) /\ Len(a) \in Nat /\ Len(b) \in Nat
  OBVIOUS
<1>2. g \o a \in Seq(S) /\ Len(g \o a) = Len(g) + Len(a)
  OBVIOUS
<1>3. Len(g) \in 0 .. Len(g \o a)
  BY <1>1, <1>2
<1>4. Len((g \o a) \o b) = Len(g \o a) + Len(b)
  BY <1>2
<1>5. SubSeq((g \o a) \o b, 1, Len(g)) = SubSeq(g \o a, 1, Len(g))
  BY <1>2, <1>3, Prefix
<1>6. SubSeq(g \o a, 1, Len(g)) = SubSeq(g, 1, Len(g))
  BY <1>1, Prefix
<1>7. SubSeq(g, 1, Len(g)) = g
  BY <1>1, Split
<1>8. Len(g) <= Len((g \o a) \o b)
  BY <1>1, <1>2, <1>4
<1> QED
  BY <1>5, <1>6, <1>7, <1>8

LEMMA NothingChanged ==
  ASSUME NEW p \in Peers, Begun(p),
         Buf(p)' = Buf(p), UNCHANGED << handler, len[p], got[p] >>
  PROVE  Begun(p)'
<1>1. Decided(p)' = Decided(p) /\ Decision(p)' = Decision(p)
  BY SameDecision
<1>2. Units(Decision(p))' = Units(Decision(p))
  BY <1>1
<1> QED
  BY <1>1, <1>2 DEF Begun

LEMMA SendBegun ==
  ASSUME Inv, Inv', NEW p \in Peers, Begun(p), SendHeader(p) \/ SendBody(p)
  PROVE  Begun(p)'
<1> DEFINE part == IF server = "header" THEN "header" ELSE "body"
<1>1. /\ p \in serving /\ part \in {"header", "body"} /\ SendPart(p, part)
      /\ UNCHANGED << handler, serving, conn, peer, sent, len >>
      /\ server' \in {"header", "body", "closing"}
  BY DEF SendHeader, SendBody
<1>2. Buf(p)' = Buf(p) /\ conn'[p] = "served"
  BY <1>1, Served DEF Buf
<1>3. CASE peer[p] = "gone"
  <2>1. got'[p] = got[p]
    BY <1>1, <1>3 DEF SendPart, Inv, TypeOK
  <2> QED
    BY <1>1, <1>2, <2>1, NothingChanged
<1>4. CASE peer[p] # "gone"
  <2>1. Decision(p)' = Decision(p) /\ Decided(p)' = Decided(p) /\ Whole(p)' = Whole(p)
    BY <1>1, <1>2, SameDecision
  <2>2. Units(Decision(p))' = Units(Decision(p))
    BY <2>1
  <2> DEFINE u == Units(Decision(p))
  <2>3. u \in Seq(Item)
    BY UnitsItems
  <2>4. /\ got'[p] \in Seq(Item) /\ out'.header \in Seq(Item) /\ out'.body \in Seq(Item)
    BY DEF Inv, TypeOK
  <2>5. /\ (server' \in {"header", "body"} =>
              /\ Whole(p)'
              /\ (got'[p] \o out'.header) \o out'.body = Units(Decision(p))')
        /\ (server' = "closing" => Outcome(p)')
    BY <1>1, <1>2, <1>4 DEF Inv, Progress
  <2> HIDE DEF u
  <2>6. CASE server' \in {"header", "body"}
    <3>1. (got'[p] \o out'.header) \o out'.body = u /\ Decided(p)
      BY <2>1, <2>2, <2>5, <2>6 DEF Whole, u
    <3>2. Len(got'[p]) <= Len(u) /\ got'[p] = SubSeq(u, 1, Len(got'[p]))
      BY <2>4, <3>1, FrontOfWhole
    <3> QED
      BY <2>1, <2>2, <3>1, <3>2 DEF Begun, u
  <2>7. CASE server' = "closing"
    <3>1. IF Whole(p) THEN got'[p] = u ELSE got'[p] = << >>
      BY <2>1, <2>2, <2>5, <2>7 DEF Outcome, u
    <3>2. CASE Whole(p)
      <4>1. Decided(p) /\ got'[p] = u
        BY <3>1, <3>2 DEF Whole
      <4>2. Len(u) \in 0 .. Len(u)
        BY <2>3
      <4>3. SubSeq(u, 1, Len(u)) = u
        BY <2>3, <4>2, Split
      <4> QED
        BY <2>1, <2>2, <4>1, <4>2, <4>3 DEF Begun, u
    <3>3. CASE ~Whole(p)
      BY <3>1, <3>3 DEF Begun
    <3> QED
      BY <3>2, <3>3
  <2> QED
    BY <1>1, <2>6, <2>7
<1> QED
  BY <1>3, <1>4

LEMMA BegunNext == Inv /\ Inv' /\ BegunInv /\ [Next]_vars => BegunInv'
<1> SUFFICES ASSUME Inv, Inv', BegunInv, [Next]_vars, NEW p \in Peers PROVE Begun(p)'
  BY DEF BegunInv
<1>1. Begun(p)
  BY DEF BegunInv
<1>2. CASE UNCHANGED << handler, sent, len, got >>
  <2>1. Buf(p)' = Buf(p)
    BY <1>2 DEF Buf
  <2> QED
    BY <1>1, <1>2, <2>1, NothingChanged
<1>3. ASSUME NEW q \in Peers, Recv(q) PROVE Begun(p)'
  <2>1. UNCHANGED << handler, sent, got >> /\ q \in serving /\ server = "reading"
    BY <1>3 DEF Recv
  <2>2. CASE q = p
    <3>1. got[p] = << >>
      BY <2>1, <2>2, Served DEF Inv, Progress
    <3> QED
      BY <2>1, <3>1 DEF Begun
  <2>3. CASE q # p
    <3>1. len'[p] = len[p]
      BY <1>3, <2>3 DEF Recv, Inv, TypeOK
    <3>2. Buf(p)' = Buf(p)
      BY <2>1, <3>1 DEF Buf
    <3> QED
      BY <1>1, <2>1, <3>1, <3>2, NothingChanged
  <2> QED
    BY <2>2, <2>3
<1>4. ASSUME NEW q \in Peers, SendHeader(q) \/ SendBody(q) PROVE Begun(p)'
  <2>1. CASE q = p
    BY <1>1, <1>4, <2>1, SendBegun
  <2>2. CASE q # p
    <3>1. UNCHANGED << handler, sent, len >> /\ got'[p] = got[p]
      BY <1>4, <2>2 DEF SendHeader, SendBody, SendPart, Inv, TypeOK
    <3>2. Buf(p)' = Buf(p)
      BY <3>1 DEF Buf
    <3> QED
      BY <1>1, <3>1, <3>2, NothingChanged
  <2> QED
    BY <2>1, <2>2
<1>5. ASSUME NEW q \in Peers, Close(q) PROVE Begun(p)'
  <2>1. UNCHANGED << handler, sent, len >>
    BY <1>5 DEF Close
  <2>2. Buf(p)' = Buf(p)
    BY <2>1 DEF Buf
  <2>3. PICK n \in (IF Unread(q) = 0 THEN {Len(got[q])} ELSE 0 .. Len(got[q])) :
          got' = [got EXCEPT ![q] = SubSeq(@, 1, n)]
    BY <1>5 DEF Close
  <2>4. got \in [Peers -> Seq(Item)]
    BY DEF Inv, TypeOK
  <2>5. CASE q = p
    <3>1. n \in 0 .. Len(got[p]) /\ got'[p] = SubSeq(got[p], 1, n)
      BY <2>3, <2>4, <2>5
    <3> QED
      BY <1>1, <2>1, <2>2, <3>1, NothingNew
  <2>6. CASE q # p
    <3>1. got'[p] = got[p]
      BY <2>3, <2>4, <2>6
    <3> QED
      BY <1>1, <2>1, <2>2, <3>1, NothingChanged
  <2> QED
    BY <2>5, <2>6
<1>6. ASSUME NEW q \in Peers, Send(q) PROVE Begun(p)'
  <2>1. UNCHANGED << handler, len, got >>
    BY <1>6 DEF Send
  <2>2. PICK piece \in Pieces[handler][q] : sent' = [sent EXCEPT ![q] = @ \o piece]
    BY <1>6 DEF Send
  <2>3. piece \in Seq(Nat) /\ sent \in [Peers -> Seq(Nat)]
    BY PiecesAssumption, SMTT(60) DEF Inv, TypeOK
  <2>4. Buf(p)' = Buf(p)
    <3>1. CASE q = p
      <4>1. len[p] \in 0 .. Len(sent[p])
        BY <2>3, CapAssumption, SMTT(60) DEF Inv, TypeOK, SmallerOf
      <4>2. sent'[p] = sent[p] \o piece
        BY <2>2, <2>3, <3>1
      <4>3. SubSeq(sent[p] \o piece, 1, len[p]) = SubSeq(sent[p], 1, len[p])
        BY <2>3, <4>1, Prefix
      <4> QED
        BY <2>1, <4>2, <4>3 DEF Buf
    <3>2. CASE q # p
      BY <2>1, <2>2, <2>3, <3>2 DEF Buf
    <3> QED
      BY <3>1, <3>2
  <2> QED
    BY <1>1, <2>1, <2>4, NothingChanged
<1>7. CASE Listen \/ ListenFails \/ Accept \/ AcceptFails \/ UNCHANGED vars
  BY <1>2, <1>7 DEF Listen, ListenFails, Accept, AcceptFails, vars
<1>8. ASSUME NEW q \in Peers,
             \/ RecvEnds(q) \/ RequestTooLarge(q) \/ Handle(q) \/ SendFails(q)
             \/ Connect(q) \/ Finish(q) \/ GoAway(q)
      PROVE  Begun(p)'
  BY <1>2, <1>8 DEF RecvEnds, RequestTooLarge, Handle, SendFails, Connect, Finish, GoAway
<1> QED
  BY <1>3, <1>4, <1>5, <1>6, <1>7, <1>8 DEF Next, ServerStep

(* What has reached a peer is the beginning of the answer that is due for  *)
(* the bytes it has sent, wherever they and the answer were cut, also when *)
(* the peer is gone or its connection was reset (desi_find_header_end,     *)
(* desi_parse_request_line, desi_handle_client).                           *)
THEOREM AnswersAreDue == Spec => []AnswersAreTheRequests
<1>1. Init => BegunInv
  BY DEF Init, BegunInv, Begun
<1>2. Inv /\ BegunInv => AnswersAreTheRequests
  <2> SUFFICES ASSUME Inv, BegunInv, NEW p \in Peers, got[p] # << >>
               PROVE  /\ Answered(sent[p])
                      /\ LET due == Units(Due(sent[p]))
                         IN Len(got[p]) <= Len(due) /\ got[p] = SubSeq(due, 1, Len(got[p]))
    BY DEF AnswersAreTheRequests
  <2>1. /\ Decided(p) /\ Len(got[p]) <= Len(Units(Decision(p)))
        /\ got[p] = SubSeq(Units(Decision(p)), 1, Len(got[p]))
    BY DEF BegunInv, Begun
  <2>2. Answered(sent[p]) /\ Decision(p) = Due(sent[p])
    BY <2>1, DecisionIsDue DEF Inv
  <2> QED
    BY <2>1, <2>2
<1> QED
  BY <1>1, <1>2, BegunNext, Invariance, PTL DEF Spec
=============================================================================
