----------------------------- MODULE SseRoundTrip -----------------------------
(***************************************************************************)
(* The event stream writer and the parser at the two ends of a connection. *)
(* The server writes events and keepalives, the bytes travel in pieces of  *)
(* any length, and the client feeds each piece to its parser.              *)
(***************************************************************************)
EXTENDS SseReference, SseWriter

CONSTANTS
  Types, Datas,  \* what a server may write
  Pieces,        \* lengths of the pieces that arrive
  WriteBound     \* bound of the model: calls of the writer

ASSUME WireAssumption ==
  /\ Types \subseteq Seq(Byte)
  /\ Datas \subseteq Seq(Byte)
  /\ Pieces \subseteq Nat \ {0}
  /\ WriteBound \in Nat
  /\ WriterMaxLine \in Nat /\ WriterMaxFrame \in Nat /\ OutCap \in Nat

VARIABLES
  wire,     \* bytes written and not yet fed to the parser
  written,  \* history: the events the writer accepted
  writes    \* history: calls of the writer

wireVars == << wire, written, writes >>
allVars  == << vars, wireVars >>

WireInit ==
  /\ Init
  /\ wire = << >>
  /\ written = << >>
  /\ writes = 0

(* The server calls sse_write_event and sends what it produced.            *)
Write(type, payload) ==
  /\ writes < WriteBound
  /\ writes' = writes + 1
  /\ wire' = wire \o WriteEvent(type, payload)
  /\ written' = IF WriteError(type, payload) = "OK"
                THEN Append(written, [type |-> type, data |-> payload])
                ELSE written
  /\ UNCHANGED vars

Keepalive ==
  /\ writes < WriteBound
  /\ writes' = writes + 1
  /\ wire' = wire \o WriteKeepalive
  /\ UNCHANGED << written, vars >>

(* A piece of the stream arrives and is fed.                               *)
Receive(n) ==
  /\ wire # << >>
  /\ LET k == Smaller(n, Len(wire))
     IN  /\ FeedAccepted(SubSeq(wire, 1, k)) \/ FeedOverTotal(SubSeq(wire, 1, k))
         /\ wire' = SubSeq(wire, k + 1, Len(wire))
  /\ UNCHANGED << written, writes >>

Parse == Process /\ UNCHANGED wireVars

WireNext ==
  \/ \E type \in Types, d \in Datas : Write(type, d)
  \/ Keepalive
  \/ \E n \in Pieces : Receive(n)
  \/ Parse

WireSpec == WireInit /\ [][WireNext]_allVars

-----------------------------------------------------------------------------
(* What a reader makes of bytes that an LF ends.                           *)
Closed(s) == Front(Text[Append(s, LF)])

(* What the client should see of the events written.                       *)
Seen(w) == [type |-> IF w.type = << >> THEN Message ELSE Closed(w.type),
            data |-> Closed(w.data), id |-> << >>]

SeenAll == [i \in DOMAIN written |-> Seen(written[i])]

(* Every event the writer accepted, and nothing else, reaches on_event, in *)
(* order and unchanged: leading spaces, empty lines and embedded LFs       *)
(* survive, and keepalives are not events.                                 *)
RoundTrip ==
  Returned => /\ IsPrefix(events, SeenAll)
              /\ lastError = OK /\ wire = << >> => events = SeenAll

(* A writer and a parser with the same limits agree on them: what the      *)
(* writer accepts the parser does not refuse.  (Text that is not           *)
(* well-formed grows when it is decoded.)                                  *)
WellFormedText(s) == Text[s] = s

SameLimitsAgree ==
  (\A i \in DOMAIN written :
     WellFormedText(written[i].data) /\ WellFormedText(written[i].type))
    => lastError \notin {"OVERFLOW_LINE", "OVERFLOW_FRAME"}

=============================================================================
