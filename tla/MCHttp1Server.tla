--------------------------- MODULE MCHttp1Server ----------------------------
(***************************************************************************)
(* mcpd is sent any mixture of words and line ends, the other handlers are *)
(* sent lines, and desid serves two peers, one of which sends a whole      *)
(* request at once.  A word is one byte: 71 is GET, 47 is /health.         *)
(***************************************************************************)
EXTENDS Http1Server, TLC

MCGet == << 71 >>
MCHealth == << 47 >>

Mixture == { << 71, SP, 47, SP >>, << 71, SP >>, << CR >>, << LF >> }
Lines == { << 71, SP, 47, SP >>, << 80, SP, 47, SP >>, << 71, SP, 80, SP >>,
           << 71, SP, SP >>, << CR, LF >>, << LF >> }
Few == { << 80, SP, 47, SP >>, << LF >> }
Whole == { << 71, SP, 47, SP, LF, LF >> }

MCPieces ==
  [h \in HandlerNames |->
     CASE h = "mcpd"  -> "any" :> Mixture @@ "whole" :> {}
       [] h = "desid" -> "any" :> Few @@ "whole" :> Whole
       [] OTHER       -> "any" :> Lines @@ "whole" :> {}]
=============================================================================
