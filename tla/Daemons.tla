------------------------------ MODULE Daemons -------------------------------
(***************************************************************************)
(* What the three daemons answer (src/daemons/desid/main.c, agentd/main.c  *)
(* and mcpd/main.c), and the ways in which a handler may break its         *)
(* contract with the server of src/internal/http1_server.c that the server *)
(* provides for.  A response is what a handler leaves in desi_http_resp_t: *)
(* its return code, status, content type and body.  The body is a          *)
(* sequence; NoBody is a body_len that is not 0 with a body that is NULL.  *)
(***************************************************************************)
EXTENDS Integers, Sequences

CONSTANTS
  Get,       \* the method "GET", a sequence of bytes
  Health     \* the path "/health", a sequence of bytes

Text(what) == << [text |-> what] >>
NoBody == Text("no body")

Response(rc, status, type, body) ==
  [rc |-> rc, status |-> status, type |-> type, body |-> body]

desid_handler(method, path) ==
  IF path # Health THEN Response(0, 404, "none", Text("Not Found"))
  ELSE IF method = Get THEN Response(0, 200, "none", Text("ok"))
  ELSE Response(0, 405, "none", << >>)

agentd_handler(method, path) ==
  IF path = Health THEN Response(0, 200, "none", Text("agent_ok"))
  ELSE Response(0, 404, "none", << >>)

mcpd_handler(method, path) ==
  IF path # Health THEN Response(0, 404, "none", << >>)
  ELSE IF method = Get THEN Response(0, 200, "none", Text("mcp_active"))
  ELSE Response(0, 405, "none", << >>)

(* Handlers the server must cope with: one that refuses after it has       *)
(* filled its response, one that does not fill it, one that announces a    *)
(* body it does not have, one whose content type fills the header.         *)
HandlerNames ==
  {"desid", "agentd", "mcpd", "refusing", "silent", "hollow", "verbose"}

Handler(name, method, path) ==
  CASE name = "desid"    -> desid_handler(method, path)
    [] name = "agentd"   -> agentd_handler(method, path)
    [] name = "mcpd"     -> mcpd_handler(method, path)
    [] name = "refusing" -> Response(-1, 200, "short", Text("half done"))
    [] name = "silent"   -> Response(0, 0, "none", << >>)
    [] name = "hollow"   -> Response(0, 200, "short", NoBody)
    [] name = "verbose"  -> Response(0, 200, "long", Text("ok"))
=============================================================================
