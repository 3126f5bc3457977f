----------------------------- MODULE ClientConfig -----------------------------
(***************************************************************************)
(* What a client is configured with (src/src/llm.c) and what becomes of it *)
(* in a request: the headers given at its creation with the authorization  *)
(* header behind them, the model, the TLS and proxy settings, and their    *)
(* merging with the headers of one request.  Every allocation may fail:    *)
(* creation and set_tls_config, which make several copies, are one step    *)
(* for each of them.                                                       *)
(*                                                                         *)
(* `wanted` is a history: what was asked for by the calls that succeeded.  *)
(***************************************************************************)
EXTENDS Integers, Sequences, SequencesExt

CONSTANTS
  Headers,        \* headers a caller gives
  ClientHeaders,  \* lists of headers given at creation
  RequestHeaders, \* lists of headers given to a request
  Keys,           \* API keys
  TlsConfigs,     \* llm_tls_config_t
  Texts           \* URLs, model names and lists of hosts

Null == "NULL"
Modes == {"DEFAULT", "ON", "OFF"}
PathFields == << "ca_bundle", "ca_dir", "client_cert", "client_key" >>  \* as copied
PathNames == {"ca_bundle", "ca_dir", "client_cert", "client_key"}
TextFields == {"base_url", "model", "proxy", "no_proxy"}

(* A header: names that differ in case or in the spaces before the colon   *)
(* only are one name in two spellings; "blank" has but spaces before the   *)
(* colon; "malformed" is NULL, has a line end in it, or begins with its    *)
(* colon or has none.                                                      *)
IsMalformed(h) == h.name = "malformed"
HasName(h) == h.name # "blank"
NoHeader == [name |-> "none", spelling |-> "", value |-> ""]
Authorization(key) == [name |-> "authorization", spelling |-> "Aa", value |-> key]
Slot == Headers \cup {NoHeader} \cup {Authorization(key) : key \in Keys}
ContentType == [name |-> "content-type", spelling |-> "Aa", value |-> "json"]

ASSUME HeadersAssumption ==
  /\ ClientHeaders \cup RequestHeaders \subseteq Seq(Headers)
  /\ NoHeader \notin Headers
  /\ Null \notin Keys
Paths == [PathNames -> {Null, ""} \cup Texts]
Tls(modes) == [path : Paths, password : BOOLEAN, peer : modes, host : modes, insecure : BOOLEAN]

ASSUME SettingsAssumption ==
  /\ Texts \cap {Null, ""} = {}
  /\ TlsConfigs \subseteq Tls(Modes)

NoPaths == [f \in PathNames |-> Null]
NoTexts == [f \in TextFields |-> Null]
DefaultTls == [path |-> NoPaths, password |-> FALSE,
               peer |-> TRUE, host |-> TRUE, insecure |-> FALSE]
NothingAsked == [path |-> NoPaths, password |-> FALSE,
                 peer |-> "DEFAULT", host |-> "DEFAULT", insecure |-> FALSE]
NoCall == [list |-> << >>, tls |-> NothingAsked, copies |-> NoPaths, next |-> 1]
NoRequest == [made |-> FALSE]

VARIABLES
  at,                 \* "none", "open", or what is being copied: "headers", "tls"
  call,               \* the arguments and locals of the call that copies
  headers,            \* the array client->headers, empty when it is NULL
  headersCount,
  customHeadersCount,
  authHeader,         \* what client->auth_header points to
  texts,              \* client->base_url, model.name, proxy_url, no_proxy
  tls,                \* client->tls_...
  allocated,          \* allocations made and not freed
  sent,               \* what the last step put on the wire
  wanted              \* history: what was asked for

slots == << headers, headersCount, customHeadersCount, authHeader >>
vars  == << at, call, slots, texts, tls, allocated, sent, wanted >>

FreshClient ==
  /\ headers = << >>
  /\ headersCount = 0
  /\ customHeadersCount = 0
  /\ authHeader = NoHeader
  /\ texts = NoTexts
  /\ tls = DefaultTls

NothingWanted == [headers |-> << >>, key |-> Null, texts |-> NoTexts, tls |-> NothingAsked]

Init ==
  /\ at = "none"
  /\ call = NoCall
  /\ FreshClient
  /\ allocated = 0
  /\ sent = NoRequest
  /\ wanted = NothingWanted

-----------------------------------------------------------------------------
(***************************************************************************)
(* Counting allocations: the texts and paths that are set, the array of    *)
(* headers, the headers of the client, and the authorization header.       *)
(***************************************************************************)

One(set) == IF set THEN 1 ELSE 0
TextsHeld == One(texts["base_url"] # Null) + One(texts["model"] # Null)
             + One(texts["proxy"] # Null) + One(texts["no_proxy"] # Null)
PathsHeld(path) == One(path["ca_bundle"] # Null) + One(path["ca_dir"] # Null)
                   + One(path["client_cert"] # Null) + One(path["client_key"] # Null)
HeadersHeld_ByTheirCount == One(headers # << >>) + headersCount
HeadersHeld == One(headers # << >>) + customHeadersCount

(* llm_client_destroy, for a client that is complete and for one that is   *)
(* not: frees what the client points to, and no more.                      *)
Freed == TextsHeld + PathsHeld(tls.path) + HeadersHeld + One(authHeader # NoHeader)

Destroyed ==
  /\ at' = "none"
  /\ call' = NoCall
  /\ headers' = << >> /\ headersCount' = 0 /\ customHeadersCount' = 0
  /\ authHeader' = NoHeader
  /\ texts' = NoTexts
  /\ tls' = DefaultTls
  /\ allocated' = allocated - Freed
  /\ sent' = NoRequest
  /\ wanted' = NothingWanted

Valid(list) == \A i \in DOMAIN list : ~IsMalformed(list[i])

(* llm_client_create_with_headers_opts up to the copies of the headers.    *)
(* The copies of the URL and of the model's name are not checked; headers  *)
(* that are malformed, or no memory for the array, end it.                 *)
CreateFails ==
  /\ at = "none"
  /\ sent' = NoRequest
  /\ UNCHANGED << at, call, slots, texts, tls, allocated, wanted >>

Create(list, base, model) ==
  /\ at = "none"
  /\ Valid(list)
  /\ at' = IF list = << >> THEN "open" ELSE "headers"
  /\ call' = [NoCall EXCEPT !.list = list]
  /\ headers' = IF list = << >> THEN << >> ELSE [i \in 1 .. Len(list) + 1 |-> NoHeader]
  /\ texts' = [NoTexts EXCEPT !["base_url"] = base, !["model"] = model]
  /\ allocated' = One(base # Null) + One(model # Null) + One(list # << >>)
  /\ sent' = NoRequest
  /\ wanted' = [NothingWanted EXCEPT !.texts = texts']
  /\ UNCHANGED << headersCount, customHeadersCount, authHeader, tls >>

(* The loop of llm_client_headers_init.                                    *)
CopyHeader ==
  /\ at = "headers"
  /\ headers' = [headers EXCEPT ![customHeadersCount + 1] = call.list[customHeadersCount + 1]]
  /\ customHeadersCount' = customHeadersCount + 1
  /\ headersCount' = headersCount + 1
  /\ allocated' = allocated + 1
  /\ IF customHeadersCount' = Len(call.list)
     THEN /\ at' = "open"
          /\ call' = NoCall
          /\ wanted' = [wanted EXCEPT !.headers = call.list]
     ELSE UNCHANGED << at, call, wanted >>
  /\ UNCHANGED << authHeader, texts, tls, sent >>

CopyHeaderFails == at = "headers" /\ Destroyed

Destroy == at = "open" /\ Destroyed

(* A setter that refuses its argument or gets no memory for its one copy.  *)
Refuses ==
  /\ at = "open"
  /\ sent' = NoRequest
  /\ UNCHANGED << at, call, slots, texts, tls, allocated, wanted >>

Accepts == at = "open" /\ sent' = NoRequest

-----------------------------------------------------------------------------
(***************************************************************************)
(* llm_client_set_api_key.                                                 *)
(***************************************************************************)

Behind == customHeadersCount + 1

Grown == IF Len(headers) < Behind
         THEN headers \o [i \in 1 .. Behind - Len(headers) |-> NoHeader]
         ELSE headers

SetApiKey(key) ==
  /\ Accepts
  /\ authHeader' = Authorization(key)
  /\ headers' = [Grown EXCEPT ![Behind] = authHeader']
  /\ headersCount' = Behind
  /\ allocated' = allocated + One(headers = << >>) + 1 - One(authHeader # NoHeader)
  /\ wanted' = [wanted EXCEPT !.key = key]
  /\ UNCHANGED << at, call, customHeadersCount, texts, tls >>

ClearSlot_StillCounted == UNCHANGED << headers, headersCount >>
ClearSlot ==
  IF headers # << >> /\ headersCount > customHeadersCount
  THEN /\ headers' = [headers EXCEPT ![Behind] = NoHeader]
       /\ headersCount' = customHeadersCount
  ELSE UNCHANGED << headers, headersCount >>

ClearApiKey ==
  /\ Accepts
  /\ authHeader' = NoHeader
  /\ ClearSlot
  /\ allocated' = allocated - One(authHeader # NoHeader)
  /\ wanted' = [wanted EXCEPT !.key = Null]
  /\ UNCHANGED << at, call, customHeadersCount, texts, tls >>

-----------------------------------------------------------------------------
(***************************************************************************)
(* llm_client_set_model, llm_client_set_proxy and llm_client_set_no_proxy. *)
(* The last two take NULL and the empty text for "none".                   *)
(***************************************************************************)

SetText(field, text) ==
  /\ Accepts
  /\ texts' = [texts EXCEPT ![field] = text]
  /\ allocated' = allocated + One(text # Null) - One(texts[field] # Null)
  /\ wanted' = [wanted EXCEPT !.texts[field] = text]
  /\ UNCHANGED << at, call, slots, tls >>

SetModel(name) == SetText("model", name)
SetProxy(text) == SetText("proxy", IF text = "" THEN Null ELSE text)
SetNoProxy(text) == SetText("no_proxy", IF text = "" THEN Null ELSE text)

-----------------------------------------------------------------------------
(***************************************************************************)
(* llm_client_set_tls_config: all copies first, then the client.           *)
(***************************************************************************)

BeginTls(t) ==
  /\ Accepts
  /\ at' = "tls"
  /\ call' = [NoCall EXCEPT !.tls = t]
  /\ UNCHANGED << slots, texts, tls, allocated, wanted >>

CopyPath ==
  /\ at = "tls"
  /\ call.next <= Len(PathFields)
  /\ LET f == PathFields[call.next]
     IN  /\ call' = [call EXCEPT !.copies[f] = call.tls.path[f], !.next = @ + 1]
         /\ allocated' = allocated + One(call.tls.path[f] # Null)
  /\ UNCHANGED << at, slots, texts, tls, sent, wanted >>

CopyPathFails ==
  /\ at = "tls"
  /\ call.next <= Len(PathFields)
  /\ call.tls.path[PathFields[call.next]] # Null
  /\ at' = "open"
  /\ call' = NoCall
  /\ allocated' = allocated - PathsHeld(call.copies)
  /\ UNCHANGED << slots, texts, tls, sent, wanted >>

VerifyOn_IfAsked(mode) == mode = "ON"
VerifyOn(mode) == mode # "OFF"

SetTlsConfig ==
  /\ at = "tls"
  /\ call.next > Len(PathFields)
  /\ at' = "open"
  /\ call' = NoCall
  /\ tls' = [path |-> call.copies, password |-> call.tls.password,
             peer |-> VerifyOn(call.tls.peer), host |-> VerifyOn(call.tls.host),
             insecure |-> call.tls.insecure]
  /\ allocated' = allocated - PathsHeld(tls.path)
  /\ wanted' = [wanted EXCEPT !.tls = call.tls]
  /\ UNCHANGED << slots, texts, sent >>

ClearTlsConfig ==
  /\ Accepts
  /\ tls' = DefaultTls
  /\ allocated' = allocated - PathsHeld(tls.path)
  /\ wanted' = [wanted EXCEPT !.tls = NothingAsked]
  /\ UNCHANGED << at, call, slots, texts >>

-----------------------------------------------------------------------------
(***************************************************************************)
(* A request: llm_header_set_init, append_headers and apply_tls_config.    *)
(***************************************************************************)

SameName_AsSpelled(a, b) == a.name = b.name /\ a.spelling = b.spelling
SameName(a, b) == a.name = b.name

Overridden(h, list) ==
  HasName(h) /\ \E i \in DOMAIN list : HasName(list[i]) /\ SameName(h, list[i])

(* Those of the sequence that are in the set, in their order.  (SelectSeq  *)
(* with a set for its test: the provers know no definition of SelectSeq.)  *)
Selected(s, set) ==
  LET selected[n \in 0 .. Len(s)] ==
        IF n = 0 THEN << >>
        ELSE IF s[n] \in set THEN Append(selected[n - 1], s[n])
        ELSE selected[n - 1]
  IN  selected[Len(s)]

Merged(list) ==
  IF headers = << >> THEN list
  ELSE Selected(SubSeq(headers, 1, headersCount), {h \in Slot : ~Overridden(h, list)}) \o list

(* What a POST starts with.  The content type is not one of the client's   *)
(* headers and is sent besides one that a request brings.                  *)
Appended(post, list) == (IF post THEN << ContentType >> ELSE << >>) \o Merged(list)

HasText(p) == p \notin {Null, ""}

(* A certificate store of the client replaces both of the system's.        *)
CaInfo(bundle, dir) ==
  IF HasText(bundle) THEN bundle ELSE IF HasText(dir) THEN Null ELSE "system"

CaPath(bundle, dir) ==
  IF HasText(dir) THEN dir ELSE IF HasText(bundle) THEN Null ELSE "system"

(* llm_client_tls_config, what the transport is given, and what becomes of *)
(* it there.                                                               *)
Mode(on) == IF on THEN "ON" ELSE "OFF"
TlsPassed == [tls EXCEPT !.peer = Mode(tls.peer), !.host = Mode(tls.host)]

TlsOptions(t) ==
  [verifyPeer |-> VerifyOn(t.peer) /\ ~t.insecure,
   verifyHost |-> VerifyOn(t.host) /\ ~t.insecure,
   caInfo     |-> CaInfo(t.path["ca_bundle"], t.path["ca_dir"]),
   caPath     |-> CaPath(t.path["ca_bundle"], t.path["ca_dir"]),
   cert       |-> t.path["client_cert"],
   key        |-> t.path["client_key"],
   password   |-> t.password]

(* Without memory curl_slist_append gives NULL for the list: it starts     *)
(* anew with the next header, and the request is made all the same.        *)
Request(post, list, lost) ==
  /\ at = "open"
  /\ Valid(list)
  /\ lost <= Len(Appended(post, list))
  /\ sent' = [made    |-> TRUE,
              post    |-> post,
              list    |-> list,
              lost    |-> lost,
              headers |-> SubSeq(Appended(post, list), lost + 1, Len(Appended(post, list))),
              options |-> TlsOptions(TlsPassed),
              texts   |-> texts]
  /\ UNCHANGED << at, call, slots, texts, tls, allocated, wanted >>

(* Malformed headers, no memory to merge them, or no password for the key. *)
RequestFails(list) ==
  /\ ~Valid(list) \/ (headersCount > 0 /\ list # << >>) \/ tls.password
  /\ Refuses

-----------------------------------------------------------------------------
Next ==
  \/ CreateFails
  \/ \E list \in ClientHeaders, base, model \in Texts \cup {Null} : Create(list, base, model)
  \/ CopyHeader \/ CopyHeaderFails
  \/ Destroy
  \/ Refuses
  \/ \E key \in Keys : SetApiKey(key)
  \/ ClearApiKey
  \/ \E text \in Texts : SetModel(text)
  \/ \E text \in Texts \cup {Null, ""} : SetProxy(text) \/ SetNoProxy(text)
  \/ \E t \in TlsConfigs : BeginTls(t)
  \/ CopyPath \/ CopyPathFails \/ SetTlsConfig
  \/ ClearTlsConfig
  \/ \E list \in RequestHeaders : RequestFails(list)
  \/ \E post \in BOOLEAN, list \in RequestHeaders :
       \E lost \in 0 .. 1 + headersCount + Len(list) : Request(post, list, lost)

Spec == Init /\ [][Next]_vars

-----------------------------------------------------------------------------
(***************************************************************************)
(* Properties.                                                             *)
(***************************************************************************)

(* The types, and the array is long enough for what is counted in it.      *)
TypeOK ==
  /\ at \in {"none", "headers", "open", "tls"}
  /\ call \in [list : ClientHeaders \cup {<< >>}, tls : TlsConfigs \cup {NothingAsked},
               copies : Paths, next : 1 .. Len(PathFields) + 1]
  /\ headers \in Seq(Slot)
  /\ customHeadersCount \in Nat
  /\ headersCount \in customHeadersCount .. Len(headers)
  /\ authHeader \in {NoHeader} \cup {Authorization(key) : key \in Keys}
  /\ texts \in [TextFields -> {Null} \cup Texts]
  /\ tls \in Tls(BOOLEAN)
  /\ allocated \in Nat
  /\ wanted \in [headers : ClientHeaders \cup {<< >>}, key : Keys \cup {Null},
                 texts : [TextFields -> {Null} \cup Texts],
                 tls : TlsConfigs \cup {NothingAsked}]

(* Every header a request would read from the client is alive: those of    *)
(* the creation are its own copies, and behind them is the authorization   *)
(* header of the last key set, if there is one, whatever keys were set and *)
(* cleared before and whichever of these calls failed.                     *)
HeadersAreLive ==
  at # "none" =>
    /\ headersCount = customHeadersCount + One(authHeader # NoHeader)
    /\ \A i \in 1 .. headersCount :
         headers[i] = IF i <= customHeadersCount
                      THEN (IF at = "headers" THEN call.list ELSE wanted.headers)[i]
                      ELSE authHeader

(* Nothing leaks and nothing is freed twice, although a call may fail at   *)
(* each of its copies: between calls destroying the client would free all  *)
(* there is, and when there is no client there is nothing.                 *)
AllocationsAreOwned == at \in {"none", "open"} => allocated = Freed

(* A request carries its own headers, last and in their order, and before  *)
(* them those of the client, the authorization header included, whose name *)
(* it does not use in any spelling; and what was set last, proxies and all.*)
(* URL and model are missing when their unchecked copies at creation were. *)
RequestsAreAsConfigured ==
  sent.made =>
    LET asked == wanted.headers
                 \o (IF wanted.key = Null THEN << >> ELSE << Authorization(wanted.key) >>)
        used  == {h.name : h \in {g \in Range(sent.list) : HasName(g)}}
        kept  == Selected(asked, {h \in Slot : h.name \notin used})
    IN  /\ sent.lost = 0 =>
             sent.headers = (IF sent.post THEN << ContentType >> ELSE << >>) \o kept \o sent.list
        /\ IsSuffix(sent.headers, << ContentType >> \o kept \o sent.list)
        /\ sent.texts = wanted.texts

(* A server is trusted without verification only when the caller asked for *)
(* just that, and the stores of the system are used exactly when the       *)
(* caller named none, also after a set_tls_config that failed half-way.    *)
TrustIsAsConfigured ==
  sent.made =>
    LET asked == wanted.tls
        own   == {f \in {"ca_bundle", "ca_dir"} : HasText(asked.path[f])}
        Used(f) == IF own = {} THEN "system" ELSE IF f \in own THEN asked.path[f] ELSE Null
    IN  sent.options =
          [verifyPeer |-> ~(asked.peer = "OFF" \/ asked.insecure),
           verifyHost |-> ~(asked.host = "OFF" \/ asked.insecure),
           caInfo     |-> Used("ca_bundle"),
           caPath     |-> Used("ca_dir"),
           cert       |-> asked.path["client_cert"],
           key        |-> asked.path["client_key"],
           password   |-> asked.password]
=============================================================================
