-------------------------- MODULE ClientConfigProofs --------------------------
(***************************************************************************)
(* For every header, key, path and text and every order of calls: the      *)
(* state of a client has its types, the headers it would send are alive,   *)
(* every allocation is owned once, a request trusts what the caller said   *)
(* it should, and it carries the headers and the settings asked for.       *)
(***************************************************************************)
EXTENDS ClientConfig, SequenceTheorems, WellFoundedInduction, TLAPS

-----------------------------------------------------------------------------
(***************************************************************************)
(* The headers.  During creation they are a beginning of the caller's      *)
(* list; the array has a place for the authorization header, or is NULL.   *)
(***************************************************************************)

Unconfigured ==
  /\ authHeader = NoHeader
  /\ tls = DefaultTls
  /\ wanted.headers = << >> /\ wanted.key = Null /\ wanted.tls = NothingAsked

HeadersInv ==
  /\ at = "none" => FreshClient
  /\ at \in {"none", "headers"} => Unconfigured
  /\ at = "headers" => /\ customHeadersCount < Len(call.list)
                       /\ Len(headers) = Len(call.list) + 1
  /\ at \in {"open", "tls"} =>
       /\ customHeadersCount = Len(wanted.headers)
       /\ authHeader = IF wanted.key = Null THEN NoHeader ELSE Authorization(wanted.key)
       /\ headers # << >> => Len(headers) >= customHeadersCount + 1

(* The copies of set_tls_config, the settings it replaces, and a request   *)
(* that can only be the last step of an open client.                       *)
TlsInv ==
  /\ at # "tls" => call.copies = NoPaths
  /\ at = "tls" => \A i \in 1 .. Len(PathFields) :
                     call.copies[PathFields[i]] =
                       IF i < call.next THEN call.tls.path[PathFields[i]] ELSE Null
  /\ tls = [path     |-> wanted.tls.path,
            password |-> wanted.tls.password,
            peer     |-> VerifyOn(wanted.tls.peer),
            host     |-> VerifyOn(wanted.tls.host),
            insecure |-> wanted.tls.insecure]
  /\ at # "open" => sent = NoRequest

Balance == allocated = Freed + PathsHeld(call.copies)

Inv == TypeOK /\ HeadersInv /\ HeadersAreLive /\ TlsInv /\ Balance

LEMMA Constants ==
  /\ NoPaths \in Paths
  /\ NoTexts \in [TextFields -> {Null} \cup Texts]
  /\ DefaultTls \in Tls(BOOLEAN)
  /\ NothingAsked \in Tls(Modes)
  /\ NoHeader \notin {Authorization(key) : key \in Keys}
<1>1. NoPaths \in Paths /\ NoTexts \in [TextFields -> {Null} \cup Texts]
  BY DEF NoPaths, Paths, NoTexts
<1>2. DefaultTls \in Tls(BOOLEAN)
  BY <1>1 DEF DefaultTls, Tls
<1>3. NothingAsked \in Tls(Modes)
  BY <1>1 DEF NothingAsked, Tls, Modes
<1>4. ASSUME NEW key \in Keys PROVE Authorization(key) # NoHeader
  <2>1. Authorization(key).name # NoHeader.name
    BY DEF Authorization, NoHeader
  <2> QED
    BY <2>1
<1> QED
  BY <1>1, <1>2, <1>3, <1>4

LEMMA DefaultIsStored ==
  DefaultTls = [path     |-> NothingAsked.path,
                password |-> NothingAsked.password,
                peer     |-> VerifyOn(NothingAsked.peer),
                host     |-> VerifyOn(NothingAsked.host),
                insecure |-> NothingAsked.insecure]
  BY DEF DefaultTls, NothingAsked, VerifyOn

LEMMA Fields ==
  /\ Len(PathFields) = 4
  /\ PathFields[1] = "ca_bundle" /\ PathFields[2] = "ca_dir"
  /\ PathFields[3] = "client_cert" /\ PathFields[4] = "client_key"
  /\ \A i \in 1 .. 4 : PathFields[i] \in PathNames
  BY DEF PathFields, PathNames

LEMMA CallTypes ==
  /\ NoCall \in [list : ClientHeaders \cup {<< >>}, tls : TlsConfigs \cup {NothingAsked},
                 copies : Paths, next : 1 .. Len(PathFields) + 1]
  /\ NothingWanted \in [headers : ClientHeaders \cup {<< >>}, key : Keys \cup {Null},
                        texts : [TextFields -> {Null} \cup Texts],
                        tls : TlsConfigs \cup {NothingAsked}]
  BY Constants, Fields DEF NoCall, NothingWanted

LEMMA InitInv == Init => Inv
<1> SUFFICES ASSUME Init PROVE Inv
  OBVIOUS
<1> USE DEF Init, FreshClient
<1>1. TypeOK
  BY Constants, CallTypes DEF TypeOK
<1>2. HeadersInv
  BY DEF HeadersInv, Unconfigured, NothingWanted
<1>3. HeadersAreLive
  BY DEF HeadersAreLive
<1>4. TlsInv
  BY DEF TlsInv, NoCall, NothingWanted, DefaultTls, NothingAsked, VerifyOn
<1>5. Balance
  BY DEF Balance, Freed, TextsHeld, PathsHeld, HeadersHeld, One, NoTexts, NoPaths, TextFields,
     PathNames, DefaultTls, NoCall
<1> QED
  BY <1>1, <1>2, <1>3, <1>4, <1>5 DEF Inv

(* Counts are numbers, so that no count of allocations goes below nothing. *)
LEMMA HeldIsNat ==
  ASSUME customHeadersCount \in Nat
  PROVE  Freed \in Nat /\ \A path : PathsHeld(path) \in Nat
  BY DEF Freed, TextsHeld, PathsHeld, HeadersHeld, One

LEMMA LongIsNotEmpty ==
  ASSUME NEW S, NEW s \in Seq(S), Len(s) > 0
  PROVE  s # << >>
  OBVIOUS

LEMMA PartsAreNat ==
  ASSUME customHeadersCount \in Nat
  PROVE  /\ HeadersHeld \in Nat /\ TextsHeld \in Nat /\ \A path : PathsHeld(path) \in Nat
         /\ One(authHeader # NoHeader) \in Nat
         /\ One(headers = << >>) \in Nat
  BY DEF HeadersHeld, TextsHeld, PathsHeld, One

-----------------------------------------------------------------------------
(***************************************************************************)
(* The steps.                                                              *)
(***************************************************************************)

(* Calls that change nothing.                                              *)
LEMMA RefusesInv ==
  ASSUME Inv, sent' = NoRequest,
         UNCHANGED << at, call, slots, texts, tls, allocated, wanted >>
  PROVE  Inv'
<1> USE DEF Inv, slots
<1>1. TypeOK'
  BY DEF TypeOK
<1>2. HeadersInv' /\ HeadersAreLive'
  BY DEF HeadersInv, Unconfigured, FreshClient, HeadersAreLive
<1>3. TlsInv'
  BY DEF TlsInv
<1>4. Balance'
  BY DEF Balance, Freed, TextsHeld, HeadersHeld
<1> QED
  BY <1>1, <1>2, <1>3, <1>4

LEMMA RequestInv ==
  ASSUME Inv, at = "open",
         UNCHANGED << at, call, slots, texts, tls, allocated, wanted >>
  PROVE  Inv'
<1> USE DEF Inv, slots
<1>1. TypeOK'
  BY DEF TypeOK
<1>2. HeadersInv' /\ HeadersAreLive'
  BY DEF HeadersInv, Unconfigured, FreshClient, HeadersAreLive
<1>3. TlsInv'
  BY DEF TlsInv
<1>4. Balance'
  BY DEF Balance, Freed, TextsHeld, HeadersHeld
<1> QED
  BY <1>1, <1>2, <1>3, <1>4

LEMMA DestroyedInv ==
  ASSUME Inv, at \in {"headers", "open"}, Destroyed
  PROVE  Inv'
<1> USE DEF Inv, Destroyed
<1>1. call.copies = NoPaths
  BY DEF TlsInv
<1>2. PathsHeld(NoPaths) = 0
  BY DEF PathsHeld, One, NoPaths, PathNames
<1>3. Freed \in Nat
  BY HeldIsNat DEF TypeOK
<1>4. allocated' = 0
  BY <1>1, <1>2, <1>3 DEF Balance
<1>5. TypeOK'
  BY <1>4, Constants, CallTypes DEF TypeOK
<1>6. HeadersInv' /\ HeadersAreLive'
  BY DEF HeadersInv, Unconfigured, FreshClient, HeadersAreLive, NothingWanted
<1>7. TlsInv'
  BY DEF TlsInv, NoCall, NothingWanted, DefaultTls, NothingAsked, VerifyOn
<1>8. Balance'
  BY <1>4 DEF Balance, Freed, TextsHeld, PathsHeld, HeadersHeld, One, NoTexts, NoPaths,
     TextFields, PathNames, DefaultTls, NoCall
<1> QED
  BY <1>5, <1>6, <1>7, <1>8

LEMMA CreateInv ==
  ASSUME Inv, NEW list \in ClientHeaders, NEW base \in Texts \cup {Null},
         NEW model \in Texts \cup {Null}, Create(list, base, model)
  PROVE  Inv'
<1> USE DEF Inv, Create
<1>1. /\ headers = << >> /\ headersCount = 0 /\ customHeadersCount = 0
      /\ authHeader = NoHeader /\ tls = DefaultTls
  BY DEF HeadersInv, FreshClient
<1>2. list \in Seq(Headers) /\ Len(list) \in Nat /\ (list = << >> <=> Len(list) = 0)
  BY HeadersAssumption
<1>3. /\ call'.list = list /\ call'.tls = NothingAsked /\ call'.copies = NoPaths /\ call'.next = 1
      /\ call' \in [list : ClientHeaders \cup {<< >>}, tls : TlsConfigs \cup {NothingAsked},
                    copies : Paths, next : 1 .. Len(PathFields) + 1]
  BY CallTypes, Constants, Fields DEF NoCall
<1>4. /\ texts' \in [TextFields -> {Null} \cup Texts]
      /\ texts'["base_url"] = base /\ texts'["model"] = model
      /\ texts'["proxy"] = Null /\ texts'["no_proxy"] = Null
  BY Constants DEF NoTexts, TextFields
<1>5. /\ wanted'.headers = << >> /\ wanted'.key = Null /\ wanted'.tls = NothingAsked
      /\ wanted' \in [headers : ClientHeaders \cup {<< >>}, key : Keys \cup {Null},
                      texts : [TextFields -> {Null} \cup Texts],
                      tls : TlsConfigs \cup {NothingAsked}]
  BY <1>4, CallTypes DEF NothingWanted
<1>6. headers' \in Seq(Slot) /\ Len(headers') = IF list = << >> THEN 0 ELSE Len(list) + 1
  BY <1>2 DEF Slot
<1>7. allocated' \in Nat
  BY DEF One
<1>8. TypeOK'
  BY <1>1, <1>3, <1>4, <1>5, <1>6, <1>7, Constants DEF TypeOK
<1>9. HeadersInv'
  BY <1>1, <1>2, <1>3, <1>5, <1>6 DEF HeadersInv, Unconfigured
<1>10. HeadersAreLive'
  BY <1>1 DEF HeadersAreLive, One
<1>11. TlsInv'
  <2>1. at' # "tls" /\ sent' = NoRequest /\ tls' = DefaultTls
    BY <1>1
  <2> QED
    BY <2>1, <1>3, <1>5, DefaultIsStored DEF TlsInv
<1>12. Balance'
  <2>1. headers' # << >> <=> list # << >>
    <3>1. CASE list = << >>
      BY <3>1
    <3>2. CASE list # << >>
      <4>1. Len(headers') > 0
        BY <3>2, <1>2, <1>6
      <4>2. headers' # << >>
        BY <1>6, <4>1, LongIsNotEmpty, Zenon
      <4> QED
        BY <3>2, <4>2
    <3> QED
      BY <3>1, <3>2
  <2>2. HeadersHeld' = One(list # << >>)
    BY <1>1, <2>1 DEF HeadersHeld, One
  <2>3. TextsHeld' = One(base # Null) + One(model # Null)
    BY <1>4 DEF TextsHeld, One
  <2>4. PathsHeld(NoPaths) = 0
    BY DEF PathsHeld, One, NoPaths, PathNames
  <2>5. tls'.path = NoPaths /\ authHeader' = NoHeader /\ call'.copies = NoPaths
    BY <1>1, <1>3 DEF DefaultTls
  <2>6. Freed' = TextsHeld' + 0 + HeadersHeld' + 0
    BY <2>4, <2>5 DEF Freed, One
  <2>7. One(base # Null) \in Nat /\ One(model # Null) \in Nat /\ One(list # << >>) \in Nat
    BY DEF One
  <2> QED
    BY <2>2, <2>3, <2>4, <2>5, <2>6, <2>7 DEF Balance
<1> QED
  BY <1>8, <1>9, <1>10, <1>11, <1>12

LEMMA CopyHeaderInv == Inv /\ CopyHeader => Inv'
<1> SUFFICES ASSUME Inv, CopyHeader PROVE Inv'
  OBVIOUS
<1> USE DEF Inv, CopyHeader
<1> DEFINE n == customHeadersCount
<1>1. /\ n \in Nat /\ n < Len(call.list) /\ Len(headers) = Len(call.list) + 1
      /\ authHeader = NoHeader /\ headersCount = n /\ call.copies = NoPaths
  BY DEF TypeOK, HeadersInv, Unconfigured, HeadersAreLive, One, TlsInv
<1>2. /\ call.list \in ClientHeaders /\ call.list \in Seq(Headers) /\ Len(call.list) \in Nat
      /\ call.list[n + 1] \in Slot
  <2>1. call.list \in ClientHeaders \cup {<< >>}
    BY DEF TypeOK
  <2>2. call.list # << >>
    BY <1>1
  <2> QED
    BY <1>1, <2>1, <2>2, HeadersAssumption DEF Slot
<1>3. /\ headers \in Seq(Slot) /\ n + 1 \in 1 .. Len(headers)
      /\ headers' \in Seq(Slot) /\ Len(headers') = Len(headers)
      /\ headers'[n + 1] = call.list[n + 1]
      /\ \A i \in 1 .. n : headers'[i] = headers[i]
  BY <1>1, <1>2 DEF TypeOK
<1>4. \A i \in 1 .. n : headers[i] = call.list[i]
  BY <1>1 DEF HeadersAreLive
<1>5. \A i \in 1 .. n + 1 : headers'[i] = call.list[i]
  <2> TAKE i \in 1 .. n + 1
  <2>1. CASE i = n + 1
    BY <2>1, <1>3
  <2>2. CASE i # n + 1
    <3>1. i \in 1 .. n
      BY <2>2, <1>1
    <3> QED
      BY <3>1, <1>3, <1>4
  <2> QED
    BY <2>1, <2>2
<1>6. Freed' = Freed + 1
  <2>1. headers # << >> /\ headers' # << >>
    BY <1>1, <1>2, <1>3
  <2>2. HeadersHeld' = HeadersHeld + 1
    BY <2>1, <1>1 DEF HeadersHeld, One
  <2>3. TextsHeld' = TextsHeld /\ PathsHeld(tls.path)' = PathsHeld(tls.path)
    BY DEF TextsHeld, PathsHeld
  <2>4. /\ HeadersHeld \in Nat /\ TextsHeld \in Nat /\ PathsHeld(tls.path) \in Nat
        /\ One(authHeader # NoHeader) \in Nat
    BY <1>1 DEF HeadersHeld, TextsHeld, PathsHeld, One
  <2> QED
    BY <2>2, <2>3, <2>4 DEF Freed
<1>7. Freed \in Nat /\ allocated \in Nat /\ PathsHeld(NoPaths) \in Nat
  BY <1>1, HeldIsNat DEF TypeOK
<1>8. CASE n + 1 = Len(call.list)
  <2>1. at' = "open" /\ call' = NoCall /\ wanted' = [wanted EXCEPT !.headers = call.list]
    BY <1>8
  <2>2. /\ wanted'.headers = call.list /\ wanted'.key = Null /\ wanted'.tls = NothingAsked
        /\ wanted' \in [headers : ClientHeaders \cup {<< >>}, key : Keys \cup {Null},
                        texts : [TextFields -> {Null} \cup Texts],
                        tls : TlsConfigs \cup {NothingAsked}]
    BY <2>1, <1>2 DEF TypeOK, HeadersInv, Unconfigured
  <2>3. TypeOK'
    BY <2>1, <2>2, <1>1, <1>3, <1>7, CallTypes, SMTT(60) DEF TypeOK
  <2>4. HeadersInv'
    BY <2>1, <2>2, <1>8, <1>1, <1>3 DEF HeadersInv
  <2>5. HeadersAreLive'
    BY <2>1, <2>2, <1>1, <1>5 DEF HeadersAreLive, One
  <2>6. TlsInv'
    BY <2>1, <2>2, DefaultIsStored DEF TlsInv, NoCall, HeadersInv, Unconfigured
  <2>7. Balance'
    BY <2>1, <1>1, <1>6, <1>7 DEF Balance, NoCall
  <2> QED
    BY <2>3, <2>4, <2>5, <2>6, <2>7
<1>9. CASE n + 1 # Len(call.list)
  <2>1. UNCHANGED << at, call, wanted >>
    BY <1>9
  <2>2. TypeOK'
    BY <2>1, <1>1, <1>3, <1>7 DEF TypeOK
  <2>3. HeadersInv'
    BY <2>1, <1>9, <1>1, <1>2, <1>3 DEF HeadersInv, Unconfigured
  <2>4. HeadersAreLive'
    BY <2>1, <1>1, <1>5 DEF HeadersAreLive, One
  <2>5. TlsInv'
    BY <2>1 DEF TlsInv
  <2>6. Balance'
    BY <2>1, <1>1, <1>6, <1>7 DEF Balance
  <2> QED
    BY <2>2, <2>3, <2>4, <2>5, <2>6
<1> QED
  BY <1>8, <1>9

LEMMA SetTextInv ==
  ASSUME Inv, NEW field \in TextFields, NEW text \in {Null} \cup Texts, SetText(field, text)
  PROVE  Inv'
<1> USE DEF Inv, SetText, Accepts, slots
<1>1. /\ texts \in [TextFields -> {Null} \cup Texts]
      /\ texts' \in [TextFields -> {Null} \cup Texts]
      /\ texts'[field] = text
      /\ \A f \in TextFields \ {field} : texts'[f] = texts[f]
  BY DEF TypeOK
<1>2. /\ wanted'.headers = wanted.headers /\ wanted'.key = wanted.key /\ wanted'.tls = wanted.tls
      /\ wanted' \in [headers : ClientHeaders \cup {<< >>}, key : Keys \cup {Null},
                      texts : [TextFields -> {Null} \cup Texts],
                      tls : TlsConfigs \cup {NothingAsked}]
  BY DEF TypeOK
<1>3. TextsHeld' = TextsHeld + One(text # Null) - One(texts[field] # Null)
  BY <1>1 DEF TextsHeld, One, TextFields
<1>4. Balance'
  <2>1. HeadersHeld' = HeadersHeld /\ PathsHeld(tls.path)' = PathsHeld(tls.path)
    BY DEF HeadersHeld, PathsHeld
  <2>2. /\ HeadersHeld \in Nat /\ TextsHeld \in Nat /\ PathsHeld(tls.path) \in Nat
        /\ One(authHeader # NoHeader) \in Nat /\ PathsHeld(call.copies) \in Nat
        /\ One(text # Null) \in Nat /\ One(texts[field] # Null) \in Nat
    BY DEF TypeOK, HeadersHeld, TextsHeld, PathsHeld, One
  <2>3. Freed' = Freed + One(text # Null) - One(texts[field] # Null)
    BY <1>3, <2>1, <2>2 DEF Freed
  <2> QED
    BY <2>2, <2>3 DEF Balance, Freed
<1>5. TypeOK'
  <2>1. Freed' \in Nat /\ PathsHeld(call.copies)' \in Nat
    BY DEF TypeOK, Freed, HeadersHeld, TextsHeld, PathsHeld, One
  <2>2. allocated' \in Nat
    BY <1>4, <2>1 DEF Balance
  <2> QED
    BY <1>1, <1>2, <2>2 DEF TypeOK
<1>6. HeadersInv' /\ HeadersAreLive'
  BY <1>2 DEF HeadersInv, Unconfigured, FreshClient, HeadersAreLive
<1>7. TlsInv'
  BY <1>2 DEF TlsInv
<1> QED
  BY <1>4, <1>5, <1>6, <1>7

LEMMA SetApiKeyInv ==
  ASSUME Inv, NEW key \in Keys, SetApiKey(key)
  PROVE  Inv'
<1> USE DEF Inv, SetApiKey, Accepts
<1> DEFINE n == customHeadersCount
<1>1. /\ n \in Nat /\ n = Len(wanted.headers)
      /\ headersCount = n + One(authHeader # NoHeader) /\ n <= Len(headers)
      /\ headers \in Seq(Slot) /\ Len(headers) \in Nat
      /\ headers # << >> => Len(headers) >= n + 1
  BY DEF TypeOK, HeadersInv, HeadersAreLive, One
<1>2. /\ Grown \in Seq(Slot) /\ Len(Grown) >= n + 1
      /\ \A i \in 1 .. n : Grown[i] = headers[i]
  <2>1. CASE Len(headers) < n + 1
    <3> DEFINE more == [i \in 1 .. Behind - Len(headers) |-> NoHeader]
    <3>1. more \in Seq(Slot) /\ Len(more) = n + 1 - Len(headers)
      BY <1>1, <2>1 DEF Slot, Behind
    <3>2. Grown = headers \o more
      <4>1. Len(headers) < Behind
        BY <2>1 DEF Behind
      <4> HIDE DEF Inv, SetApiKey, Accepts
      <4> QED
        BY <4>1 DEF Grown
    <3> HIDE DEF more
    <3>3. Len(Grown) = n + 1 /\ Grown \in Seq(Slot)
      BY <3>1, <3>2, <1>1
    <3>4. \A i \in 1 .. n : Grown[i] = headers[i]
      BY <3>1, <3>2, <1>1, <2>1
    <3> QED
      BY <3>3, <3>4
  <2>2. CASE ~(Len(headers) < n + 1)
    BY <2>2, <1>1 DEF Grown, Behind
  <2> QED
    BY <2>1, <2>2
<1>3. /\ authHeader' = Authorization(key) /\ authHeader' # NoHeader /\ authHeader' \in Slot
  BY Constants DEF Slot
<1>4. /\ headers' \in Seq(Slot) /\ Len(headers') >= n + 1 /\ Len(headers') \in Nat
      /\ headers'[n + 1] = authHeader'
      /\ \A i \in 1 .. n : headers'[i] = headers[i]
  BY <1>1, <1>2, <1>3 DEF Behind
<1>5. /\ wanted'.headers = wanted.headers /\ wanted'.key = key /\ wanted'.tls = wanted.tls
      /\ wanted' \in [headers : ClientHeaders \cup {<< >>}, key : Keys \cup {Null},
                      texts : [TextFields -> {Null} \cup Texts],
                      tls : TlsConfigs \cup {NothingAsked}]
  BY DEF TypeOK
<1>6. Balance' /\ Freed' \in Nat
  <2>1. TextsHeld' = TextsHeld /\ PathsHeld(tls.path)' = PathsHeld(tls.path)
    BY DEF TextsHeld, PathsHeld
  <2>2. headers' # << >>
    BY <1>1, <1>4
  <2>3. HeadersHeld' = HeadersHeld + One(headers = << >>)
    <3>1. HeadersHeld' = 1 + n
      BY <2>2 DEF HeadersHeld, One
    <3>2. HeadersHeld = n + 1 - One(headers = << >>) /\ One(headers = << >>) \in {0, 1}
      <4>1. CASE headers = << >>
        BY <4>1, <1>1 DEF HeadersHeld, One
      <4>2. CASE headers # << >>
        BY <4>2, <1>1 DEF HeadersHeld, One
      <4> QED
        BY <4>1, <4>2
    <3> QED
      BY <3>1, <3>2, <1>1
  <2>4. /\ HeadersHeld \in Nat /\ TextsHeld \in Nat /\ PathsHeld(tls.path) \in Nat
        /\ PathsHeld(call.copies) \in Nat
        /\ One(authHeader # NoHeader) \in Nat /\ One(headers = << >>) \in Nat
    BY <1>1, PartsAreNat
  <2>5. One(authHeader # NoHeader)' = 1
    BY <1>3 DEF One
  <2>6. Freed' = Freed + One(headers = << >>) + 1 - One(authHeader # NoHeader) /\ Freed' \in Nat
    BY <2>1, <2>3, <2>4, <2>5 DEF Freed
  <2> QED
    BY <2>4, <2>6 DEF Balance, Freed
<1>7. TypeOK'
  <2>1. allocated' \in Nat
    <3>1. PathsHeld(call.copies)' \in Nat
      BY DEF PathsHeld, One
    <3> QED
      BY <3>1, <1>6 DEF Balance
  <2>2. headersCount' \in customHeadersCount' .. Len(headers')
    BY <1>1, <1>4 DEF Behind
  <2> QED
    BY <1>1, <1>3, <1>4, <1>5, <2>1, <2>2 DEF TypeOK
<1>8. HeadersInv'
  BY <1>1, <1>3, <1>4, <1>5, HeadersAssumption DEF HeadersInv
<1>9. HeadersAreLive'
  <2>1. \A i \in 1 .. n : headers[i] = wanted.headers[i]
    <3>1. n <= headersCount /\ headersCount \in Int
      BY <1>1 DEF TypeOK
    <3> QED
      BY <3>1, <1>1 DEF HeadersAreLive
  <2>2. headersCount' = n + 1 /\ customHeadersCount' = n /\ at' = "open"
    BY DEF Behind
  <2>3. ASSUME NEW i \in 1 .. headersCount'
        PROVE  headers'[i] = IF i <= n THEN wanted'.headers[i] ELSE authHeader'
    <3>1. CASE i <= n
      BY <3>1, <2>1, <2>2, <1>1, <1>4, <1>5
    <3>2. CASE i = n + 1
      BY <3>2, <2>2, <1>1, <1>4
    <3> QED
      BY <3>1, <3>2, <2>2, <1>1
  <2> QED
    BY <1>1, <1>3, <2>2, <2>3 DEF HeadersAreLive, One
<1>10. TlsInv'
  BY <1>5 DEF TlsInv
<1> QED
  BY <1>6, <1>7, <1>8, <1>9, <1>10

LEMMA ClearApiKeyInv == Inv /\ ClearApiKey => Inv'
<1> SUFFICES ASSUME Inv, ClearApiKey PROVE Inv'
  OBVIOUS
<1> USE DEF Inv, ClearApiKey, Accepts
<1> DEFINE n == customHeadersCount
<1>1. /\ n \in Nat /\ n = Len(wanted.headers)
      /\ headersCount = n + One(authHeader # NoHeader) /\ n <= Len(headers)
      /\ headersCount <= Len(headers)
      /\ headers \in Seq(Slot) /\ Len(headers) \in Nat
      /\ headers # << >> => Len(headers) >= n + 1
  BY DEF TypeOK, HeadersInv, HeadersAreLive, One
<1>2. /\ headersCount' = n
      /\ headers' \in Seq(Slot) /\ Len(headers') = Len(headers)
      /\ \A i \in 1 .. n : headers'[i] = headers[i]
  <2>1. CASE headers # << >> /\ headersCount > n
    BY <2>1, <1>1 DEF ClearSlot, Behind, Slot
  <2>2. CASE ~(headers # << >> /\ headersCount > n)
    <3>1. headersCount = n
      <4>1. headersCount \in n .. Len(headers)
        BY DEF TypeOK
      <4>2. CASE headers = << >>
        BY <4>1, <4>2, <1>1
      <4>3. CASE headers # << >>
        BY <4>1, <4>3, <2>2, <1>1
      <4> QED
        BY <4>2, <4>3
    <3> QED
      BY <2>2, <3>1, <1>1 DEF ClearSlot
  <2> QED
    BY <2>1, <2>2
<1>3. headers' # << >> <=> headers # << >>
  BY <1>1, <1>2
<1>4. /\ wanted'.headers = wanted.headers /\ wanted'.key = Null /\ wanted'.tls = wanted.tls
      /\ wanted' \in [headers : ClientHeaders \cup {<< >>}, key : Keys \cup {Null},
                      texts : [TextFields -> {Null} \cup Texts],
                      tls : TlsConfigs \cup {NothingAsked}]
  BY DEF TypeOK
<1>5. Balance' /\ Freed' \in Nat
  <2>1. TextsHeld' = TextsHeld /\ PathsHeld(tls.path)' = PathsHeld(tls.path)
    BY DEF TextsHeld, PathsHeld
  <2>2. HeadersHeld' = HeadersHeld
    BY <1>3 DEF HeadersHeld, One
  <2>3. /\ HeadersHeld \in Nat /\ TextsHeld \in Nat /\ PathsHeld(tls.path) \in Nat
        /\ PathsHeld(call.copies) \in Nat /\ One(authHeader # NoHeader) \in Nat
    BY <1>1, PartsAreNat
  <2>4. One(authHeader # NoHeader)' = 0
    BY DEF One
  <2>5. Freed' = Freed - One(authHeader # NoHeader) /\ Freed' \in Nat
    BY <2>1, <2>2, <2>3, <2>4 DEF Freed
  <2> QED
    BY <2>3, <2>5 DEF Balance, Freed
<1>6. TypeOK'
  <2>1. allocated' \in Nat
    <3>1. PathsHeld(call.copies)' \in Nat
      BY DEF PathsHeld, One
    <3> QED
      BY <3>1, <1>5 DEF Balance
  <2> QED
    BY <1>1, <1>2, <1>4, <2>1 DEF TypeOK
<1>7. HeadersInv'
  BY <1>1, <1>2, <1>3, <1>4 DEF HeadersInv
<1>8. HeadersAreLive'
  BY <1>1, <1>2, <1>4 DEF HeadersAreLive, One
<1>9. TlsInv'
  BY <1>4 DEF TlsInv
<1> QED
  BY <1>5, <1>6, <1>7, <1>8, <1>9

LEMMA PathSet ==
  ASSUME NEW p \in Paths, NEW g \in PathNames, NEW text \in {Null, ""} \cup Texts
  PROVE  [p EXCEPT ![g] = text] \in Paths
  BY DEF Paths

LEMMA PathsEqual ==
  ASSUME NEW p \in Paths, NEW q \in Paths, \A g \in PathNames : p[g] = q[g]
  PROVE  p = q
<1>1. p = [g \in PathNames |-> p[g]] /\ q = [g \in PathNames |-> q[g]]
  BY DEF Paths
<1>2. [g \in PathNames |-> p[g]] = [g \in PathNames |-> q[g]]
  OBVIOUS
<1> QED
  BY <1>1, <1>2

(* What the steps of set_tls_config leave alone.                           *)
LEMMA HeadersKept ==
  ASSUME Inv, UNCHANGED slots,
         UNCHANGED << wanted.headers, wanted.key >>,
         at \in {"open", "tls"}, at' \in {"open", "tls"}
  PROVE  HeadersInv' /\ HeadersAreLive'
<1> USE DEF Inv, slots
<1>1. HeadersInv'
  BY DEF HeadersInv
<1>2. HeadersAreLive'
  BY DEF HeadersAreLive
<1> QED
  BY <1>1, <1>2

LEMMA BeginTlsInv ==
  ASSUME Inv, NEW t \in TlsConfigs, BeginTls(t)
  PROVE  Inv'
<1> USE DEF Inv, BeginTls, Accepts
<1>1. /\ call'.tls = t /\ call'.next = 1 /\ call'.copies = NoPaths
      /\ call' \in [list : ClientHeaders \cup {<< >>}, tls : TlsConfigs \cup {NothingAsked},
                    copies : Paths, next : 1 .. Len(PathFields) + 1]
  BY CallTypes, Constants, Fields DEF NoCall
<1>2. HeadersInv' /\ HeadersAreLive'
  BY HeadersKept
<1>3. TypeOK'
  BY <1>1 DEF TypeOK, slots
<1>4. TlsInv'
  <2>1. \A i \in 1 .. 4 : NoPaths[PathFields[i]] = Null
    BY Fields DEF NoPaths
  <2> QED
    BY <1>1, <2>1, Fields DEF TlsInv
<1>5. Balance'
  BY <1>1 DEF Balance, Freed, TextsHeld, HeadersHeld, PathsHeld, TlsInv, slots
<1> QED
  BY <1>2, <1>3, <1>4, <1>5

LEMMA CopyPathInv == Inv /\ CopyPath => Inv'
<1> SUFFICES ASSUME Inv, CopyPath PROVE Inv'
  OBVIOUS
<1> USE DEF Inv, CopyPath
<1> DEFINE f == PathFields[call.next]
<1>1. /\ call.next \in 1 .. 4 /\ f \in PathNames
      /\ call.copies \in Paths /\ call.tls.path \in Paths
  <2>1. call.copies \in Paths /\ call.tls \in TlsConfigs \cup {NothingAsked}
    BY DEF TypeOK
  <2>2. call.tls \in Tls(Modes)
    BY <2>1, Constants, SettingsAssumption
  <2>3. call.tls.path \in Paths
    BY <2>2 DEF Tls
  <2>4. call.next \in 1 .. 4
    BY Fields DEF TypeOK
  <2> QED
    BY <2>1, <2>3, <2>4, Fields
<1>2. /\ call'.tls = call.tls /\ call'.next = call.next + 1 /\ call'.list = call.list
      /\ call'.copies = [call.copies EXCEPT ![f] = call.tls.path[f]]
  BY DEF TypeOK
<1>3. call'.copies \in Paths
  <2>1. call.tls.path[f] \in {Null, ""} \cup Texts
    BY <1>1 DEF Paths
  <2> QED
    <3>1. [call.copies EXCEPT ![f] = call.tls.path[f]] \in Paths
      BY <1>1, <2>1, PathSet, Zenon
    <3> QED
      BY <1>2, <3>1, Zenon
<1>4. call' \in [list : ClientHeaders \cup {<< >>}, tls : TlsConfigs \cup {NothingAsked},
                copies : Paths, next : 1 .. Len(PathFields) + 1]
  <2>1. call.next + 1 \in 1 .. Len(PathFields) + 1
    BY <1>1, Fields
  <2> QED
    BY <1>2, <1>3, <2>1 DEF TypeOK
<1>5. /\ call'.copies[f] = call.tls.path[f] /\ call.copies[f] = Null
      /\ \A g \in PathNames \ {f} : call'.copies[g] = call.copies[g]
  <2>1. call.copies[f] = Null
    BY <1>1, Fields DEF TlsInv
  <2>2. /\ call'.copies[f] = call.tls.path[f]
        /\ \A g \in PathNames \ {f} : call'.copies[g] = call.copies[g]
    BY <1>1, <1>2, ZenonT(60) DEF Paths
  <2> QED
    BY <2>1, <2>2
<1>6. PathsHeld(call.copies)' = PathsHeld(call.copies) + One(call.tls.path[f] # Null)
  BY <1>1, <1>5 DEF PathsHeld, One, PathNames
<1>7. Freed' = Freed /\ Freed \in Nat /\ PathsHeld(call.copies) \in Nat
      /\ One(call.tls.path[f] # Null) \in Nat
  BY HeldIsNat DEF Freed, TextsHeld, PathsHeld, HeadersHeld, slots, TypeOK, One
<1>8. Balance' /\ allocated' \in Nat
  BY <1>6, <1>7 DEF Balance
<1>9. TypeOK'
  BY <1>4, <1>8 DEF TypeOK, slots
<1>10. HeadersInv' /\ HeadersAreLive'
  BY HeadersKept
<1>11. TlsInv'
  <2>1. ASSUME NEW i \in 1 .. 4
        PROVE  call'.copies[PathFields[i]] =
                 IF i < call'.next THEN call'.tls.path[PathFields[i]] ELSE Null
    <3>1. CASE i = call.next
      BY <3>1, <1>1, <1>2, <1>5
    <3>2. CASE i # call.next
      <4>1. PathFields[i] \in PathNames \ {f}
        BY <3>2, <1>1, Fields
      <4>2. call'.copies[PathFields[i]] = IF i < call.next THEN call.tls.path[PathFields[i]] ELSE Null
        BY <4>1, <1>5, Fields DEF TlsInv
      <4> QED
        BY <3>2, <4>2, <1>1, <1>2
    <3> QED
      BY <3>1, <3>2
  <2> QED
    BY <2>1, Fields DEF TlsInv
<1> QED
  BY <1>8, <1>9, <1>10, <1>11

LEMMA CopyPathFailsInv == Inv /\ CopyPathFails => Inv'
<1> SUFFICES ASSUME Inv, CopyPathFails PROVE Inv'
  OBVIOUS
<1> USE DEF Inv, CopyPathFails
<1>1. PathsHeld(NoPaths) = 0
  BY DEF PathsHeld, One, NoPaths, PathNames
<1>2. Freed' = Freed /\ Freed \in Nat /\ PathsHeld(call.copies) \in Nat
  BY HeldIsNat DEF Freed, TextsHeld, PathsHeld, HeadersHeld, slots, TypeOK
<1>3. call'.copies = NoPaths
  BY DEF NoCall
<1>4. Balance' /\ allocated' \in Nat
  BY <1>1, <1>2, <1>3 DEF Balance
<1>5. TypeOK'
  BY <1>4, CallTypes DEF TypeOK, slots
<1>6. HeadersInv' /\ HeadersAreLive'
  BY HeadersKept
<1>7. TlsInv'
  BY <1>3 DEF TlsInv
<1> QED
  BY <1>4, <1>5, <1>6, <1>7

LEMMA SetTlsConfigInv == Inv /\ SetTlsConfig => Inv'
<1> SUFFICES ASSUME Inv, SetTlsConfig PROVE Inv'
  OBVIOUS
<1> USE DEF Inv, SetTlsConfig
<1>1. /\ call.copies \in Paths /\ call.tls \in TlsConfigs \cup {NothingAsked}
      /\ call.tls \in Tls(Modes) /\ call.tls.path \in Paths
  BY Constants, SettingsAssumption DEF TypeOK, Tls
<1>2. call.copies = call.tls.path
  <2>1. \A i \in 1 .. 4 : call.copies[PathFields[i]] = call.tls.path[PathFields[i]]
    BY Fields DEF TlsInv, TypeOK
  <2>2. \A g \in PathNames : \E i \in 1 .. 4 : g = PathFields[i]
    BY Fields DEF PathNames
  <2>3. \A g \in PathNames : call.copies[g] = call.tls.path[g]
    BY <2>1, <2>2
  <2> QED
    BY <1>1, <2>3, PathsEqual
<1>3. /\ wanted'.headers = wanted.headers /\ wanted'.key = wanted.key /\ wanted'.tls = call.tls
      /\ wanted' \in [headers : ClientHeaders \cup {<< >>}, key : Keys \cup {Null},
                      texts : [TextFields -> {Null} \cup Texts],
                      tls : TlsConfigs \cup {NothingAsked}]
  BY <1>1 DEF TypeOK
<1>4. tls' \in Tls(BOOLEAN)
  BY <1>1 DEF Tls, VerifyOn
<1>5. PathsHeld(NoPaths) = 0
  BY DEF PathsHeld, One, NoPaths, PathNames
<1>6. Balance' /\ Freed' \in Nat
  <2>1. TextsHeld' = TextsHeld /\ HeadersHeld' = HeadersHeld
        /\ One(authHeader # NoHeader)' = One(authHeader # NoHeader)
    BY DEF TextsHeld, HeadersHeld, slots
  <2>2. PathsHeld(tls.path)' = PathsHeld(call.copies)
    BY DEF PathsHeld
  <2>3. /\ HeadersHeld \in Nat /\ TextsHeld \in Nat /\ PathsHeld(tls.path) \in Nat
        /\ PathsHeld(call.copies) \in Nat /\ One(authHeader # NoHeader) \in Nat
    BY PartsAreNat DEF TypeOK
  <2>4. Freed' = Freed - PathsHeld(tls.path) + PathsHeld(call.copies) /\ Freed' \in Nat
        /\ Freed \in Nat
    BY <2>1, <2>2, <2>3 DEF Freed
  <2>5. call'.copies = NoPaths
    BY DEF NoCall
  <2> QED
    BY <2>3, <2>4, <2>5, <1>5 DEF Balance
<1>7. TypeOK'
  <2>1. allocated' \in Nat
    <3>1. PathsHeld(call.copies)' \in Nat
      BY DEF PathsHeld, One
    <3> QED
      BY <3>1, <1>6 DEF Balance
  <2> QED
    BY <1>3, <1>4, <2>1, CallTypes DEF TypeOK, slots
<1>8. HeadersInv' /\ HeadersAreLive'
  BY <1>3, HeadersKept
<1>9. TlsInv'
  BY <1>2, <1>3 DEF TlsInv, NoCall
<1> QED
  BY <1>6, <1>7, <1>8, <1>9

LEMMA ClearTlsConfigInv == Inv /\ ClearTlsConfig => Inv'
<1> SUFFICES ASSUME Inv, ClearTlsConfig PROVE Inv'
  OBVIOUS
<1> USE DEF Inv, ClearTlsConfig, Accepts
<1>1. /\ wanted'.headers = wanted.headers /\ wanted'.key = wanted.key /\ wanted'.tls = NothingAsked
      /\ wanted' \in [headers : ClientHeaders \cup {<< >>}, key : Keys \cup {Null},
                      texts : [TextFields -> {Null} \cup Texts],
                      tls : TlsConfigs \cup {NothingAsked}]
  BY DEF TypeOK
<1>2. PathsHeld(tls.path)' = 0
  BY DEF PathsHeld, One, DefaultTls, NoPaths, PathNames
<1>3. Balance' /\ Freed' \in Nat
  <2>1. TextsHeld' = TextsHeld /\ HeadersHeld' = HeadersHeld
        /\ One(authHeader # NoHeader)' = One(authHeader # NoHeader)
    BY DEF TextsHeld, HeadersHeld, slots
  <2>2. /\ HeadersHeld \in Nat /\ TextsHeld \in Nat /\ PathsHeld(tls.path) \in Nat
        /\ PathsHeld(call.copies) \in Nat /\ One(authHeader # NoHeader) \in Nat
    BY PartsAreNat DEF TypeOK
  <2>3. Freed' = Freed - PathsHeld(tls.path) /\ Freed' \in Nat /\ Freed \in Nat
    BY <2>1, <2>2, <1>2 DEF Freed
  <2> QED
    BY <2>2, <2>3 DEF Balance
<1>4. TypeOK'
  <2>1. allocated' \in Nat
    <3>1. PathsHeld(call.copies)' \in Nat
      BY DEF PathsHeld, One
    <3> QED
      BY <3>1, <1>3 DEF Balance
  <2> QED
    BY <1>1, <2>1, Constants DEF TypeOK, slots
<1>5. HeadersInv' /\ HeadersAreLive'
  BY <1>1, HeadersKept
<1>6. TlsInv'
  BY <1>1, DefaultIsStored DEF TlsInv
<1> QED
  BY <1>3, <1>4, <1>5, <1>6

-----------------------------------------------------------------------------
(***************************************************************************)
(* The theorems.                                                           *)
(***************************************************************************)

LEMMA NextInv == Inv /\ [Next]_vars => Inv'
<1> SUFFICES ASSUME Inv, [Next]_vars PROVE Inv'
  OBVIOUS
<1>1. CASE CreateFails
  BY <1>1, RefusesInv DEF CreateFails
<1>2. ASSUME NEW list \in ClientHeaders, NEW base \in Texts \cup {Null},
             NEW model \in Texts \cup {Null}, Create(list, base, model)
      PROVE  Inv'
  BY <1>2, CreateInv
<1>3. CASE CopyHeader
  BY <1>3, CopyHeaderInv
<1>4. CASE CopyHeaderFails
  BY <1>4, DestroyedInv DEF CopyHeaderFails
<1>5. CASE Destroy
  BY <1>5, DestroyedInv DEF Destroy
<1>6. CASE Refuses
  BY <1>6, RefusesInv DEF Refuses
<1>7. ASSUME NEW key \in Keys, SetApiKey(key) PROVE Inv'
  BY <1>7, SetApiKeyInv
<1>8. CASE ClearApiKey
  BY <1>8, ClearApiKeyInv
<1>9. ASSUME NEW text \in Texts, SetModel(text) PROVE Inv'
  BY <1>9, SetTextInv DEF SetModel, TextFields
<1>10. ASSUME NEW text \in Texts \cup {Null, ""}, SetProxy(text) \/ SetNoProxy(text) PROVE Inv'
  <2>1. (IF text = "" THEN Null ELSE text) \in {Null} \cup Texts
    OBVIOUS
  <2> QED
    BY <1>10, <2>1, SetTextInv DEF SetProxy, SetNoProxy, TextFields
<1>11. ASSUME NEW t \in TlsConfigs, BeginTls(t) PROVE Inv'
  BY <1>11, BeginTlsInv
<1>12. CASE CopyPath
  BY <1>12, CopyPathInv
<1>13. CASE CopyPathFails
  BY <1>13, CopyPathFailsInv
<1>14. CASE SetTlsConfig
  BY <1>14, SetTlsConfigInv
<1>15. CASE ClearTlsConfig
  BY <1>15, ClearTlsConfigInv
<1>16. ASSUME NEW list \in RequestHeaders, RequestFails(list) PROVE Inv'
  BY <1>16, RefusesInv DEF RequestFails, Refuses
<1>17. ASSUME NEW post \in BOOLEAN, NEW list \in RequestHeaders,
              NEW lost \in 0 .. 1 + headersCount + Len(list), Request(post, list, lost)
       PROVE  Inv'
  BY <1>17, RequestInv DEF Request
<1>18. CASE UNCHANGED vars
  <2>1. CASE at = "open"
    BY <1>18, <2>1, RequestInv DEF vars, slots
  <2>2. CASE at # "open"
    BY <1>18, <2>2, RefusesInv DEF vars, slots, Inv, TlsInv
  <2> QED
    BY <2>1, <2>2
<1> QED
  BY <1>1, <1>2, <1>3, <1>4, <1>5, <1>6, <1>7, <1>8, <1>9, <1>10, <1>11, <1>12, <1>13, <1>14,
     <1>15, <1>16, <1>17, <1>18 DEF Next

(* The state of a client and of the calls that configure it has its types. *)
THEOREM TypeCorrect == Spec => []TypeOK
<1>1. Init => Inv
  BY InitInv
<1>2. Inv /\ [Next]_vars => Inv'
  BY NextInv
<1>3. Inv => TypeOK
  BY DEF Inv
<1> QED
  BY <1>1, <1>2, <1>3, PTL DEF Spec

(* No header a request would read from the client has been freed: see      *)
(* llm_client_set_api_key and the slot behind the custom headers.          *)
THEOREM HeadersStayAlive == Spec => []HeadersAreLive
<1>1. Init => Inv
  BY InitInv
<1>2. Inv /\ [Next]_vars => Inv'
  BY NextInv
<1>3. Inv => HeadersAreLive
  BY DEF Inv
<1> QED
  BY <1>1, <1>2, <1>3, PTL DEF Spec

(* Every allocation is freed once: by the setter that replaces it, by the  *)
(* call that could not complete it, or with the client.                    *)
THEOREM NothingLeaks == Spec => []AllocationsAreOwned
<1>1. Init => Inv
  BY InitInv
<1>2. Inv /\ [Next]_vars => Inv'
  BY NextInv
<1>3. Inv => AllocationsAreOwned
  <2> SUFFICES ASSUME Inv, at \in {"none", "open"} PROVE allocated = Freed
    BY DEF AllocationsAreOwned
  <2>1. PathsHeld(call.copies) = 0
    BY DEF Inv, TlsInv, PathsHeld, One, NoPaths, PathNames
  <2>2. Freed \in Nat
    BY HeldIsNat DEF Inv, TypeOK
  <2> QED
    BY <2>1, <2>2 DEF Inv, Balance
<1> QED
  BY <1>1, <1>2, <1>3, PTL DEF Spec

-----------------------------------------------------------------------------
(* A request trusts what the caller said: needs the settings as they are   *)
(* stored (TlsInv), and that no other step leaves a request in `sent`.     *)
LEMMA ModeKeepsVerify == \A on \in BOOLEAN : VerifyOn(Mode(on)) = on
  BY DEF VerifyOn, Mode

LEMMA OptionsAreAsked ==
  ASSUME Inv, NEW post, NEW list, NEW lost, Request(post, list, lost)
  PROVE  TrustIsAsConfigured'
<1> DEFINE asked == wanted.tls
<1>1. /\ tls.path = asked.path /\ tls.password = asked.password
      /\ tls.peer = VerifyOn(asked.peer) /\ tls.host = VerifyOn(asked.host)
      /\ tls.insecure = asked.insecure /\ tls \in Tls(BOOLEAN)
  BY DEF Inv, TlsInv, TypeOK
<1>2. sent'.options = TlsOptions(TlsPassed) /\ wanted' = wanted
  BY DEF Request
<1>3. /\ TlsPassed.path = asked.path /\ TlsPassed.password = asked.password
      /\ TlsPassed.insecure = asked.insecure
      /\ TlsPassed.peer = Mode(tls.peer) /\ TlsPassed.host = Mode(tls.host)
  BY <1>1 DEF TlsPassed, Tls
<1>4. /\ VerifyOn(TlsPassed.peer) <=> asked.peer # "OFF"
      /\ VerifyOn(TlsPassed.host) <=> asked.host # "OFF"
  BY <1>1, <1>3, ModeKeepsVerify DEF VerifyOn, Mode
<1> QED
  BY <1>2, <1>3, <1>4 DEF TrustIsAsConfigured, TlsOptions, CaInfo, CaPath, HasText

(* A server is trusted without verification only when the caller asked for *)
(* just that, and the system's certificates are used exactly when it named *)
(* none of its own: see llm_client_set_tls_config and apply_tls_config.    *)
THEOREM TrustIsKept == Spec => []TrustIsAsConfigured
<1> DEFINE J == Inv /\ TrustIsAsConfigured
<1>1. Init => J
  BY InitInv DEF Init, TrustIsAsConfigured, NoRequest
<1>2. J /\ [Next]_vars => J'
  <2> SUFFICES ASSUME J, [Next]_vars PROVE TrustIsAsConfigured'
    BY NextInv
  <2>1. ASSUME NEW post \in BOOLEAN, NEW list \in RequestHeaders,
               NEW lost \in 0 .. 1 + headersCount + Len(list), Request(post, list, lost)
        PROVE  TrustIsAsConfigured'
    BY <2>1, OptionsAreAsked
  <2>2. CASE UNCHANGED vars
    BY <2>2 DEF vars, TrustIsAsConfigured
  <2>3. CASE sent' = NoRequest
    BY <2>3 DEF TrustIsAsConfigured, NoRequest
  <2>4. sent = NoRequest \/ at = "open"
    BY DEF Inv, TlsInv
  <2>5. CASE CopyHeader \/ CopyPath \/ CopyPathFails \/ SetTlsConfig
    BY <2>3, <2>4, <2>5 DEF CopyHeader, CopyPath, CopyPathFails, SetTlsConfig
  <2> QED
    BY <2>1, <2>2, <2>3, <2>5 DEF Next, CreateFails, Create, CopyHeaderFails, Destroy, Destroyed,
       Refuses, SetApiKey, ClearApiKey, SetModel, SetProxy, SetNoProxy, SetText, BeginTls,
       ClearTlsConfig, RequestFails, Accepts
<1>3. J => TrustIsAsConfigured
  OBVIOUS
<1> QED
  BY <1>1, <1>2, <1>3, PTL DEF Spec
-----------------------------------------------------------------------------
(***************************************************************************)
(* Induction by hand: the least number outside a set of numbers has all    *)
(* the numbers before it in the set.  With it, the recursive functions of  *)
(* the model are the functions their equations describe.                   *)
(***************************************************************************)

Less == {p \in Nat \X Nat : p[1] < p[2]}

LEMMA LessWF == IsWellFoundedOn(Less, Nat)
<1>1. OpToRel(<, Nat) = Less
  BY DEF OpToRel, Less
<1> QED
  BY <1>1, NatLessThanWellFounded

LEMMA UpTo ==
  ASSUME NEW N \in Nat, NEW T, 0 \in T, \A n \in 1 .. N : n - 1 \in T => n \in T
  PROVE  \A n \in 0 .. N : n \in T
<1> DEFINE outside == {n \in 0 .. N : n \notin T}
<1>1. CASE outside = {}
  BY <1>1
<1>2. CASE outside # {}
  <2>1. outside \in SUBSET Nat
    OBVIOUS
  <2>2. PICK x \in outside : \A y \in outside : ~ (<< y, x >> \in Less)
    BY <1>2, <2>1, LessWF, WFMin
  <2>3. x \in 1 .. N /\ x - 1 \in 0 .. N
    BY <2>2
  <2>4. << x - 1, x >> \in Less
    BY <2>3 DEF Less
  <2>5. x - 1 \in T
    BY <2>2, <2>3, <2>4
  <2>6. QED
    BY <2>2, <2>3, <2>5
<1>3. QED
  BY <1>1, <1>2

(* f starts with base on 0 .. N and goes on as step says.                  *)
Steps(N, V) == [1 .. N -> [V -> V]]
Follows(f, N, V, base, step) ==
  /\ f \in [0 .. N -> V]
  /\ f[0] = base
  /\ \A n \in 1 .. N : f[n] = step[n][f[n - 1]]

(* There is such a function.                                               *)
LEMMA Recursion ==
  ASSUME NEW N \in Nat, NEW V, NEW base \in V, NEW step \in Steps(N, V)
  PROVE  \E f : Follows(f, N, V, base, step)
<1> USE DEF Steps
<1> DEFINE Goes(n) == \E f \in [0 .. n -> V] :
                        f[0] = base /\ \A k \in 1 .. n : f[k] = step[k][f[k - 1]]
           T == {n \in 0 .. N : Goes(n)}
<1>1. 0 \in T
  <2>1. [k \in 0 .. 0 |-> base] \in [0 .. 0 -> V]
    OBVIOUS
  <2>2. Goes(0)
    <3>1. /\ [k \in 0 .. 0 |-> base][0] = base
          /\ \A k \in 1 .. 0 : [j \in 0 .. 0 |-> base][k] = step[k][[j \in 0 .. 0 |-> base][k - 1]]
      OBVIOUS
    <3> QED
      BY <2>1, <3>1
  <2> QED
    BY <2>2
<1>2. ASSUME NEW n \in 1 .. N, n - 1 \in T
      PROVE  n \in T
  <2>1. PICK f \in [0 .. n - 1 -> V] :
          f[0] = base /\ \A k \in 1 .. n - 1 : f[k] = step[k][f[k - 1]]
    BY <1>2
  <2> DEFINE g == [k \in 0 .. n |-> IF k = n THEN step[n][f[n - 1]] ELSE f[k]]
  <2>2. step[n][f[n - 1]] \in V
    OBVIOUS
  <2>3. g \in [0 .. n -> V]
    BY <2>2
  <2>4. g[0] = base /\ g[n] = step[n][f[n - 1]] /\ \A k \in 0 .. n - 1 : g[k] = f[k]
    BY <2>1
  <2>5. ASSUME NEW k \in 1 .. n PROVE g[k] = step[k][g[k - 1]]
    <3>1. g[k - 1] = f[k - 1]
      BY <2>4
    <3>2. k < n => g[k] = f[k] /\ f[k] = step[k][f[k - 1]]
      BY <2>1, <2>4
    <3>3. QED
      BY <2>4, <3>1, <3>2
  <2>6. Goes(n)
    BY <2>3, <2>4, <2>5
  <2> QED
    BY <2>6
<1> HIDE DEF T
<1>3. \A n \in 0 .. N : n \in T
  BY <1>1, <1>2, UpTo
<1>4. Goes(N)
  BY <1>3 DEF T
<1> QED
  BY <1>4 DEF Follows

-----------------------------------------------------------------------------
(***************************************************************************)
(* The headers of a request.                                               *)
(***************************************************************************)

(* What is selected from a sequence is a sequence.                         *)
LEMMA SelectedType ==
  ASSUME NEW S, NEW s \in Seq(S), NEW set
  PROVE  Selected(s, set) \in Seq(S) /\ (s = << >> => Selected(s, set) = << >>)
<1> DEFINE N == Len(s)
           V == Seq(S)
           Val(t, n) == IF n = 0 THEN << >>
                        ELSE IF s[n] \in set THEN Append(t[n - 1], s[n])
                        ELSE t[n - 1]
           Is(t) == t = [n \in 0 .. N |-> Val(t, n)]
           selected == CHOOSE t : Is(t)
           step == [n \in 1 .. N |-> [x \in V |-> IF s[n] \in set THEN Append(x, s[n]) ELSE x]]
<1>1. N \in Nat /\ \A n \in 1 .. N : s[n] \in S
  BY LenProperties, ElementOfSeq
<1>2. Selected(s, set) = selected[N]
  BY DEF Selected
<1>3. step \in [1 .. N -> [V -> V]]
  BY <1>1, AppendProperties
<1>4. \A n \in 1 .. N : \A x \in V : step[n][x] = IF s[n] \in set THEN Append(x, s[n]) ELSE x
  OBVIOUS
<1> HIDE DEF step, N
<1>5. PICK f \in [0 .. N -> V] : f[0] = << >> /\ \A n \in 1 .. N : f[n] = step[n][f[n - 1]]
  <2>1. << >> \in V /\ step \in Steps(N, V)
    BY <1>3, EmptySeq DEF Steps
  <2>2. \E f : Follows(f, N, V, << >>, step)
    BY <1>1, <2>1, Recursion
  <2>3. QED
    BY <2>2 DEF Follows
<1> HIDE DEF V
<1>6. ASSUME NEW n \in 1 .. N
      PROVE  /\ n - 1 \in 0 .. N
             /\ f[n] = IF s[n] \in set THEN Append(f[n - 1], s[n]) ELSE f[n - 1]
  <2>1. n - 1 \in 0 .. N
    BY <1>1
  <2>2. f[n - 1] \in V
    BY <1>5, <2>1
  <2>3. QED
    BY <1>4, <1>5, <2>1, <2>2
<1>7. Is(f)
  <2>1. \A n \in 0 .. N : n = 0 \/ n \in 1 .. N
    BY <1>1
  <2>2. \A n \in 0 .. N : f[n] = Val(f, n)
    BY <1>5, <1>6, <2>1
  <2> HIDE DEF Val
  <2>3. QED
    BY <1>5, <2>2
<1>8. Is(selected)
  <2> HIDE DEF Val
  <2>1. QED
    BY <1>7
<1> HIDE DEF selected
<1>9. /\ selected[0] = << >>
      /\ \A n \in 1 .. N :
           selected[n] = IF s[n] \in set THEN Append(selected[n - 1], s[n]) ELSE selected[n - 1]
  <2>1. \A n \in 0 .. N : selected[n] = Val(selected, n)
    <3> HIDE DEF Val
    <3>1. QED
      BY <1>8
  <2>2. 0 \in 0 .. N /\ \A n \in 1 .. N : n \in 0 .. N /\ n # 0
    BY <1>1
  <2>3. QED
    BY <2>1, <2>2
<1> DEFINE T == {n \in 0 .. N : selected[n] = f[n]}
<1>10. 0 \in T
  BY <1>1, <1>5, <1>9
<1>11. \A n \in 1 .. N : n - 1 \in T => n \in T
  BY <1>1, <1>6, <1>9
<1> HIDE DEF T
<1>12. \A n \in 0 .. N : n \in T
  BY <1>1, <1>10, <1>11, UpTo
<1>13. selected[N] = f[N] /\ f[N] \in V
  BY <1>1, <1>5, <1>12 DEF T
<1>14. s = << >> => N = 0
  BY DEF N
<1>15. QED
  BY <1>2, <1>9, <1>13, <1>14 DEF V

(* s is what t ends with.                                                  *)
Ends(s, t) == /\ Len(s) <= Len(t)
              /\ \A i \in 1 .. Len(s) : s[i] = t[(Len(t) - Len(s)) + i]

LEMMA EndsIsSuffix ==
  ASSUME NEW S, NEW s \in Seq(S), NEW t \in Seq(S), Ends(s, t)
  PROVE  IsSuffix(s, t)
<1> DEFINE m == Len(s)
           n == Len(t)
           a == Reverse(s)
           b == Reverse(t)
<1>1. m \in Nat /\ n \in Nat /\ m <= n
  BY DEF Ends
<1>2. a \in Seq(S) /\ Len(a) = m /\ \A i \in 1 .. m : a[i] = s[(m - i) + 1]
  BY <1>1 DEF Reverse
<1>3. b \in Seq(S) /\ Len(b) = n /\ \A i \in 1 .. n : b[i] = t[(n - i) + 1]
  BY <1>1 DEF Reverse
<1>4. ASSUME NEW i \in 1 .. m PROVE a[i] = b[i]
  <2>1. (m - i) + 1 \in 1 .. m /\ (n - m) + ((m - i) + 1) = (n - i) + 1 /\ i \in 1 .. n
    BY <1>1
  <2>2. s[(m - i) + 1] = t[(n - m) + ((m - i) + 1)]
    BY <2>1 DEF Ends
  <2>3. QED
    BY <1>2, <1>3, <2>1, <2>2
<1> HIDE DEF a, b, m, n
<1>5. SubSeq(a, 1, m) = SubSeq(b, 1, m)
  <2>1. /\ SubSeq(a, 1, m) \in Seq(S) /\ Len(SubSeq(a, 1, m)) = m
        /\ \A i \in 1 .. m : SubSeq(a, 1, m)[i] = a[i]
    BY <1>1, <1>2
  <2>2. /\ SubSeq(b, 1, m) \in Seq(S) /\ Len(SubSeq(b, 1, m)) = m
        /\ \A i \in 1 .. m : SubSeq(b, 1, m)[i] = b[i]
    BY <1>1, <1>3
  <2>3. \A i \in 1 .. m : SubSeq(a, 1, m)[i] = SubSeq(b, 1, m)[i]
    BY <1>4, <2>1, <2>2
  <2> HIDE DEF Ends
  <2>4. QED
    BY <2>1, <2>2, <2>3, SeqEqual
<1>6. QED
  BY <1>1, <1>2, <1>3, <1>5 DEF IsSuffix, IsPrefix, a, b, m, n

(* The live headers of a client are those of its creation and the          *)
(* authorization header of the last key.                                   *)
Asked == wanted.headers
         \o (IF wanted.key = Null THEN << >> ELSE << Authorization(wanted.key) >>)

LEMMA LiveAreAsked ==
  ASSUME Inv, at = "open"
  PROVE  Asked \in Seq(Slot) /\ SubSeq(headers, 1, headersCount) = Asked
<1> DEFINE n == customHeadersCount
           w == wanted.headers
           key == IF wanted.key = Null THEN << >> ELSE << Authorization(wanted.key) >>
           live == SubSeq(headers, 1, headersCount)
<1>1. w \in Seq(Slot) /\ Len(w) = n /\ n \in Nat
  <2>1. wanted.headers \in ClientHeaders \cup {<< >>}
    BY DEF Inv, TypeOK
  <2>2. wanted.headers \in Seq(Slot)
    <3>1. wanted.headers \in Seq(Headers)
      <4>1. CASE wanted.headers \in ClientHeaders
        BY <4>1, HeadersAssumption
      <4>2. CASE wanted.headers = << >>
        BY <4>2, EmptySeq
      <4>3. QED
        BY <2>1, <4>1, <4>2
    <3>2. QED
      BY <3>1 DEF Slot
  <2>3. QED
    BY <2>2 DEF Inv, HeadersInv, TypeOK
<1>2. /\ key \in Seq(Slot) /\ Len(key) = One(authHeader # NoHeader)
      /\ Len(key) \in {0, 1} /\ (Len(key) = 1 => key[1] = authHeader)
  <2>1. CASE wanted.key = Null
    BY <2>1 DEF Inv, HeadersInv, One
  <2>2. CASE wanted.key # Null
    <3>1. wanted.key \in Keys /\ Authorization(wanted.key) \in Slot
          /\ authHeader = Authorization(wanted.key) /\ authHeader # NoHeader
      BY <2>2, Constants DEF Inv, TypeOK, HeadersInv, Slot
    <3>2. QED
      BY <2>2, <3>1 DEF One
  <2>3. QED
    BY <2>1, <2>2
<1>3. headersCount = n + Len(key)
  BY <1>2 DEF Inv, HeadersAreLive
<1>4. \A i \in 1 .. headersCount : headers[i] = IF i <= n THEN w[i] ELSE authHeader
  BY DEF Inv, HeadersAreLive
<1>5. headers \in Seq(Slot) /\ headersCount \in Nat /\ headersCount <= Len(headers)
  BY <1>1 DEF Inv, TypeOK
<1>6. Asked = w \o key
  BY DEF Asked
<1> HIDE DEF n, w, key
<1>7. live \in Seq(Slot) /\ Len(live) = headersCount
      /\ \A i \in 1 .. headersCount : live[i] = headers[i]
  BY <1>5
<1>8. /\ w \o key \in Seq(Slot) /\ Len(w \o key) = headersCount
      /\ \A i \in 1 .. headersCount : (w \o key)[i] = IF i <= n THEN w[i] ELSE key[i - n]
  BY <1>1, <1>2, <1>3
<1>9. \A i \in 1 .. headersCount : live[i] = (w \o key)[i]
  <2> TAKE i \in 1 .. headersCount
  <2>1. CASE i <= n
    BY <2>1, <1>4, <1>7, <1>8
  <2>2. CASE ~(i <= n)
    <3>1. i = n + 1 /\ Len(key) = 1 /\ i - n = 1
      BY <2>2, <1>1, <1>2, <1>3
    <3>2. QED
      BY <2>2, <3>1, <1>2, <1>4, <1>7, <1>8
  <2>3. QED
    BY <2>1, <2>2
<1> HIDE DEF live
<1>10. live = w \o key
  BY <1>7, <1>8, <1>9, SeqEqual
<1>11. QED
  BY <1>6, <1>8, <1>10 DEF live

(* A header of the client gives way to those with its name.                *)
NamesOf(list) == {h.name : h \in {g \in Range(list) : HasName(g)}}

LEMMA OverriddenAreNamed ==
  ASSUME NEW list
  PROVE  {h \in Slot : ~Overridden(h, list)} = {h \in Slot : h.name \notin NamesOf(list)}
<1>1. ASSUME NEW h, Overridden(h, list) PROVE h.name \in NamesOf(list)
  <2>1. PICK i \in DOMAIN list : HasName(list[i]) /\ SameName(h, list[i])
    BY <1>1 DEF Overridden
  <2>2. list[i] \in Range(list) /\ h.name = list[i].name
    BY <2>1 DEF Range, SameName
  <2>3. QED
    BY <2>1, <2>2 DEF NamesOf
<1>2. ASSUME NEW h, h.name \in NamesOf(list) PROVE Overridden(h, list)
  <2>1. PICK g \in Range(list) : HasName(g) /\ h.name = g.name
    BY <1>2 DEF NamesOf
  <2>2. PICK i \in DOMAIN list : g = list[i]
    BY <2>1 DEF Range
  <2>3. QED
    BY <2>1, <2>2 DEF Overridden, HasName, SameName
<1>3. QED
  BY <1>1, <1>2

Kept(list) == Selected(Asked, {h \in Slot : h.name \notin NamesOf(list)})

LEMMA MergedAreKept ==
  ASSUME Inv, at = "open", NEW list \in Seq(Headers)
  PROVE  Kept(list) \in Seq(Slot) /\ list \in Seq(Slot) /\ Merged(list) = Kept(list) \o list
<1>1. Asked \in Seq(Slot) /\ SubSeq(headers, 1, headersCount) = Asked
  BY LiveAreAsked
<1>2. Kept(list) \in Seq(Slot) /\ (Asked = << >> => Kept(list) = << >>)
  BY <1>1, SelectedType DEF Kept
<1>3. list \in Seq(Slot)
  BY DEF Slot
<1>4. CASE headers = << >>
  <2>1. headersCount = 0
    BY <1>4 DEF Inv, TypeOK
  <2>2. Asked = << >>
    BY <1>1, <1>4, <2>1
  <2>3. << >> \o list = list
    BY <1>3
  <2>4. QED
    BY <1>2, <1>3, <1>4, <2>2, <2>3 DEF Merged
<1>5. CASE headers # << >>
  BY <1>1, <1>2, <1>3, <1>5, OverriddenAreNamed DEF Merged, Kept
<1>6. QED
  BY <1>4, <1>5

LEMMA HeadersAreAsked ==
  ASSUME Inv, NEW post \in BOOLEAN, NEW list \in Seq(Headers),
         NEW lost \in Nat, Request(post, list, lost), texts = wanted.texts
  PROVE  RequestsAreAsConfigured'
<1> DEFINE S == Slot \cup {ContentType}
           c == << ContentType >>
           k == Kept(list)
           all == (c \o k) \o list
           some == (IF post THEN c ELSE << >>) \o (k \o list)
           out == SubSeq(some, lost + 1, Len(some))
<1>1. k \in Seq(Slot) /\ list \in Seq(Slot) /\ Merged(list) = k \o list
  BY MergedAreKept DEF Request
<1>2. /\ sent'.made /\ sent'.post = post /\ sent'.list = list /\ sent'.lost = lost
      /\ sent'.texts = texts /\ sent'.headers = out
      /\ lost <= Len(some) /\ wanted' = wanted
  BY <1>1 DEF Request, Appended
<1>3. c \in Seq(S) /\ k \in Seq(S) /\ list \in Seq(S) /\ Len(c) = 1
  BY <1>1
<1> HIDE DEF S, c, k
<1>4. c \o (k \o list) = all /\ all \in Seq(S) /\ k \o list \in Seq(S)
      /\ Len(all) = 1 + Len(k \o list)
      /\ \A i \in 1 .. Len(k \o list) : (k \o list)[i] = all[1 + i]
  <2> DEFINE r == k \o list
  <2>1. r \in Seq(S)
    BY <1>3, ConcatProperties
  <2>2. c \o r = (c \o k) \o list
    BY <1>3, ConcatAssociative
  <2> HIDE DEF r
  <2>3. /\ c \o r \in Seq(S) /\ Len(c \o r) = 1 + Len(r)
        /\ \A i \in 1 .. Len(r) : r[i] = (c \o r)[1 + i]
    <3>1. /\ c \o r \in Seq(S) /\ Len(c \o r) = Len(c) + Len(r)
          /\ \A i \in 1 .. Len(c) + Len(r) :
               (c \o r)[i] = IF i <= Len(c) THEN c[i] ELSE r[i - Len(c)]
      BY <1>3, <2>1, ConcatProperties, Zenon
    <3>2. Len(r) \in Nat
      BY <2>1
    <3>3. ASSUME NEW i \in 1 .. Len(r) PROVE r[i] = (c \o r)[1 + i]
      <4>1. 1 + i \in 1 .. Len(c) + Len(r) /\ ~(1 + i <= Len(c)) /\ (1 + i) - Len(c) = i
        BY <1>3, <3>2
      <4>2. QED
        BY <3>1, <4>1
    <3>4. QED
      BY <1>3, <3>1, <3>3
  <2>4. QED
    BY <2>1, <2>2, <2>3 DEF r
<1>5. some \in Seq(S) /\ Ends(some, all) /\ some = (IF post THEN c ELSE << >>) \o k \o list
  <2>1. CASE post
    <3>1. some = all
      BY <2>1, <1>4
    <3> HIDE DEF some, all
    <3>2. some \in Seq(S) /\ Ends(some, all)
      BY <3>1, <1>4 DEF Ends
    <3>3. QED
      BY <2>1, <3>1, <3>2 DEF all
  <2>2. CASE ~post
    <3>1. some = k \o list
      <4>1. << >> \o (k \o list) = k \o list
        BY <1>4, ConcatEmptySeq
      <4>2. QED
        BY <2>2, <4>1
    <3>2. << >> \o k = k
      BY <1>3, ConcatEmptySeq
    <3> HIDE DEF some, all
    <3>3. some \in Seq(S) /\ Ends(some, all)
      BY <3>1, <1>4 DEF Ends
    <3>4. QED
      BY <2>2, <3>1, <3>2, <3>3
  <2>3. QED
    BY <2>1, <2>2
<1> HIDE DEF some, all
<1>6. out \in Seq(S) /\ Len(out) = Len(some) - lost
      /\ \A i \in 1 .. Len(out) : out[i] = some[lost + i]
  <2> DEFINE from == lost + 1
             to == Len(some)
  <2>1. to \in Nat /\ from \in 1 .. to + 1 /\ lost \in 0 .. to
    BY <1>2, <1>5
  <2>2. \A i \in from .. to : some[i] \in S
    BY <1>5, <2>1
  <2>3. out = SubSeq(some, from, to)
    OBVIOUS
  <2> HIDE DEF from, to, out
  <2>4. /\ out \in Seq(S) /\ Len(out) = IF from <= to THEN to - from + 1 ELSE 0
        /\ \A i \in 1 .. to - from + 1 : out[i] = some[from + i - 1]
    BY <2>1, <2>2, <2>3, SubSeqProperties
  <2>5. QED
    BY <2>1, <2>4 DEF from, to
<1>7. lost = 0 => out = some
  <2>1. lost = 0 => Len(out) = Len(some) /\ \A i \in 1 .. Len(out) : out[i] = some[i]
    BY <1>5, <1>6
  <2> HIDE DEF out
  <2>2. QED
    BY <1>5, <1>6, <2>1, SeqEqual
<1> HIDE DEF out
<1>8. Ends(out, all)
  <2>1. Len(out) <= Len(all)
    BY <1>4, <1>5, <1>6 DEF Ends
  <2>2. ASSUME NEW i \in 1 .. Len(out) PROVE out[i] = all[(Len(all) - Len(out)) + i]
    <3>1. /\ lost + i \in 1 .. Len(some)
          /\ (Len(all) - Len(some)) + (lost + i) = (Len(all) - Len(out)) + i
      BY <1>4, <1>5, <1>6
    <3>2. some[lost + i] = all[(Len(all) - Len(some)) + (lost + i)]
      BY <1>5, <3>1 DEF Ends
    <3>3. QED
      BY <1>6, <3>1, <3>2
  <2>3. QED
    BY <2>1, <2>2 DEF Ends
<1>9. IsSuffix(out, all)
  BY <1>4, <1>6, <1>8, EndsIsSuffix
<1>10. /\ sent'.lost = 0 =>
            sent'.headers = (IF sent'.post THEN << ContentType >> ELSE << >>)
                            \o Kept(sent'.list) \o sent'.list
       /\ IsSuffix(sent'.headers, << ContentType >> \o Kept(sent'.list) \o sent'.list)
       /\ sent'.texts = wanted'.texts
  BY <1>2, <1>5, <1>7, <1>9 DEF c, k, all
<1>11. QED
  BY <1>2, <1>10 DEF RequestsAreAsConfigured, Kept, Asked, NamesOf

(* What was set last is what the client holds.                             *)
TextsInv == texts = wanted.texts

LEMMA TextsNext == Inv /\ TextsInv /\ [Next]_vars => TextsInv'
<1> SUFFICES ASSUME Inv, TextsInv, [Next]_vars PROVE texts' = wanted'.texts
  BY DEF TextsInv
<1>1. wanted.texts = texts /\ texts \in [TextFields -> {Null} \cup Texts]
      /\ wanted = [headers |-> wanted.headers, key |-> wanted.key, texts |-> texts,
                   tls |-> wanted.tls]
  BY DEF TextsInv, Inv, TypeOK
<1> HIDE DEF Inv
<1>2. CASE UNCHANGED << texts, wanted >>
  BY <1>1, <1>2
<1>3. ASSUME NEW list, NEW base, NEW model, Create(list, base, model)
      PROVE  texts' = wanted'.texts
  BY <1>3 DEF Create, NothingWanted
<1>4. CASE CopyHeader
  <2>1. texts' = texts
    BY <1>4 DEF CopyHeader
  <2>2. wanted' = [wanted EXCEPT !.headers = call.list] \/ wanted' = wanted
    BY <1>4 DEF CopyHeader
  <2>3. QED
    BY <1>1, <2>1, <2>2
<1>5. CASE Destroyed
  BY <1>5 DEF Destroyed, NothingWanted
<1>6. ASSUME NEW key, SetApiKey(key) PROVE texts' = wanted'.texts
  BY <1>1, <1>6 DEF SetApiKey
<1>7. CASE ClearApiKey
  BY <1>1, <1>7 DEF ClearApiKey
<1>8. ASSUME NEW field \in TextFields, NEW text, SetText(field, text)
      PROVE  texts' = wanted'.texts
  BY <1>1, <1>8 DEF SetText
<1>9. CASE SetTlsConfig
  BY <1>1, <1>9 DEF SetTlsConfig
<1>10. CASE ClearTlsConfig
  BY <1>1, <1>10 DEF ClearTlsConfig
<1>11. CASE Refuses \/ CreateFails \/ CopyPath \/ CopyPathFails \/ UNCHANGED vars
  BY <1>2, <1>11 DEF Refuses, CreateFails, CopyPath, CopyPathFails, vars
<1>12. ASSUME NEW t, BeginTls(t) PROVE UNCHANGED << texts, wanted >>
  BY <1>12 DEF BeginTls
<1>13. ASSUME NEW list, RequestFails(list) PROVE UNCHANGED << texts, wanted >>
  BY <1>13 DEF RequestFails, Refuses
<1>14. ASSUME NEW post, NEW list, NEW lost, Request(post, list, lost)
       PROVE  UNCHANGED << texts, wanted >>
  BY <1>14 DEF Request
<1>15. \A text : SetModel(text) \/ SetProxy(text) \/ SetNoProxy(text) => texts' = wanted'.texts
  BY <1>8 DEF SetModel, SetProxy, SetNoProxy, TextFields
<1>16. QED
  BY <1>2, <1>3, <1>4, <1>5, <1>6, <1>7, <1>9, <1>10, <1>11, <1>12, <1>13, <1>14, <1>15
     DEF Next, CopyHeaderFails, Destroy

(* A request carries its own headers, last and in their order, and before  *)
(* them the live ones of the client whose name it does not use; and the    *)
(* URL, the model and the proxies set last: see llm_header_set_init and    *)
(* append_headers.  Needs that the array holds what was asked for, however *)
(* often keys were set and cleared (LiveAreAsked).                         *)
THEOREM RequestsAreAsSet == Spec => []RequestsAreAsConfigured
<1> DEFINE J == Inv /\ TextsInv /\ RequestsAreAsConfigured
<1>1. Init => J
  BY InitInv DEF Init, TextsInv, FreshClient, NothingWanted, RequestsAreAsConfigured, NoRequest
<1>2. J /\ [Next]_vars => J'
  <2> SUFFICES ASSUME J, [Next]_vars PROVE RequestsAreAsConfigured'
    BY NextInv, TextsNext
  <2>1. ASSUME NEW post \in BOOLEAN, NEW list \in RequestHeaders,
               NEW lost \in 0 .. 1 + headersCount + Len(list), Request(post, list, lost)
        PROVE  RequestsAreAsConfigured'
    <3>1. list \in Seq(Headers) /\ lost \in Nat
      BY HeadersAssumption
    <3>2. QED
      BY <2>1, <3>1, HeadersAreAsked DEF TextsInv
  <2>2. CASE UNCHANGED vars
    <3>1. sent' = sent /\ wanted' = wanted
      BY <2>2 DEF vars
    <3>2. QED
      BY <3>1 DEF RequestsAreAsConfigured
  <2>3. CASE sent' = NoRequest
    BY <2>3 DEF RequestsAreAsConfigured, NoRequest
  <2>4. sent = NoRequest \/ at = "open"
    BY DEF Inv, TlsInv
  <2>5. CASE CopyHeader \/ CopyPath \/ CopyPathFails \/ SetTlsConfig
    BY <2>3, <2>4, <2>5 DEF CopyHeader, CopyPath, CopyPathFails, SetTlsConfig
  <2> QED
    BY <2>1, <2>2, <2>3, <2>5 DEF Next, CreateFails, Create, CopyHeaderFails, Destroy, Destroyed,
       Refuses, SetApiKey, ClearApiKey, SetModel, SetProxy, SetNoProxy, SetText, BeginTls,
       ClearTlsConfig, RequestFails, Accepts
<1>3. J => RequestsAreAsConfigured
  OBVIOUS
<1> QED
  BY <1>1, <1>2, <1>3, PTL DEF Spec
=============================================================================
