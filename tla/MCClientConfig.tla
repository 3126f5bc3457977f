---------------------------- MODULE MCClientConfig ----------------------------
(***************************************************************************)
(* Headers that share a name in two spellings, one that is called like the *)
(* authorization header, one without a name and one that is malformed.     *)
(***************************************************************************)
EXTENDS ClientConfig

AHeader(name, spelling, value) == [name |-> name, spelling |-> spelling, value |-> value]

MCClientHeaders ==
  { << >>,
    << AHeader("x-a", "Aa", "1") >>,
    << AHeader("x-a", "aa", "1"), AHeader("authorization", "aa", "own") >>,
    << AHeader("blank", "", "2"), AHeader("x-b", "aa", "3") >>,
    << AHeader("malformed", "", "") >> }

MCRequestHeaders ==
  { << >>,
    << AHeader("x-a", "aa", "4") >>,
    << AHeader("authorization", "AA", "other"), AHeader("blank", "", "5") >>,
    << AHeader("content-type", "aa", "text") >>,
    << AHeader("malformed", "", "") >> }

MCHeaders == UNION {Range(list) : list \in MCClientHeaders \cup MCRequestHeaders}

ThePaths(bundle, dir, cert, key) ==
  [ca_bundle |-> bundle, ca_dir |-> dir, client_cert |-> cert, client_key |-> key]

ATls(path, peer, host, password, insecure) ==
  [path |-> path, peer |-> peer, host |-> host, password |-> password, insecure |-> insecure]

MCTlsConfigs ==
  { ATls(ThePaths("a", Null, Null, Null), "DEFAULT", "ON", FALSE, FALSE),
    ATls(ThePaths("", "a", Null, Null), "ON", "OFF", FALSE, FALSE),
    ATls(ThePaths(Null, Null, "a", "a"), "OFF", "DEFAULT", TRUE, FALSE),
    ATls(ThePaths("a", "a", "a", "a"), "ON", "ON", FALSE, TRUE) }
=============================================================================
