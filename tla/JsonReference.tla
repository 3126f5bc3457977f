---------------------------- MODULE JsonReference ----------------------------
(***************************************************************************)
(* What a JSON text is, by its grammar and not by an algorithm: the trees  *)
(* that a stretch of text can be read as, found by trying every place      *)
(* where it could be divided.  The tokenizer, the readers and the writers  *)
(* are compared with it.  A stretch s[i .. j - 1] is given by i and j.     *)
(***************************************************************************)
EXTENDS JsonGrammar

LOCAL INSTANCE SequencesExt

IsBlank(s, i, j) == \A k \in i .. j - 1 : s[k] \in Spaces

(* Strings without their quotes.                                           *)
RECURSIVE IsStringBody(_)
IsStringBody(w) ==
  \/ w = << >>
  \/ /\ w[1] \notin {Quote, Backslash, Control, Newline}
     /\ IsStringBody(Tail(w))
  \/ /\ Len(w) >= 2 /\ w[1] = Backslash /\ w[2] \in Simple
     /\ IsStringBody(SubSeq(w, 3, Len(w)))
  \/ /\ Len(w) >= 6 /\ w[1] = Backslash /\ w[2] = "u"
     /\ \A k \in 3..6 : w[k] \in Hex
     /\ IsStringBody(SubSeq(w, 7, Len(w)))

(* A tree: the span of its token, and its elements, or its keys and        *)
(* values by turns.                                                        *)
Tree(type, start, end, kids) == [type |-> type, start |-> start, end |-> end, kids |-> kids]

RECURSIVE Values(_, _, _), Trimmed(_, _, _), Lists(_, _, _, _)

(* The trees of a stretch without blanks around it: one, or none.          *)
Values(s, i, j) ==
  IF i >= j THEN {}
  ELSE IF s[i] = Quote
  THEN IF j >= i + 2 /\ s[j - 1] = Quote /\ IsStringBody(Part(s, i + 1, j - 1))
       THEN {Tree(JSTOK_STRING, i + 1, j - 1, << >>)} ELSE {}
  ELSE IF s[i] = "["
  THEN IF s[j - 1] # "]" THEN {}
       ELSE {Tree(JSTOK_ARRAY, i, j, kids) : kids \in Lists(s, i + 1, j - 1, FALSE)}
  ELSE IF s[i] = "{"
  THEN IF s[j - 1] # "}" THEN {}
       ELSE {Tree(JSTOK_OBJECT, i, j, kids) : kids \in Lists(s, i + 1, j - 1, TRUE)}
  ELSE IF Part(s, i, j) \in Literals \/ IsNumber(s, i, j)
       THEN {Tree(JSTOK_PRIMITIVE, i, j, << >>)} ELSE {}

Trimmed(s, i, j) ==
  IF i >= j THEN {}
  ELSE IF s[i] \in Spaces THEN Trimmed(s, i + 1, j)
  ELSE IF s[j - 1] \in Spaces THEN Trimmed(s, i, j - 1)
  ELSE Values(s, i, j)

Pairs(s, i, j) ==
  UNION {LET keys == {t \in Trimmed(s, i, c) : t.type = JSTOK_STRING}
         IN IF keys = {} THEN {} ELSE {<< k, v >> : k \in keys, v \in Trimmed(s, c + 1, j)}
         : c \in {c \in i .. j - 1 : s[c] = ":"}}

(* What stands between the brackets of an array, or of an object.          *)
Lists(s, i, j, pairs) ==
  LET One(a, b) == IF pairs THEN Pairs(s, a, b) ELSE {<< v >> : v \in Trimmed(s, a, b)}
      Several == UNION {LET firsts == One(i, c)
                        IN IF firsts = {} THEN {}
                           ELSE {first \o rest : first \in firsts,
                                                 rest \in Lists(s, c + 1, j, pairs) \ {<< >>}}
                        : c \in {c \in i .. j - 1 : s[c] = ","}}
  IN IF IsBlank(s, i, j) THEN {<< >>} ELSE One(i, j) \cup Several

(* The values of a whole text, one after the other, as the tokenizer takes *)
(* them when it is not strict: a primitive ends at a delimiter, a literal  *)
(* at the end of the text too.                                             *)
RECURSIVE RootsFrom(_, _)
RootsFrom(s, i) ==
  IF IsBlank(s, i, Len(s) + 1) THEN {<< >>}
  ELSE IF s[i] \in Spaces THEN RootsFrom(s, i + 1)
  ELSE LET Ends(j) == s[i] \notin {Quote, "[", "{"}
                        => IF j <= Len(s) THEN s[j] \in Spaces
                           ELSE Part(s, i, j) \in Literals
           ends == {j \in i + 1 .. Len(s) + 1 : Ends(j) /\ Values(s, i, j) # {}}
       IN UNION {{<< v >> \o rest : v \in Values(s, i, j), rest \in RootsFrom(s, j)} : j \in ends}
Roots(s) == RootsFrom(s, 1)

(* The tokens of trees, each before those of its kids.                     *)
RECURSIVE TokensOf(_)
TokensOf(trees) ==
  IF trees = << >> THEN << >>
  ELSE LET t == Head(trees)
           size == IF t.type = JSTOK_OBJECT THEN Len(t.kids) \div 2 ELSE Len(t.kids)
       IN << [type |-> t.type, start |-> t.start, end |-> t.end, size |-> size] >>
          \o TokensOf(t.kids) \o TokensOf(Tail(trees))

RECURSIVE DepthOf(_)
DepthOf(trees) ==
  IF trees = << >> THEN 0
  ELSE LET t == Head(trees)
           depth == IF t.type \in {JSTOK_OBJECT, JSTOK_ARRAY} THEN 1 + DepthOf(t.kids) ELSE 0
       IN Max({depth, DepthOf(Tail(trees))})

-----------------------------------------------------------------------------
(* The trees of a text, and what recursive descent makes of it, are one    *)
(* reading: of every part of the model's texts there is one or none, with  *)
(* the same tokens and as deep.                                            *)
ASSUME DescentFindsTheTrees ==
  \A t \in Texts : \A n \in 0 .. Len(t) :
    LET s == SubSeq(t, 1, n)
        r == ReadingOf(s)
    IN {<< TokensOf(trees), DepthOf(trees) >> : trees \in Roots(s)}
         = IF r.end = 0 THEN {} ELSE {<< r.tokens, r.depth >>}

=============================================================================
