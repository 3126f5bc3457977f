----------------------------- MODULE JsonGrammar -----------------------------
(***************************************************************************)
(* What a JSON text is, by recursive descent: what may stand at a place of *)
(* a text, and the tokens of all that follows it up to the end of the      *)
(* container it stands in.  It has no stack, no tokens to fill in later,   *)
(* no room and no interruptions, and knows what a string or a number is by *)
(* its grammar.  The tokenizer is compared with it, and JsonReference      *)
(* compares it with the trees of the grammar.                              *)
(***************************************************************************)
EXTENDS Jstok

Part(s, i, j) == SubSeq(s, i, j - 1)

(* What was read from some position: where it ends, its tokens in order,   *)
(* the number of values among its outermost ones, and how deep its         *)
(* containers nest.  No text ends at 0.                                    *)
Stretch == [end : Nat, tokens : Seq(Token), count : Nat, depth : Nat]
Unreadable == [end |-> 0, tokens |-> << >>, count |-> 0, depth |-> 0]
Empty(end) == [end |-> end, tokens |-> << >>, count |-> 0, depth |-> 0]

Larger(m, n) == IF m >= n THEN m ELSE n
Followed(first, rest) ==
  IF first.end = 0 \/ rest.end = 0 THEN Unreadable
  ELSE [end |-> rest.end, tokens |-> first.tokens \o rest.tokens,
        count |-> first.count + rest.count, depth |-> Larger(first.depth, rest.depth)]

TokenOf(type, start, end, size) == [type |-> type, start |-> start, end |-> end, size |-> size]

-----------------------------------------------------------------------------
(* Scalars.                                                                *)

(* Where the string ends whose characters from some place on are still to  *)
(* be read.                                                                *)
StringClose(s, from) ==
  LET Close[i \in Nat \ {0}] ==
        IF i > Len(s) \/ s[i] \in {Control, Newline} THEN 0
        ELSE IF s[i] = Quote THEN i
        ELSE IF s[i] # Backslash THEN Close[i + 1]
        ELSE IF i < Len(s) /\ s[i + 1] \in Simple THEN Close[i + 2]
        ELSE IF /\ i + 5 <= Len(s) /\ s[i + 1] = "u"
                /\ \A k \in i + 2 .. i + 5 : s[k] \in Hex
             THEN Close[i + 6]
        ELSE 0
  IN Close[from]

StringAt(s, i, count) ==
  LET close == StringClose(s, i + 1)
  IN IF close = 0 THEN Unreadable
     ELSE [end |-> close + 1, tokens |-> << TokenOf(JSTOK_STRING, i + 1, close, 0) >>,
           count |-> count, depth |-> 0]

(* s[i .. j - 1] is digits, a whole number, a number.                      *)
AreDigits(s, i, j) == i < j /\ \A k \in i .. j - 1 : s[k] \in Digits
IsWhole(s, i, j) ==
  LET abs == IF s[i] = "-" THEN i + 1 ELSE i
  IN AreDigits(s, abs, j) /\ (s[abs] = "0" => j = abs + 1)
IsFraction(s, i, j) == s[i] = "." /\ AreDigits(s, i + 1, j)
IsExponent(s, i, j) ==
  /\ s[i] \in {"e", "E"}
  /\ \/ AreDigits(s, i + 1, j)
     \/ i + 1 < j /\ s[i + 1] \in {"+", "-"} /\ AreDigits(s, i + 2, j)
IsNumber(s, i, j) ==
  \E a \in i + 1 .. j :
    /\ IsWhole(s, i, a)
    /\ \E b \in a .. j : /\ a = b \/ IsFraction(s, a, b)
                         /\ b = j \/ IsExponent(s, b, j)

(* A primitive ends at a delimiter, a literal at the end of the text too.  *)
IsPrimitive(s, i, j) ==
  \/ Part(s, i, j) \in Literals /\ (j <= Len(s) => IsDelim(s[j]))
  \/ j <= Len(s) /\ IsNumber(s, i, j) /\ IsDelim(s[j])

PrimitiveAt(s, i) ==
  LET ends == {j \in i + 1 .. Len(s) + 1 : IsPrimitive(s, i, j)}
      end == CHOOSE j \in ends : TRUE
  IN IF ends = {} THEN Unreadable
     ELSE [end |-> end, tokens |-> << TokenOf(JSTOK_PRIMITIVE, i, end, 0) >>,
           count |-> 1, depth |-> 0]

-----------------------------------------------------------------------------
(* Containers.                                                             *)

ContainerOf(type, i, inside) ==
  IF inside.end = 0 THEN Unreadable
  ELSE [end |-> inside.end,
        tokens |-> << TokenOf(type, i, inside.end, inside.count) >> \o inside.tokens,
        count |-> 1, depth |-> 1 + inside.depth]

(* The places of a text: those of a container, and among the values of the *)
(* whole text, which follow one another with nothing between them.         *)
TopLevel == "TOP_LEVEL"
TextPlaces == ObjectStates \cup ArrayStates \cup {TopLevel}
KeyPlaces == {"KEY_OR_END", "KEY"}
ValuePlaces == {"OBJ_VALUE", "VALUE_OR_END", "ARR_VALUE", TopLevel}
AfterItem(place) ==
  IF place \in KeyPlaces THEN "COLON"
  ELSE IF place = TopLevel THEN TopLevel
  ELSE IF place \in ArrayStates THEN "ARR_COMMA_OR_END" ELSE "OBJ_COMMA_OR_END"

(* The key or value at position i; inside is what follows its bracket, if  *)
(* it is a container.                                                      *)
FirstPlace(opener) == IF opener = "{" THEN "KEY_OR_END" ELSE "VALUE_OR_END"
ItemAt(place, s, i, inside) ==
  IF place \in KeyPlaces THEN (IF s[i] = Quote THEN StringAt(s, i, 0) ELSE Unreadable)
  ELSE IF place \notin ValuePlaces THEN Unreadable
  ELSE IF s[i] = "{" THEN ContainerOf(JSTOK_OBJECT, i, inside)
  ELSE IF s[i] = "[" THEN ContainerOf(JSTOK_ARRAY, i, inside)
  ELSE IF s[i] = Quote THEN StringAt(s, i, 1)
  ELSE PrimitiveAt(s, i)

Closer(place) ==
  IF place \in {"KEY_OR_END", "OBJ_COMMA_OR_END"} THEN {"}"}
  ELSE IF place \in {"VALUE_OR_END", "ARR_COMMA_OR_END"} THEN {"]"}
  ELSE {}

(* What separates one place from the next.                                 *)
Separates(place, char) ==
  (char = ":" /\ place = "COLON") \/ (char = "," /\ place \in {"OBJ_COMMA_OR_END", "ARR_COMMA_OR_END"})
AfterSeparator(place) ==
  IF place = "COLON" THEN "OBJ_VALUE" ELSE IF place = "OBJ_COMMA_OR_END" THEN "KEY" ELSE "ARR_VALUE"

(* All from such a place on, at position i, to the end of its container.   *)
RestsOf(s) ==
  LET Rest[at \in TextPlaces \X (Nat \ {0})] ==
        LET place == at[1]
            i == at[2]
            item == ItemAt(place, s, i, Rest[<< FirstPlace(s[i]), i + 1 >>])
        IN IF i > Len(s) THEN (IF place = TopLevel THEN Empty(i) ELSE Unreadable)
           ELSE IF s[i] \in Spaces THEN Rest[<< place, i + 1 >>]
           ELSE IF s[i] \in Closer(place) THEN Empty(i + 1)
           ELSE IF Separates(place, s[i]) THEN Rest[<< AfterSeparator(place), i + 1 >>]
           ELSE IF item.end = 0 THEN Unreadable
           ELSE Followed(item, Rest[<< AfterItem(place), item.end >>])
  IN Rest

ReadingOf(s) == RestsOf(s)[<< TopLevel, 1 >>]

-----------------------------------------------------------------------------
(* What a call returned is what the text is.  A number of tokens: the part *)
(* shown can be read, no deeper than the stack, its tokens are those the   *)
(* caller got, and a call that only counts counts them.  PART: the part    *)
(* shown cannot be read.  INVAL: nor can the text, however much of it was  *)
(* shown, so no text is refused before it is wrong.  NOMEM and DEPTH: a    *)
(* reading has more tokens than there was room for, or is nested deeper    *)
(* than the stack.  The answer is the same wherever the text was cut and   *)
(* resumed (include/jstok.h, jstok_parse: "Count-only mode",               *)
(* "Incremental-friendly").                                                *)
TokensAreTheTexts ==
  rc # Running =>
    LET given == ReadingOf(Shown)
        both == {given, ReadingOf(text)}
    IN /\ rc >= 0 => /\ given.end # 0 /\ rc = Len(given.tokens) /\ given.depth <= MaxDepth
                     /\ tokens = IF room = CountOnly THEN << >> ELSE given.tokens
       /\ rc = PART => given.end = 0
       /\ rc = INVAL => \A r \in both : r.end = 0
       /\ rc = NOMEM => \A r \in both : r.end # 0 => Len(r.tokens) > room
       /\ rc = DEPTH => \A r \in both : r.end # 0 => r.depth > MaxDepth

=============================================================================
