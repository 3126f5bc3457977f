------------------------------- MODULE Jstok --------------------------------
(***************************************************************************)
(* The JSON tokenizer of src/include/jstok.h, built without JSTOK_STRICT,  *)
(* as the library builds it.  One call of jstok_parse is a sequence of     *)
(* actions, one for each turn of its loop; between calls the caller may    *)
(* show it more of the same buffer (More) or begin with another one        *)
(* (Begin).  A character is a value of its own: the ones the grammar names *)
(* are strings of their spelling, any other value is a character or a      *)
(* whole word that only occurs within strings.  Positions count from 1,    *)
(* and a token's end is the position after its last character.             *)
(***************************************************************************)
EXTENDS Integers, Sequences, FiniteSets

CONSTANTS
  MaxDepth,   \* JSTOK_MAX_DEPTH
  Literals,   \* the spellings of true, false and null
  Texts,      \* bound of the model: the buffers of the callers
  Rooms       \* bound of the model: the room there may be for tokens

CountOnly == -1     \* the room of a call that only counts: tokens == NULL

NOMEM == -1
INVAL == -2
PART == -3
DEPTH == -4
Running == -5       \* no value of the code: the call has not returned
Errors == {NOMEM, INVAL, PART, DEPTH}

ASSUME DepthAssumption == MaxDepth \in Nat \ {0}
ASSUME TextsAssumption == Texts \subseteq Seq(STRING)
ASSUME RoomsAssumption == Rooms \subseteq Nat

VARIABLES
  text,      \* the caller's buffer
  shown,     \* json_len: how much of it the call may see
  room,      \* max_tokens, or CountOnly
  pos,       \* where the parser is
  stack,     \* the open containers: [type, st, tok], tok = 0 when counting
  tokens,    \* [type, start, end, size]; end = -1 while a container is open
  toknext,   \* the number of tokens found
  rc         \* what the last call returned, or Running

vars == << text, shown, room, pos, stack, tokens, toknext, rc >>

-----------------------------------------------------------------------------
(* Characters.                                                             *)

Quote == "\""
Backslash == "\\"
Space == " "
Newline == "newline"    \* a character below 0x20 that is white space
Control == "control"    \* a character below 0x20 that is none
Digits == {"0", "1"}
Hex == Digits \cup {"a", "b", "e", "E", "f"}
Simple == {Quote, Backslash, "/", "b", "f", "n", "r", "t"}

Spaces == {Space, Newline}
IsDelim(c) == c \in {",", "]", "}"} \cup Spaces

(* The tokenizer knows a literal by its first character, which begins      *)
(* nothing else, and its end by what follows it.                           *)
ASSUME LiteralsAssumption ==
  /\ Literals \subseteq Seq(STRING) \ {<< >>}
  /\ \A lit \in Literals : /\ lit[1] \notin Digits \cup {"-", "{", "[", ":", Quote}
                            /\ \A k \in DOMAIN lit : ~IsDelim(lit[k])
  /\ \A lit, other \in Literals : lit[1] = other[1] => lit = other

-----------------------------------------------------------------------------
(* Scanning.  A result is the position after what was scanned, or an error *)
(* (less than 0); s is the part of the buffer that is shown.               *)

(* jstok_parse_string_token: the position of the closing quote.            *)
UnicodeEscape(s, i) ==
  LET wrong == {k \in 1..4 : i + k > Len(s) \/ s[i + k] \notin Hex}
      first == CHOOSE k \in wrong : \A j \in wrong : k <= j
  IN IF wrong = {} THEN i + 5
     ELSE IF i + first > Len(s) THEN PART ELSE INVAL

(* The character at i is the one a backslash escapes: an odd number of     *)
(* backslashes ends right before it.                                       *)
IsEscaped(s, from, i) ==
  LET run == {k \in from .. i - 1 : \A j \in k .. i - 1 : s[j] = Backslash}
  IN Cardinality(run) % 2 = 1

(* What the escape whose backslash is at i ends in.                        *)
EscapeEnd(s, i) ==
  IF i + 1 > Len(s) THEN PART
  ELSE IF s[i + 1] \in Simple THEN i + 2
  ELSE IF s[i + 1] = "u" THEN UnicodeEscape(s, i + 1)
  ELSE INVAL

(* The first character that ends the string, for good or ill.              *)
StringEnd(s, from) ==
  LET Stops(i) == \/ s[i] \in {Quote, Control, Newline}
                  \/ s[i] = Backslash /\ EscapeEnd(s, i) < 0
      stops == {i \in from .. Len(s) : Stops(i) /\ ~IsEscaped(s, from, i)}
      first == CHOOSE i \in stops : \A j \in stops : i <= j
  IN IF stops = {} THEN PART
     ELSE IF s[first] = Quote THEN first
     ELSE IF s[first] = Backslash THEN EscapeEnd(s, first)
     ELSE INVAL

(* Mutant of LiteralEnd: nothing need follow a literal.                    *)
LiteralEnd_Anything(s, from, lit) ==
  IF \A k \in DOMAIN lit : from + k - 1 <= Len(s) /\ s[from + k - 1] = lit[k]
  THEN from + Len(lit) ELSE PART

(* jstok_parse_literal: what follows a literal is a delimiter or the end.  *)
LiteralEnd(s, from, lit) ==
  LET wrong == {k \in DOMAIN lit : from + k - 1 > Len(s) \/ s[from + k - 1] # lit[k]}
      first == CHOOSE k \in wrong : \A j \in wrong : k <= j
      end == from + Len(lit)
  IN IF wrong # {} THEN (IF from + first - 1 > Len(s) THEN PART ELSE INVAL)
     ELSE IF end <= Len(s) /\ ~IsDelim(s[end]) THEN INVAL
     ELSE end

(* At least one digit and all that follow.                                 *)
SkipDigits(s, from) ==
  LET others == {i \in from..Len(s) : s[i] \notin Digits}
  IN IF from < 0 THEN from
     ELSE IF from > Len(s) THEN PART
     ELSE IF s[from] \notin Digits THEN INVAL
     ELSE IF others = {} THEN Len(s) + 1
     ELSE CHOOSE i \in others : \A j \in others : i <= j

(* jstok_parse_number_span: a number at the end of what is shown may go on *)
(* in what is not, so it is never complete.                                *)
NumberEnd(s, from) ==
  LET Is(i, c) == i > 0 /\ i <= Len(s) /\ s[i] \in c
      sign == IF Is(from, {"-"}) THEN from + 1 ELSE from
      int == IF Is(sign, {"0"}) THEN sign + 1 ELSE SkipDigits(s, sign)
      frac == IF Is(int, {"."}) THEN SkipDigits(s, int + 1) ELSE int
      exp == IF ~Is(frac, {"e", "E"}) THEN frac
             ELSE IF Is(frac + 1, {"+", "-"}) THEN SkipDigits(s, frac + 2)
             ELSE SkipDigits(s, frac + 1)
  IN IF exp < 0 THEN exp
     ELSE IF exp > Len(s) THEN PART
     ELSE IF ~IsDelim(s[exp]) THEN INVAL
     ELSE exp

PrimitiveEnd(s, from) ==
  IF \E lit \in Literals : s[from] = lit[1]
  THEN LiteralEnd(s, from, CHOOSE lit \in Literals : s[from] = lit[1])
  ELSE NumberEnd(s, from)

-----------------------------------------------------------------------------
(* Frames and tokens.                                                      *)

JSTOK_OBJECT == "object"
JSTOK_ARRAY == "array"
JSTOK_STRING == "string"
JSTOK_PRIMITIVE == "primitive"
Types == {JSTOK_OBJECT, JSTOK_ARRAY, JSTOK_STRING, JSTOK_PRIMITIVE}

ObjectStates == {"KEY_OR_END", "KEY", "COLON", "OBJ_VALUE", "OBJ_COMMA_OR_END"}
ArrayStates == {"VALUE_OR_END", "ARR_VALUE", "ARR_COMMA_OR_END"}

Shown == SubSeq(text, 1, shown)
Top == stack[Len(stack)]
TopIs(states) == stack # << >> /\ Top.st \in states
SetTop(st) == [stack EXCEPT ![Len(stack)].st = st]

(* jstok_accept_value: where a value may stand, and what it does to the    *)
(* container it stands in.                                                 *)
ValueFits == stack = << >> \/ TopIs({"OBJ_VALUE", "VALUE_OR_END", "ARR_VALUE"})
StackWithValue ==
  IF stack = << >> THEN stack
  ELSE SetTop(IF Top.type = JSTOK_ARRAY THEN "ARR_COMMA_OR_END" ELSE "OBJ_COMMA_OR_END")
TokensWithValue ==
  IF stack = << >> \/ Top.tok = 0 THEN tokens
  ELSE [tokens EXCEPT ![Top.tok].size = @ + 1]

(* jstok_new_token                                                         *)
IsFull == room # CountOnly /\ toknext >= room
WithToken(toks, type, start, end) ==
  IF room = CountOnly THEN toks
  ELSE Append(toks, [type |-> type, start |-> start, end |-> end, size |-> 0])

-----------------------------------------------------------------------------
(* The caller.                                                             *)

Init ==
  /\ text = << >> /\ shown = 0 /\ room = CountOnly
  /\ pos = 1 /\ stack = << >> /\ tokens = << >> /\ toknext = 0
  /\ rc = 0

(* jstok_init, then the first call: n of the characters of t are there.    *)
Begin(t, n, max) ==
  /\ rc # Running
  /\ text' = t /\ shown' = n /\ room' = max
  /\ pos' = 1 /\ stack' = << >> /\ tokens' = << >> /\ toknext' = 0
  /\ rc' = Running

(* The same parser, buffer and tokens again with more of the buffer.       *)
More(n) ==
  /\ rc = PART
  /\ n \in shown + 1 .. Len(text)
  /\ shown' = n
  /\ rc' = Running
  /\ UNCHANGED << text, room, pos, stack, tokens, toknext >>

-----------------------------------------------------------------------------
(* The turns of the loop of jstok_parse.  Only a text that goes on (PART)  *)
(* can be resumed, so where another error leaves pos is not modelled.      *)

caller == << text, shown, room >>

Turn(chars) == rc = Running /\ pos <= shown /\ text[pos] \in chars

Fails(error) ==
  /\ rc' = error
  /\ UNCHANGED << caller, pos, stack, tokens, toknext >>

SkipSpace ==
  /\ Turn(Spaces)
  /\ pos' = pos + 1
  /\ UNCHANGED << caller, stack, tokens, toknext, rc >>

(* jstok_start_container: what it did to the container around it is not    *)
(* taken back when there is no token, or no frame, for this one.           *)
StartContainer(type, opener, st) ==
  /\ Turn({opener})
  /\ \/ ~ValueFits /\ Fails(INVAL)
     \/ /\ ValueFits /\ IsFull
        /\ stack' = StackWithValue
        /\ tokens' = TokensWithValue
        /\ rc' = NOMEM
        /\ UNCHANGED << caller, pos, toknext >>
     \/ /\ ValueFits /\ ~IsFull
        /\ tokens' = WithToken(TokensWithValue, type, pos, -1)
        /\ toknext' = toknext + 1
        /\ \/ /\ Len(stack) >= MaxDepth
              /\ stack' = StackWithValue
              /\ rc' = DEPTH
              /\ UNCHANGED << caller, pos >>
           \/ /\ Len(stack) < MaxDepth
              /\ stack' = Append(StackWithValue,
                            [type |-> type, st |-> st,
                             tok |-> IF room = CountOnly THEN 0 ELSE toknext + 1])
              /\ pos' = pos + 1
              /\ UNCHANGED << caller, rc >>

StartObject == StartContainer(JSTOK_OBJECT, "{", "KEY_OR_END")
StartArray == StartContainer(JSTOK_ARRAY, "[", "VALUE_OR_END")

(* Mutant of EndContainer: the token closed is that of the outermost one.  *)
EndContainer_Outer(closer, states) ==
  /\ Turn({closer})
  /\ TopIs(states)
  /\ tokens' = IF stack[1].tok = 0 THEN tokens
               ELSE [tokens EXCEPT ![stack[1].tok].end = pos + 1]
  /\ stack' = SubSeq(stack, 1, Len(stack) - 1)
  /\ pos' = pos + 1
  /\ UNCHANGED << caller, toknext, rc >>

(* jstok_end_container                                                     *)
EndContainer(closer, states) ==
  /\ Turn({closer})
  /\ \/ ~TopIs(states) /\ Fails(INVAL)
     \/ /\ TopIs(states)
        /\ tokens' = IF Top.tok = 0 THEN tokens
                     ELSE [tokens EXCEPT ![Top.tok].end = pos + 1]
        /\ stack' = SubSeq(stack, 1, Len(stack) - 1)
        /\ pos' = pos + 1
        /\ UNCHANGED << caller, toknext, rc >>

EndObject == EndContainer("}", {"KEY_OR_END", "OBJ_COMMA_OR_END"})
EndArray == EndContainer("]", {"VALUE_OR_END", "ARR_COMMA_OR_END"})

(* A character that only moves the state of the container it stands in.    *)
Separator(char, from, to) ==
  /\ Turn({char})
  /\ TopIs({from})
  /\ stack' = SetTop(to)
  /\ pos' = pos + 1
  /\ UNCHANGED << caller, tokens, toknext, rc >>

Colon == Separator(":", "COLON", "OBJ_VALUE")
ObjectComma == Separator(",", "OBJ_COMMA_OR_END", "KEY")
ArrayComma == Separator(",", "ARR_COMMA_OR_END", "ARR_VALUE")
WrongSeparator ==
  /\ \/ Turn({":"}) /\ ~TopIs({"COLON"})
     \/ Turn({","}) /\ ~TopIs({"OBJ_COMMA_OR_END", "ARR_COMMA_OR_END"})
  /\ Fails(INVAL)

(* Mutant of Scalar: what was done to the container stays done when the    *)
(* text goes on.                                                           *)
Scalar_NoRollback(type, start, end, next, accepted, grown) ==
  \/ /\ end < 0
     /\ stack' = accepted /\ tokens' = grown
     /\ rc' = end
     /\ UNCHANGED << caller, pos, toknext >>
  \/ /\ end >= 0
     /\ stack' = accepted
     /\ tokens' = WithToken(grown, type, start, end)
     /\ toknext' = toknext + 1
     /\ pos' = next
     /\ UNCHANGED << caller, rc >>

(* A string or primitive that ends before "end" and is read on from        *)
(* "next"; end < 0 is its error.  After PART everything is as it was       *)
(* before this turn; no other error takes back what it did to its          *)
(* container.                                                              *)
Scalar(type, start, end, next, accepted, grown) ==
  \/ end = PART /\ Fails(PART)
  \/ /\ end = INVAL
     /\ stack' = accepted /\ tokens' = grown
     /\ rc' = INVAL
     /\ UNCHANGED << caller, pos, toknext >>
  \/ /\ end >= 0 /\ IsFull
     /\ stack' = accepted /\ tokens' = grown
     /\ rc' = NOMEM
     /\ UNCHANGED << caller, pos, toknext >>
  \/ /\ end >= 0 /\ ~IsFull
     /\ stack' = accepted
     /\ tokens' = WithToken(grown, type, start, end)
     /\ toknext' = toknext + 1
     /\ pos' = next
     /\ UNCHANGED << caller, rc >>

ParseKey ==
  /\ Turn({Quote})
  /\ TopIs({"KEY_OR_END", "KEY"})
  /\ \E end \in {StringEnd(Shown, pos + 1)} :
       Scalar(JSTOK_STRING, pos + 1, end, end + 1,
              IF end < 0 \/ IsFull THEN stack ELSE SetTop("COLON"), tokens)

ParseString ==
  /\ Turn({Quote})
  /\ ~TopIs({"KEY_OR_END", "KEY"})
  /\ \/ ~ValueFits /\ Fails(INVAL)
     \/ /\ ValueFits
        /\ \E end \in {StringEnd(Shown, pos + 1)} :
             Scalar(JSTOK_STRING, pos + 1, end, end + 1, StackWithValue, TokensWithValue)

ParsePrimitive ==
  /\ rc = Running /\ pos <= shown
  /\ text[pos] \notin Spaces \cup {"{", "[", "}", "]", ":", ",", Quote}
  /\ \/ ~ValueFits /\ Fails(INVAL)
     \/ /\ ValueFits
        /\ \E end \in {PrimitiveEnd(Shown, pos)} :
             Scalar(JSTOK_PRIMITIVE, pos, end, end, StackWithValue, TokensWithValue)

(* The end of what is shown: the number of tokens, or PART.                *)
EndOfInput ==
  /\ rc = Running /\ pos > shown
  /\ rc' = IF stack # << >> THEN PART ELSE toknext
  /\ UNCHANGED << caller, pos, stack, tokens, toknext >>

jstok_parse ==
  \/ SkipSpace
  \/ StartObject \/ StartArray \/ EndObject \/ EndArray
  \/ Colon \/ ObjectComma \/ ArrayComma \/ WrongSeparator
  \/ ParseKey \/ ParseString \/ ParsePrimitive
  \/ EndOfInput

Next ==
  \/ jstok_parse
  \/ \E t \in Texts : \E n \in 0..Len(t), max \in {CountOnly} \cup Rooms : Begin(t, n, max)
  \/ \E n \in 1..Len(text) : More(n)

Spec == Init /\ [][Next]_vars

-----------------------------------------------------------------------------
Token == [type : Types, start : Nat, end : Nat \cup {-1}, size : Nat]
Frame == [type : {JSTOK_OBJECT}, st : ObjectStates, tok : Nat]
           \cup [type : {JSTOK_ARRAY}, st : ArrayStates, tok : Nat]

(* State of a parser and its caller.                                       *)
TypeOK ==
  /\ text \in Seq(STRING) /\ shown \in 0 .. Len(text)
  /\ room \in Nat \cup {CountOnly}
  /\ pos \in 1 .. shown + 1
  /\ toknext \in Nat
  /\ rc \in Nat \cup Errors \cup {Running}
  /\ tokens \in Seq(Token)
  /\ Len(tokens) = IF room = CountOnly THEN 0 ELSE toknext
  /\ stack \in Seq(Frame) /\ Len(stack) <= MaxDepth

(* Tokens are numbered as they begin in the text.                          *)
StartsAscend ==
  \A i, j \in DOMAIN tokens : i < j => tokens[i].start <= tokens[j].start

(* However a text is cut and whatever it holds, no token points outside    *)
(* the part of it that was shown, none begins earlier than the one before  *)
(* it, there are no more of them than there was room for, the containers   *)
(* still open are the ones of the stack (but for one that there was no     *)
(* frame for), each of the frames has a token of its own, and a text that  *)
(* is accepted has every container closed: what tests/fuzz_json_spans.c    *)
(* asserts of the spans.                                                   *)
SpansAreInside ==
  /\ \A i \in DOMAIN tokens :
       /\ 1 <= tokens[i].start /\ tokens[i].start <= shown + 1
       /\ tokens[i].end # -1 => /\ tokens[i].start <= tokens[i].end
                                /\ tokens[i].end <= shown + 1
       /\ tokens[i].end = -1 => rc = DEPTH \/ \E k \in DOMAIN stack : stack[k].tok = i
  /\ StartsAscend
  /\ room # CountOnly => Len(tokens) <= room
  /\ \A k \in DOMAIN stack :
       IF room = CountOnly THEN stack[k].tok = 0
       ELSE /\ stack[k].tok \in DOMAIN tokens
            /\ tokens[stack[k].tok].end = -1
            /\ tokens[stack[k].tok].type = stack[k].type
            /\ \A j \in DOMAIN stack : j < k => stack[j].tok < stack[k].tok
  /\ rc >= 0 => /\ stack = << >>
                /\ \A i \in DOMAIN tokens : tokens[i].end # -1

=============================================================================
