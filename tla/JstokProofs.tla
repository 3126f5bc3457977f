----------------------------- MODULE JstokProofs -----------------------------
(***************************************************************************)
(* For every text, however it is cut, every depth and every room: the      *)
(* tokenizer's state has its types, its tokens stay inside the text, what  *)
(* it returns is what JsonGrammar reads in the text, and the helpers that  *)
(* count tokens find what the text has.                                    *)
(***************************************************************************)
EXTENDS JsonGrammar, JsonMembers, FiniteSetTheorems, TLAPS, WellFoundedInduction

-----------------------------------------------------------------------------
(* A set of numbers that is not empty has a least element: what the        *)
(* scanning takes the first of a set of positions for.                     *)

Less == {p \in Nat \X Nat : p[1] < p[2]}

LEMMA LessWF == IsWellFoundedOn(Less, Nat)
<1>1. OpToRel(<, Nat) = Less
  BY DEF OpToRel, Less
<1> QED
  BY <1>1, NatLessThanWellFounded

LEMMA LeastOf ==
  ASSUME NEW T \in SUBSET Nat, T # {}
  PROVE  \E m \in T : \A k \in T : m <= k
<1>1. PICK x \in T : \A y \in T : ~ (<< y, x >> \in Less)
  BY LessWF, WFMin
<1>2. ASSUME NEW y \in T PROVE x <= y
  <2>1. x \in Nat /\ y \in Nat
    OBVIOUS
  <2>2. y < x => << y, x >> \in Less
    BY <2>1 DEF Less
  <2> QED
    BY <1>1, <2>1, <2>2
<1> QED
  BY <1>2

(* The CHOOSE of the least, as the scanning spells it.                     *)
LEMMA Chosen ==
  ASSUME NEW T \in SUBSET Nat, T # {}
  PROVE  (CHOOSE i \in T : \A j \in T : i <= j) \in T
  BY LeastOf

-----------------------------------------------------------------------------
(* What is scanned ends inside what is shown, or is an error.              *)

ScanErrors == {PART, INVAL}

LEMMA UnicodeEscapeEnds ==
  ASSUME NEW s, NEW i \in Nat
  PROVE  UnicodeEscape(s, i) \in ScanErrors \cup Nat
  BY DEF UnicodeEscape, ScanErrors

LEMMA EscapeEnds ==
  ASSUME NEW s, NEW i \in Nat
  PROVE  EscapeEnd(s, i) \in ScanErrors \cup Nat
  BY UnicodeEscapeEnds DEF EscapeEnd, ScanErrors

LEMMA StringEnds ==
  ASSUME NEW s \in Seq(STRING), NEW from \in Nat \ {0}
  PROVE  StringEnd(s, from) \in ScanErrors \cup from .. Len(s)
<1> DEFINE Stops(i) == \/ s[i] \in {Quote, Control, Newline}
                       \/ s[i] = Backslash /\ EscapeEnd(s, i) < 0
           stops == {i \in from .. Len(s) : Stops(i) /\ ~IsEscaped(s, from, i)}
           first == CHOOSE i \in stops : \A j \in stops : i <= j
<1>1. StringEnd(s, from) =
        IF stops = {} THEN PART
        ELSE IF s[first] = Quote THEN first
        ELSE IF s[first] = Backslash THEN EscapeEnd(s, first)
        ELSE INVAL
  BY DEF StringEnd
<1>2. Len(s) \in Nat /\ stops \in SUBSET Nat
  OBVIOUS
<1> HIDE DEF first
<1>3. stops # {} => first \in stops
  BY <1>2, Chosen DEF first
<1>4. stops # {} => first \in from .. Len(s) /\ Stops(first)
  BY <1>3
<1>5. (stops # {} /\ s[first] = Backslash) => EscapeEnd(s, first) \in ScanErrors
  <2> SUFFICES ASSUME stops # {}, s[first] = Backslash PROVE EscapeEnd(s, first) \in ScanErrors
    OBVIOUS
  <2>1. first \in Nat
    BY <1>2, <1>3
  <2>2. Backslash \notin {Quote, Control, Newline}
    BY DEF Backslash, Quote, Control, Newline
  <2>3. EscapeEnd(s, first) < 0
    BY <1>4, <2>2
  <2> QED
    BY <2>1, <2>3, EscapeEnds DEF ScanErrors
<1> HIDE DEF stops
<1> QED
  BY <1>1, <1>4, <1>5 DEF ScanErrors

LEMMA LiteralEnds ==
  ASSUME NEW s \in Seq(STRING), NEW from \in Nat \ {0}, NEW lit \in Literals
  PROVE  LiteralEnd(s, from, lit) \in ScanErrors \cup from .. Len(s) + 1
<1> DEFINE wrong == {k \in DOMAIN lit : from + k - 1 > Len(s) \/ s[from + k - 1] # lit[k]}
<1>1. lit \in Seq(STRING) /\ lit # << >>
  BY LiteralsAssumption
<1>2. Len(lit) \in Nat \ {0} /\ DOMAIN lit = 1 .. Len(lit)
  BY <1>1
<1>3. wrong = {} => from + Len(lit) - 1 <= Len(s)
  <2>1. Len(lit) \in DOMAIN lit
    BY <1>2
  <2> QED
    BY <2>1, <1>2
<1>4. LiteralEnd(s, from, lit) \in ScanErrors
        \/ (wrong = {} /\ LiteralEnd(s, from, lit) = from + Len(lit))
  BY DEF LiteralEnd, ScanErrors
<1> HIDE DEF wrong
<1> QED
  BY <1>2, <1>3, <1>4

LEMMA DigitsEnd ==
  ASSUME NEW s \in Seq(STRING), NEW from \in ScanErrors \cup (Nat \ {0})
  PROVE  \/ SkipDigits(s, from) \in ScanErrors
         \/ from > 0 /\ SkipDigits(s, from) \in from .. Len(s) + 1
<1> DEFINE others == {i \in from..Len(s) : s[i] \notin Digits}
<1>1. CASE from \in ScanErrors
  BY <1>1 DEF SkipDigits, ScanErrors, PART, INVAL
<1>2. CASE from \in Nat \ {0}
  <2>1. Len(s) \in Nat /\ others \in SUBSET Nat
    BY <1>2
  <2>2. others # {} => (CHOOSE i \in others : \A j \in others : i <= j) \in others
    BY <2>1, Chosen
  <2>3. others # {} => (CHOOSE i \in others : \A j \in others : i <= j) \in from .. Len(s)
    BY <2>2
  <2>4. SkipDigits(s, from) =
          IF from > Len(s) THEN PART
          ELSE IF s[from] \notin Digits THEN INVAL
          ELSE IF others = {} THEN Len(s) + 1
          ELSE CHOOSE i \in others : \A j \in others : i <= j
    BY <1>2 DEF SkipDigits
  <2> HIDE DEF others
  <2> QED
    BY <1>2, <2>1, <2>3, <2>4 DEF ScanErrors
<1> QED
  BY <1>1, <1>2

LEMMA NumberEnds ==
  ASSUME NEW s \in Seq(STRING), NEW from \in 1 .. Len(s)
  PROVE  NumberEnd(s, from) \in ScanErrors \cup from .. Len(s) + 1
<1> DEFINE Among(i, c) == i > 0 /\ i <= Len(s) /\ s[i] \in c
           sign == IF Among(from, {"-"}) THEN from + 1 ELSE from
           int == IF Among(sign, {"0"}) THEN sign + 1 ELSE SkipDigits(s, sign)
           frac == IF Among(int, {"."}) THEN SkipDigits(s, int + 1) ELSE int
           exp == IF ~Among(frac, {"e", "E"}) THEN frac
                  ELSE IF Among(frac + 1, {"+", "-"}) THEN SkipDigits(s, frac + 2)
                  ELSE SkipDigits(s, frac + 1)
           Ends(i) == i \in ScanErrors \/ i \in from .. Len(s) + 1
<1>1. NumberEnd(s, from) =
        IF exp < 0 THEN exp
        ELSE IF exp > Len(s) THEN PART
        ELSE IF ~IsDelim(s[exp]) THEN INVAL
        ELSE exp
  BY DEF NumberEnd
<1>2. Len(s) \in Nat /\ sign \in from .. Len(s) + 1
  OBVIOUS
<1> HIDE DEF sign
<1>3. Ends(int)
  BY <1>2, DigitsEnd
<1> HIDE DEF int
<1>4. Ends(frac)
  <2>1. CASE Among(int, {"."})
    <3>1. int \in from .. Len(s) /\ int + 1 \in Nat \ {0}
      BY <1>3, <2>1 DEF ScanErrors, PART, INVAL
    <3> QED
      BY <1>2, <2>1, <3>1, DigitsEnd DEF ScanErrors
  <2>2. CASE ~Among(int, {"."})
    BY <1>3, <2>2
  <2> QED
    BY <2>1, <2>2
<1> HIDE DEF frac
<1>5. Ends(exp)
  <2>1. CASE Among(frac, {"e", "E"})
    <3>1. frac \in from .. Len(s) /\ frac + 1 \in Nat \ {0} /\ frac + 2 \in Nat \ {0}
      BY <1>4, <2>1 DEF ScanErrors, PART, INVAL
    <3>2. Ends(SkipDigits(s, frac + 1)) /\ Ends(SkipDigits(s, frac + 2))
      BY <1>2, <3>1, DigitsEnd DEF ScanErrors
    <3> QED
      BY <2>1, <3>2
  <2>2. CASE ~Among(frac, {"e", "E"})
    BY <1>4, <2>2
  <2> QED
    BY <2>1, <2>2
<1> HIDE DEF exp
<1> QED
  BY <1>1, <1>2, <1>5 DEF ScanErrors

LEMMA PrimitiveEnds ==
  ASSUME NEW s \in Seq(STRING), NEW from \in 1 .. Len(s)
  PROVE  PrimitiveEnd(s, from) \in ScanErrors \cup from .. Len(s) + 1
<1>1. CASE \E lit \in Literals : s[from] = lit[1]
  <2>1. (CHOOSE lit \in Literals : s[from] = lit[1]) \in Literals
    BY <1>1
  <2> QED
    BY <1>1, <2>1, LiteralEnds DEF PrimitiveEnd
<1>2. CASE ~\E lit \in Literals : s[from] = lit[1]
  BY <1>2, NumberEnds DEF PrimitiveEnd
<1> QED
  BY <1>1, <1>2

-----------------------------------------------------------------------------
(* The inductive invariant.  What a token starts at is behind the parser,  *)
(* so that a container closed later does not end before it starts; a call  *)
(* that is under way has not failed, so every open token has its frame.    *)

StartsAreBehind == \A i \in DOMAIN tokens : tokens[i].start <= pos

Inv == TypeOK /\ SpansAreInside /\ StartsAreBehind

(* What leaves spans and frames alone: other sizes, other states.          *)
SameTokens(toks) ==
  /\ toks \in Seq(Token) /\ Len(toks) = Len(tokens)
  /\ \A i \in 1 .. Len(tokens) : /\ toks[i].start = tokens[i].start
                                 /\ toks[i].end = tokens[i].end
                                 /\ toks[i].type = tokens[i].type
SameFrames(stk) ==
  /\ stk \in Seq(Frame) /\ Len(stk) = Len(stack)
  /\ \A k \in 1 .. Len(stack) : stk[k].tok = stack[k].tok /\ stk[k].type = stack[k].type

LEMMA Unchanged ==
  ASSUME Inv
  PROVE  SameTokens(tokens) /\ SameFrames(stack)
  BY DEF Inv, TypeOK, SameTokens, SameFrames

LEMMA TopFrame ==
  ASSUME Inv, stack # << >>
  PROVE  Len(stack) \in 1 .. Len(stack) /\ Top \in Frame
<1>1. stack \in Seq(Frame)
  BY DEF Inv, TypeOK
<1>2. Len(stack) \in Nat \ {0}
  BY <1>1
<1> QED
  BY <1>1, <1>2 DEF Top

LEMMA SetTopSame ==
  ASSUME Inv, stack # << >>,
         NEW st \in IF Top.type = JSTOK_OBJECT THEN ObjectStates ELSE ArrayStates
  PROVE  SameFrames(SetTop(st))
<1>1. stack \in Seq(Frame) /\ Len(stack) \in 1 .. Len(stack) /\ Top \in Frame
  BY TopFrame DEF Inv, TypeOK
<1>2. [Top EXCEPT !.st = st] \in Frame /\ [Top EXCEPT !.st = st].tok = Top.tok
      /\ [Top EXCEPT !.st = st].type = Top.type
  BY <1>1 DEF Frame, JSTOK_OBJECT, JSTOK_ARRAY
<1>3. SetTop(st) = [stack EXCEPT ![Len(stack)] = [Top EXCEPT !.st = st]]
  BY <1>1 DEF SetTop, Top
<1>4. SetTop(st) \in Seq(Frame) /\ Len(SetTop(st)) = Len(stack)
  BY <1>1, <1>2, <1>3
<1>5. ASSUME NEW k \in 1 .. Len(stack)
      PROVE  SetTop(st)[k].tok = stack[k].tok /\ SetTop(st)[k].type = stack[k].type
  BY <1>1, <1>2, <1>3 DEF Top
<1> QED
  BY <1>4, <1>5 DEF SameFrames

LEMMA AcceptedSame ==
  ASSUME Inv
  PROVE  SameFrames(StackWithValue)
<1>1. CASE stack = << >>
  BY <1>1, Unchanged DEF StackWithValue
<1>2. CASE stack # << >>
  <2> DEFINE st == IF Top.type = JSTOK_ARRAY THEN "ARR_COMMA_OR_END" ELSE "OBJ_COMMA_OR_END"
  <2>1. Top.type \in {JSTOK_OBJECT, JSTOK_ARRAY}
    BY <1>2, TopFrame DEF Frame
  <2>2. st \in IF Top.type = JSTOK_OBJECT THEN ObjectStates ELSE ArrayStates
    BY <2>1 DEF ObjectStates, ArrayStates, JSTOK_OBJECT, JSTOK_ARRAY
  <2>3. StackWithValue = SetTop(st)
    BY <1>2 DEF StackWithValue
  <2> QED
    BY <1>2, <2>2, <2>3, SetTopSame
<1> QED
  BY <1>1, <1>2

(* The token of the container on top.                                      *)
LEMMA TopToken ==
  ASSUME Inv, stack # << >>, Top.tok # 0
  PROVE  Top.tok \in 1 .. Len(tokens) /\ tokens[Top.tok] \in Token
<1>1. stack \in Seq(Frame) /\ tokens \in Seq(Token) /\ Len(stack) \in DOMAIN stack
  BY TopFrame DEF Inv, TypeOK
<1>2. Top.tok \in DOMAIN tokens
  BY <1>1 DEF Inv, SpansAreInside, Top
<1> QED
  BY <1>1, <1>2

LEMMA LargerToken ==
  ASSUME NEW t \in Token
  PROVE  LET new == [t EXCEPT !.size = @ + 1]
         IN new \in Token /\ new.start = t.start /\ new.end = t.end /\ new.type = t.type
<1>1. t.size + 1 \in Nat
  BY DEF Token
<1> QED
  BY <1>1 DEF Token

LEMMA GrownSame ==
  ASSUME Inv
  PROVE  SameTokens(TokensWithValue)
<1>1. CASE stack = << >> \/ Top.tok = 0
  BY <1>1, Unchanged DEF TokensWithValue
<1>2. CASE stack # << >> /\ Top.tok # 0
  <2> DEFINE t == Top.tok
             new == [tokens[t] EXCEPT !.size = @ + 1]
  <2>1. tokens \in Seq(Token) /\ t \in 1 .. Len(tokens) /\ tokens[t] \in Token
    BY <1>2, TopToken DEF Inv, TypeOK
  <2>2. /\ new \in Token /\ new.start = tokens[t].start
        /\ new.end = tokens[t].end /\ new.type = tokens[t].type
    BY <2>1, LargerToken
  <2>3. TokensWithValue = [tokens EXCEPT ![t] = new]
    BY <1>2, <2>1 DEF TokensWithValue
  <2> HIDE DEF t, new
  <2>4. TokensWithValue \in Seq(Token) /\ Len(TokensWithValue) = Len(tokens)
    BY <2>1, <2>2, <2>3
  <2>5. ASSUME NEW i \in 1 .. Len(tokens)
        PROVE  /\ TokensWithValue[i].start = tokens[i].start
               /\ TokensWithValue[i].end = tokens[i].end
               /\ TokensWithValue[i].type = tokens[i].type
    BY <2>1, <2>2, <2>3
  <2> QED
    BY <2>4, <2>5 DEF SameTokens
<1> QED
  BY <1>1, <1>2

-----------------------------------------------------------------------------
(* Sequences with one more element, or one changed.                        *)

LEMMA Appended ==
  ASSUME NEW S, NEW s \in Seq(S), NEW e \in S
  PROVE  /\ Append(s, e) \in Seq(S) /\ Len(Append(s, e)) = Len(s) + 1
         /\ DOMAIN Append(s, e) = 1 .. Len(s) + 1
         /\ Append(s, e)[Len(s) + 1] = e
         /\ \A k \in 1 .. Len(s) : Append(s, e)[k] = s[k]
<1>1. Append(s, e) \in Seq(S) /\ Len(Append(s, e)) = Len(s) + 1
      /\ Append(s, e)[Len(s) + 1] = e
  OBVIOUS
<1>2. ASSUME NEW k \in 1 .. Len(s) PROVE Append(s, e)[k] = s[k]
  OBVIOUS
<1> QED
  BY <1>1, <1>2

LEMMA Replaced ==
  ASSUME NEW S, NEW s \in Seq(S), NEW i \in 1 .. Len(s), NEW e \in S
  PROVE  LET new == [s EXCEPT ![i] = e]
         IN /\ new \in Seq(S) /\ Len(new) = Len(s) /\ DOMAIN new = 1 .. Len(s)
            /\ new[i] = e /\ \A k \in 1 .. Len(s) : k # i => new[k] = s[k]
  OBVIOUS

LEMMA EndedToken ==
  ASSUME NEW t \in Token, NEW end \in Nat
  PROVE  LET new == [t EXCEPT !.end = end]
         IN new \in Token /\ new.start = t.start /\ new.end = end /\ new.type = t.type
  BY DEF Token

-----------------------------------------------------------------------------
(* The order of the tokens: a turn keeps them where they begin, or adds    *)
(* one that begins at the position or behind it.                           *)

LEMMA StillAscend ==
  ASSUME Inv, DOMAIN tokens' = 1 .. Len(tokens),
         \A i \in 1 .. Len(tokens) : tokens'[i].start = tokens[i].start
  PROVE  StartsAscend'
<1>1. DOMAIN tokens = 1 .. Len(tokens)
  BY DEF Inv, TypeOK
<1>2. \A i, j \in 1 .. Len(tokens) : i < j => tokens[i].start <= tokens[j].start
  BY <1>1 DEF Inv, SpansAreInside, StartsAscend
<1> SUFFICES ASSUME NEW i \in 1 .. Len(tokens), NEW j \in 1 .. Len(tokens), i < j
             PROVE  tokens'[i].start <= tokens'[j].start
  BY DEF StartsAscend
<1> QED
  BY <1>2

LEMMA OneMoreAscends ==
  ASSUME Inv, DOMAIN tokens' = 1 .. Len(tokens) + 1,
         \A i \in 1 .. Len(tokens) : tokens'[i].start = tokens[i].start,
         NEW start \in Nat, pos <= start, tokens'[Len(tokens) + 1].start = start
  PROVE  StartsAscend'
<1>1. /\ tokens \in Seq(Token) /\ DOMAIN tokens = 1 .. Len(tokens)
      /\ Len(tokens) \in Nat /\ pos \in Nat
  BY DEF Inv, TypeOK
<1> SUFFICES ASSUME NEW i \in 1 .. Len(tokens) + 1, NEW j \in 1 .. Len(tokens) + 1, i < j
             PROVE  tokens'[i].start <= tokens'[j].start
  BY DEF StartsAscend
<1>2. i \in 1 .. Len(tokens) /\ tokens[i] \in Token /\ tokens'[i].start = tokens[i].start
  BY <1>1
<1>3. tokens[i].start \in Nat /\ tokens[i].start <= pos
  BY <1>1, <1>2 DEF Inv, StartsAreBehind, Token
<1>4. CASE j = Len(tokens) + 1
  BY <1>1, <1>2, <1>3, <1>4
<1>5. CASE j \in 1 .. Len(tokens)
  BY <1>1, <1>2, <1>5 DEF Inv, SpansAreInside, StartsAscend
<1> QED
  BY <1>1, <1>4, <1>5

-----------------------------------------------------------------------------
(* The ways in which a turn changes tokens and frames.                     *)

LEMMA Relabelled ==
  ASSUME Inv, rc = Running,
         SameTokens(tokens'), SameFrames(stack'), UNCHANGED << caller, toknext >>,
         pos' \in pos .. shown + 1, rc' \in Errors \cup {Running}
  PROVE  Inv'
<1> USE DEF caller
<1>1. TypeOK'
  BY DEF Inv, TypeOK, SameTokens, SameFrames
<1>2. /\ tokens \in Seq(Token) /\ tokens' \in Seq(Token) /\ Len(tokens') = Len(tokens)
      /\ stack \in Seq(Frame) /\ stack' \in Seq(Frame) /\ Len(stack') = Len(stack)
      /\ DOMAIN tokens = 1 .. Len(tokens) /\ DOMAIN tokens' = 1 .. Len(tokens)
      /\ DOMAIN stack = 1 .. Len(stack) /\ DOMAIN stack' = 1 .. Len(stack)
  BY DEF Inv, TypeOK, SameTokens, SameFrames
<1>3. ASSUME NEW i \in DOMAIN tokens'
      PROVE  /\ 1 <= tokens'[i].start /\ tokens'[i].start <= shown' + 1
             /\ tokens'[i].end # -1 => /\ tokens'[i].start <= tokens'[i].end
                                       /\ tokens'[i].end <= shown' + 1
             /\ tokens'[i].end = -1 => \E k \in DOMAIN stack' : stack'[k].tok = i
  <2>1. /\ 1 <= tokens[i].start /\ tokens[i].start <= shown + 1
        /\ tokens[i].end # -1 => tokens[i].start <= tokens[i].end /\ tokens[i].end <= shown + 1
        /\ tokens[i].end = -1 => \E k \in DOMAIN stack : stack[k].tok = i
    BY <1>2 DEF Inv, SpansAreInside, Running, DEPTH
  <2>2. tokens'[i].start = tokens[i].start /\ tokens'[i].end = tokens[i].end
    BY <1>2 DEF SameTokens
  <2> QED
    BY <2>1, <2>2, <1>2 DEF SameFrames
<1>4. ASSUME NEW k \in DOMAIN stack'
      PROVE  IF room' = CountOnly THEN stack'[k].tok = 0
             ELSE /\ stack'[k].tok \in DOMAIN tokens'
                  /\ tokens'[stack'[k].tok].end = -1
                  /\ tokens'[stack'[k].tok].type = stack'[k].type
                  /\ \A j \in DOMAIN stack' : j < k => stack'[j].tok < stack'[k].tok
  <2>1. IF room = CountOnly THEN stack[k].tok = 0
        ELSE /\ stack[k].tok \in DOMAIN tokens
             /\ tokens[stack[k].tok].end = -1
             /\ tokens[stack[k].tok].type = stack[k].type
             /\ \A j \in DOMAIN stack : j < k => stack[j].tok < stack[k].tok
    BY <1>2 DEF Inv, SpansAreInside
  <2>2. /\ stack'[k].tok = stack[k].tok /\ stack'[k].type = stack[k].type
        /\ \A j \in DOMAIN stack' : stack'[j].tok = stack[j].tok
    BY <1>2 DEF SameFrames
  <2>3. room # CountOnly =>
          LET i == stack[k].tok
          IN tokens'[i].end = tokens[i].end /\ tokens'[i].type = tokens[i].type
    BY <2>1, <1>2 DEF SameTokens
  <2> QED
    BY <2>1, <2>2, <2>3, <1>2
<1>5. ~(rc' >= 0)
  BY DEF Errors, Running, NOMEM, INVAL, PART, DEPTH
<1>6. room' # CountOnly => Len(tokens') <= room'
  BY <1>2 DEF Inv, SpansAreInside
<1>7. SpansAreInside'
  <2>1. StartsAscend'
    BY <1>2, StillAscend DEF SameTokens
  <2> QED
    BY <1>3, <1>4, <1>5, <1>6, <2>1 DEF SpansAreInside
<1>8. StartsAreBehind'
  <2> SUFFICES ASSUME NEW i \in DOMAIN tokens' PROVE tokens'[i].start <= pos'
    BY DEF StartsAreBehind
  <2>1. tokens[i] \in Token /\ tokens[i].start <= pos
    BY <1>2 DEF Inv, StartsAreBehind
  <2>2. tokens'[i].start = tokens[i].start
    BY <1>2 DEF SameTokens
  <2> QED
    BY <2>1, <2>2 DEF Inv, TypeOK, Token
<1> QED
  BY <1>1, <1>7, <1>8 DEF Inv

LEMMA FailedTurn ==
  ASSUME Inv, rc = Running, NEW error \in Errors, Fails(error)
  PROVE  Inv'
<1>1. SameTokens(tokens') /\ SameFrames(stack')
  BY Unchanged DEF Fails
<1>2. pos' \in pos .. shown + 1
  BY DEF Fails, Inv, TypeOK
<1> QED
  BY <1>1, <1>2, Relabelled DEF Fails

(* The tokens with one more, when they are kept.                           *)
LEMMA OneMore ==
  ASSUME Inv, NEW grown, SameTokens(grown),
         NEW t \in Token, room # CountOnly
  PROVE  LET toks == WithToken(grown, t.type, t.start, t.end)
         IN t.size = 0 =>
              /\ toks \in Seq(Token) /\ Len(toks) = Len(tokens) + 1
              /\ toks[Len(tokens) + 1] = t
              /\ \A i \in 1 .. Len(tokens) : /\ toks[i].start = tokens[i].start
                                             /\ toks[i].end = tokens[i].end
                                             /\ toks[i].type = tokens[i].type
<1> SUFFICES ASSUME t.size = 0
             PROVE  LET toks == Append(grown, t)
                    IN /\ toks \in Seq(Token) /\ Len(toks) = Len(tokens) + 1
                       /\ toks[Len(tokens) + 1] = t
                       /\ \A i \in 1 .. Len(tokens) : /\ toks[i].start = tokens[i].start
                                                      /\ toks[i].end = tokens[i].end
                                                      /\ toks[i].type = tokens[i].type
  <2>1. t = [type |-> t.type, start |-> t.start, end |-> t.end, size |-> t.size]
    BY DEF Token
  <2> QED
    BY <2>1 DEF WithToken
<1>1. grown \in Seq(Token) /\ Len(grown) = Len(tokens)
  BY DEF SameTokens
<1>2. ASSUME NEW i \in 1 .. Len(tokens) PROVE Append(grown, t)[i] = grown[i]
  BY <1>1
<1> QED
  BY <1>1, <1>2 DEF SameTokens

(* A string or primitive is found.                                         *)
LEMMA ScalarFound ==
  ASSUME Inv, rc = Running, ~IsFull,
         NEW grown, SameTokens(grown), SameFrames(stack'),
         NEW type \in Types, NEW start \in Nat \ {0}, NEW end \in Nat,
         pos <= start, start <= end, end <= shown + 1, start <= pos', pos' \in pos .. shown + 1,
         tokens' = WithToken(grown, type, start, end), toknext' = toknext + 1,
         UNCHANGED << caller, rc >>
  PROVE  Inv'
<1> USE DEF caller
<1> DEFINE t == [type |-> type, start |-> start, end |-> end, size |-> 0]
<1>1. t \in Token
  BY DEF Token
<1>2. /\ stack \in Seq(Frame) /\ stack' \in Seq(Frame) /\ Len(stack') = Len(stack)
      /\ DOMAIN stack = 1 .. Len(stack) /\ DOMAIN stack' = 1 .. Len(stack)
      /\ tokens \in Seq(Token) /\ DOMAIN tokens = 1 .. Len(tokens)
  BY DEF Inv, TypeOK, SameFrames
<1>3. CASE room = CountOnly
  <2>1. tokens' = grown /\ tokens' \in Seq(Token) /\ Len(tokens') = 0 /\ Len(tokens) = 0
    BY <1>3 DEF WithToken, SameTokens, Inv, TypeOK
  <2>2. DOMAIN tokens' = {}
    BY <2>1
  <2>3. TypeOK'
    BY <1>3, <2>1, <1>2 DEF Inv, TypeOK
  <2>4. SpansAreInside'
    <3>1. ASSUME NEW k \in DOMAIN stack' PROVE stack'[k].tok = 0
      BY <1>2, <1>3 DEF Inv, SpansAreInside, SameFrames
    <3> QED
      BY <2>2, <3>1, <1>3 DEF SpansAreInside, StartsAscend, Running
  <2> QED
    BY <2>2, <2>3, <2>4 DEF Inv, StartsAreBehind
<1>4. CASE room # CountOnly
  <2>1. /\ tokens' \in Seq(Token) /\ Len(tokens') = Len(tokens) + 1
        /\ tokens'[Len(tokens) + 1] = t
        /\ \A i \in 1 .. Len(tokens) : /\ tokens'[i].start = tokens[i].start
                                       /\ tokens'[i].end = tokens[i].end
                                       /\ tokens'[i].type = tokens[i].type
    BY <1>1, <1>4, OneMore
  <2>2. DOMAIN tokens' = 1 .. Len(tokens) + 1
    BY <2>1
  <2>3. Len(tokens) = toknext /\ toknext < room /\ room \in Nat
    BY <1>4 DEF Inv, TypeOK, IsFull
  <2>4. TypeOK'
    BY <1>2, <1>4, <2>1, <2>3 DEF Inv, TypeOK
  <2>5. ASSUME NEW i \in DOMAIN tokens'
        PROVE  /\ 1 <= tokens'[i].start /\ tokens'[i].start <= shown' + 1
               /\ tokens'[i].start <= pos'
               /\ tokens'[i].end # -1 => /\ tokens'[i].start <= tokens'[i].end
                                         /\ tokens'[i].end <= shown' + 1
               /\ tokens'[i].end = -1 => \E k \in DOMAIN stack' : stack'[k].tok = i
    <3>1. CASE i = Len(tokens) + 1
      <4>1. tokens'[i].start = start /\ tokens'[i].end = end
        BY <2>1, <3>1
      <4>2. shown \in Nat /\ pos \in Nat
        BY DEF Inv, TypeOK
      <4> QED
        BY <4>1, <4>2
    <3>2. CASE i \in 1 .. Len(tokens)
      <4>1. tokens[i] \in Token
        BY <3>2, <1>2
      <4>2. /\ 1 <= tokens[i].start /\ tokens[i].start <= shown + 1 /\ tokens[i].start <= pos
            /\ tokens[i].end # -1 => tokens[i].start <= tokens[i].end /\ tokens[i].end <= shown + 1
            /\ tokens[i].end = -1 => \E k \in DOMAIN stack : stack[k].tok = i
        BY <3>2, <1>2 DEF Inv, SpansAreInside, StartsAreBehind, Running, DEPTH
      <4>3. tokens[i].start <= pos'
        BY <4>1, <4>2 DEF Inv, TypeOK, Token
      <4> QED
        BY <4>2, <4>3, <2>1, <3>2, <1>2 DEF SameFrames
    <3> QED
      BY <2>2, <3>1, <3>2, <1>2
  <2>6. ASSUME NEW k \in DOMAIN stack'
        PROVE  /\ stack'[k].tok \in DOMAIN tokens'
               /\ tokens'[stack'[k].tok].end = -1
               /\ tokens'[stack'[k].tok].type = stack'[k].type
               /\ \A j \in DOMAIN stack' : j < k => stack'[j].tok < stack'[k].tok
    <3>1. /\ stack[k].tok \in 1 .. Len(tokens)
          /\ tokens[stack[k].tok].end = -1
          /\ tokens[stack[k].tok].type = stack[k].type
          /\ \A j \in DOMAIN stack : j < k => stack[j].tok < stack[k].tok
      BY <1>2, <1>4 DEF Inv, SpansAreInside
    <3>2. /\ stack'[k].tok = stack[k].tok /\ stack'[k].type = stack[k].type
          /\ \A j \in DOMAIN stack' : stack'[j].tok = stack[j].tok
      BY <1>2 DEF SameFrames
    <3>3. LET i == stack[k].tok
          IN tokens'[i].end = tokens[i].end /\ tokens'[i].type = tokens[i].type
      BY <3>1, <2>1
    <3> QED
      BY <3>1, <3>2, <3>3, <2>2, <1>2
  <2>7. SpansAreInside'
    <3>1. Len(tokens') <= room' /\ ~(rc' >= 0)
      BY <2>1, <2>3 DEF Running
    <3>2. StartsAscend'
      BY <2>1, <2>2, OneMoreAscends
    <3> QED
      BY <2>5, <2>6, <3>1, <3>2, <1>4 DEF SpansAreInside
  <2> QED
    BY <2>4, <2>5, <2>7 DEF Inv, StartsAreBehind
<1> QED
  BY <1>3, <1>4

(* A container is opened; too deep, it has a token and no frame.           *)
LEMMA Opened ==
  ASSUME Inv, rc = Running, pos <= shown, ~IsFull,
         NEW type \in {JSTOK_OBJECT, JSTOK_ARRAY},
         NEW st \in IF type = JSTOK_OBJECT THEN ObjectStates ELSE ArrayStates,
         NEW grown, SameTokens(grown), NEW accepted, SameFrames(accepted),
         tokens' = WithToken(grown, type, pos, -1), toknext' = toknext + 1,
         \/ stack' = accepted /\ rc' = DEPTH /\ pos' = pos
         \/ /\ Len(stack) < MaxDepth
            /\ stack' = Append(accepted, [type |-> type, st |-> st,
                          tok |-> IF room = CountOnly THEN 0 ELSE toknext + 1])
            /\ pos' = pos + 1 /\ rc' = rc,
         UNCHANGED caller
  PROVE  Inv'
<1> USE DEF caller
<1> DEFINE t == [type |-> type, start |-> pos, end |-> -1, size |-> 0]
           f == [type |-> type, st |-> st,
                 tok |-> IF room = CountOnly THEN 0 ELSE toknext + 1]
<1>1. /\ shown \in Nat /\ pos \in Nat \ {0} /\ toknext \in Nat
      /\ pos' \in pos .. shown + 1 /\ ~(rc' >= 0)
  BY DEF Inv, TypeOK, Running, DEPTH
<1>2. t \in Token /\ f \in Frame
  BY <1>1 DEF Token, Frame, Types, JSTOK_OBJECT, JSTOK_ARRAY
<1>3. /\ stack \in Seq(Frame) /\ accepted \in Seq(Frame) /\ Len(accepted) = Len(stack)
      /\ DOMAIN stack = 1 .. Len(stack) /\ DOMAIN accepted = 1 .. Len(stack)
      /\ tokens \in Seq(Token) /\ DOMAIN tokens = 1 .. Len(tokens)
      /\ Len(stack) \in Nat /\ Len(tokens) \in Nat
  BY DEF Inv, TypeOK, SameFrames
<1>4. /\ stack' \in Seq(Frame) /\ Len(stack') <= MaxDepth
      /\ \A k \in 1 .. Len(stack) : /\ stack'[k].tok = stack[k].tok
                                    /\ stack'[k].type = stack[k].type
      /\ \/ rc' = DEPTH /\ DOMAIN stack' = 1 .. Len(stack)
         \/ /\ rc' = rc /\ DOMAIN stack' = 1 .. Len(stack) + 1
            /\ stack'[Len(stack) + 1] = f
  <2>1. CASE stack' = accepted /\ rc' = DEPTH
    BY <2>1, <1>3 DEF SameFrames, Inv, TypeOK
  <2>2. CASE stack' = Append(accepted, f) /\ rc' = rc /\ Len(stack) < MaxDepth
    <3>1. /\ stack' \in Seq(Frame) /\ Len(stack') = Len(stack) + 1
          /\ stack'[Len(stack) + 1] = f
          /\ \A k \in 1 .. Len(stack) : stack'[k] = accepted[k]
      <4> HIDE DEF f
      <4>1. f \in Frame /\ accepted \in Seq(Frame) /\ Len(accepted) = Len(stack)
        BY <1>2, <1>3
      <4>2. LET s == Append(accepted, f)
            IN /\ s \in Seq(Frame) /\ Len(s) = Len(accepted) + 1
               /\ s[Len(accepted) + 1] = f
               /\ \A k \in 1 .. Len(accepted) : s[k] = accepted[k]
        BY <4>1, Appended
      <4> QED
        BY <2>2, <4>1, <4>2
    <3>2. DOMAIN stack' = 1 .. Len(stack) + 1
      BY <3>1
    <3>3. Len(stack') <= MaxDepth
      <4>1. Len(stack) < MaxDepth
        BY <2>2
      <4> QED
        BY <3>1, <4>1, <1>3, DepthAssumption
    <3>4. \A k \in 1 .. Len(stack) : /\ stack'[k].tok = stack[k].tok
                                     /\ stack'[k].type = stack[k].type
      BY <3>1 DEF SameFrames
    <3> QED
      BY <2>2, <3>1, <3>2, <3>3, <3>4
  <2> QED
    BY <2>1, <2>2
<1>5. CASE room = CountOnly
  <2>1. tokens' = grown /\ tokens' \in Seq(Token) /\ Len(tokens') = 0 /\ f.tok = 0
    BY <1>5 DEF WithToken, SameTokens, Inv, TypeOK
  <2>2. DOMAIN tokens' = {}
    BY <2>1
  <2>3. TypeOK'
    BY <1>1, <1>4, <1>5, <2>1 DEF Inv, TypeOK, Errors
  <2>4. ASSUME NEW k \in DOMAIN stack' PROVE stack'[k].tok = 0
    <3>1. \A j \in 1 .. Len(stack) : stack[j].tok = 0
      BY <1>3, <1>5 DEF Inv, SpansAreInside
    <3> QED
      BY <1>4, <3>1, <2>1
  <2>5. SpansAreInside'
    BY <1>1, <1>5, <2>2, <2>4 DEF SpansAreInside, StartsAscend
  <2> QED
    BY <2>2, <2>3, <2>5 DEF Inv, StartsAreBehind
<1>6. CASE room # CountOnly
  <2>1. /\ tokens' \in Seq(Token) /\ Len(tokens') = Len(tokens) + 1
        /\ tokens'[Len(tokens) + 1] = t
        /\ \A i \in 1 .. Len(tokens) : /\ tokens'[i].start = tokens[i].start
                                       /\ tokens'[i].end = tokens[i].end
                                       /\ tokens'[i].type = tokens[i].type
    BY <1>2, <1>6, OneMore
  <2>2. DOMAIN tokens' = 1 .. Len(tokens) + 1
    BY <2>1
  <2>3. Len(tokens) = toknext /\ toknext < room /\ room \in Nat /\ f.tok = Len(tokens) + 1
    BY <1>6 DEF Inv, TypeOK, IsFull
  <2>4. TypeOK'
    BY <1>1, <1>4, <1>6, <2>1, <2>3 DEF Inv, TypeOK, Errors
  <2>5. ASSUME NEW i \in DOMAIN tokens'
        PROVE  /\ 1 <= tokens'[i].start /\ tokens'[i].start <= shown' + 1
               /\ tokens'[i].start <= pos'
               /\ tokens'[i].end # -1 => /\ tokens'[i].start <= tokens'[i].end
                                         /\ tokens'[i].end <= shown' + 1
               /\ tokens'[i].end = -1 =>
                    rc' = DEPTH \/ \E k \in DOMAIN stack' : stack'[k].tok = i
    <3>1. CASE i = Len(tokens) + 1
      <4>1. tokens'[i].start = pos /\ tokens'[i].end = -1
        BY <2>1, <3>1
      <4>2. rc' # DEPTH => Len(stack) + 1 \in DOMAIN stack' /\ stack'[Len(stack) + 1].tok = i
        BY <1>3, <1>4, <2>3, <3>1
      <4> QED
        BY <1>1, <4>1, <4>2
    <3>2. CASE i \in 1 .. Len(tokens)
      <4>1. tokens[i] \in Token
        BY <3>2, <1>3
      <4>2. /\ 1 <= tokens[i].start /\ tokens[i].start <= shown + 1 /\ tokens[i].start <= pos
            /\ tokens[i].end # -1 => tokens[i].start <= tokens[i].end /\ tokens[i].end <= shown + 1
            /\ tokens[i].end = -1 => \E k \in DOMAIN stack : stack[k].tok = i
        BY <3>2, <1>3 DEF Inv, SpansAreInside, StartsAreBehind, Running, DEPTH
      <4>3. tokens[i].start <= pos'
        BY <1>1, <4>1, <4>2 DEF Token
      <4>4. \A k \in DOMAIN stack : k \in DOMAIN stack' /\ stack'[k].tok = stack[k].tok
        BY <1>3, <1>4
      <4> QED
        BY <4>2, <4>3, <4>4, <2>1, <3>2
    <3> QED
      BY <2>2, <3>1, <3>2, <1>3
  <2>6. ASSUME NEW k \in DOMAIN stack'
        PROVE  /\ stack'[k].tok \in DOMAIN tokens'
               /\ tokens'[stack'[k].tok].end = -1
               /\ tokens'[stack'[k].tok].type = stack'[k].type
               /\ \A j \in DOMAIN stack' : j < k => stack'[j].tok < stack'[k].tok
    <3>1. \A h \in 1 .. Len(stack) :
            /\ stack[h].tok \in 1 .. Len(tokens)
            /\ tokens[stack[h].tok].end = -1
            /\ tokens[stack[h].tok].type = stack[h].type
            /\ \A j \in 1 .. Len(stack) : j < h => stack[j].tok < stack[h].tok
      BY <1>3, <1>6 DEF Inv, SpansAreInside
    <3>2. CASE k \in 1 .. Len(stack)
      <4>1. LET i == stack[k].tok
            IN tokens'[i].end = tokens[i].end /\ tokens'[i].type = tokens[i].type
        BY <2>1, <3>1, <3>2
      <4>2. \A j \in DOMAIN stack' : j < k => j \in 1 .. Len(stack)
        BY <1>3, <1>4, <3>2
      <4> QED
        BY <1>4, <2>2, <3>1, <3>2, <4>1, <4>2
    <3>3. CASE k = Len(stack) + 1 /\ stack'[k] = f
      <4>1. tokens'[f.tok] = t /\ f.tok \in DOMAIN tokens' /\ f.type = t.type
        BY <2>1, <2>2, <2>3, <1>3
      <4>2. \A j \in DOMAIN stack' : j < k => stack'[j].tok < f.tok
        <5> SUFFICES ASSUME NEW j \in 1 .. Len(stack) PROVE stack'[j].tok < f.tok
          BY <1>3, <1>4, <3>3
        <5> QED
          BY <1>4, <2>3, <3>1, SMTT(60)
      <4> QED
        BY <3>3, <4>1, <4>2
    <3> QED
      BY <1>3, <1>4, <3>2, <3>3, SMTT(60)
  <2>7. SpansAreInside'
    <3>1. Len(tokens') <= room'
      BY <2>1, <2>3
    <3>2. StartsAscend'
      BY <2>1, <2>2, <1>1, OneMoreAscends
    <3> QED
      BY <2>5, <2>6, <3>1, <3>2, <1>1, <1>6 DEF SpansAreInside
  <2> QED
    BY <2>4, <2>5, <2>7 DEF Inv, StartsAreBehind
<1> QED
  BY <1>5, <1>6

(* The container on top is closed.                                         *)
LEMMA Closed ==
  ASSUME Inv, rc = Running, pos <= shown, stack # << >>,
         tokens' = IF Top.tok = 0 THEN tokens
                   ELSE [tokens EXCEPT ![Top.tok].end = pos + 1],
         stack' = SubSeq(stack, 1, Len(stack) - 1), pos' = pos + 1,
         UNCHANGED << caller, toknext, rc >>
  PROVE  Inv'
<1> USE DEF caller
<1> DEFINE top == Top.tok
           n == Len(stack)
<1>1. /\ shown \in Nat /\ pos \in Nat \ {0} /\ pos' \in pos .. shown + 1 /\ ~(rc' >= 0)
      /\ stack \in Seq(Frame) /\ DOMAIN stack = 1 .. n /\ n \in Nat \ {0}
      /\ tokens \in Seq(Token) /\ DOMAIN tokens = 1 .. Len(tokens)
      /\ Len(tokens) \in Nat /\ Top = stack[n]
  <2>1. /\ shown \in Nat /\ pos \in Nat \ {0}
        /\ stack \in Seq(Frame) /\ tokens \in Seq(Token)
    BY DEF Inv, TypeOK
  <2>2. /\ pos' \in pos .. shown + 1 /\ ~(rc' >= 0)
    BY <2>1 DEF Running
  <2>3. /\ DOMAIN stack = 1 .. n /\ n \in Nat \ {0}
    BY <2>1
  <2>4. /\ DOMAIN tokens = 1 .. Len(tokens) /\ Len(tokens) \in Nat
    BY <2>1
  <2>5. Top = stack[n]
    BY DEF Top
  <2> QED
    BY <2>1, <2>2, <2>3, <2>4, <2>5
<1>2. /\ stack' \in Seq(Frame) /\ Len(stack') = n - 1 /\ DOMAIN stack' = 1 .. n - 1
      /\ \A k \in 1 .. n - 1 : stack'[k] = stack[k]
  <2>1. n - 1 \in Nat /\ stack' \in Seq(Frame) /\ Len(stack') = n - 1
    BY <1>1
  <2> QED
    BY <1>1, <2>1
<1>3. CASE room = CountOnly
  <2>1. Len(tokens) = 0 /\ DOMAIN tokens = {} /\ top = 0
    BY <1>1, <1>3 DEF Inv, TypeOK, SpansAreInside
  <2>2. tokens' = tokens
    BY <2>1
  <2>3. \A k \in DOMAIN stack' : stack'[k].tok = 0
    BY <1>1, <1>2, <1>3 DEF Inv, SpansAreInside
  <2>4. TypeOK'
    <3>1. Len(stack') <= MaxDepth
      BY <1>1, <1>2, DepthAssumption DEF Inv, TypeOK
    <3>2. tokens' \in Seq(Token) /\ Len(tokens') = IF room' = CountOnly THEN 0 ELSE toknext'
      BY <2>2 DEF Inv, TypeOK
    <3> QED
      BY <1>1, <1>2, <3>1, <3>2 DEF Inv, TypeOK
  <2>5. SpansAreInside'
    BY <1>1, <1>3, <2>1, <2>2, <2>3 DEF SpansAreInside, StartsAscend
  <2> QED
    BY <2>1, <2>2, <2>4, <2>5 DEF Inv, StartsAreBehind
<1>4. CASE room # CountOnly
  <2>1. \A h \in 1 .. n :
          /\ stack[h].tok \in 1 .. Len(tokens)
          /\ tokens[stack[h].tok].end = -1
          /\ tokens[stack[h].tok].type = stack[h].type
          /\ \A j \in 1 .. n : j < h => stack[j].tok < stack[h].tok
    BY <1>1, <1>4 DEF Inv, SpansAreInside
  <2>2. top \in 1 .. Len(tokens) /\ tokens[top] \in Token
    BY <1>1, <2>1
  <2> DEFINE new == [tokens[top] EXCEPT !.end = pos + 1]
  <2>3. /\ new \in Token /\ new.start = tokens[top].start /\ new.end = pos + 1
        /\ new.type = tokens[top].type
    BY <1>1, <2>2, EndedToken
  <2>4. tokens' = [tokens EXCEPT ![top] = new]
    BY <2>2
  <2> HIDE DEF new, top
  <2>5. /\ tokens' \in Seq(Token) /\ Len(tokens') = Len(tokens)
        /\ DOMAIN tokens' = 1 .. Len(tokens) /\ tokens'[top] = new
        /\ \A i \in 1 .. Len(tokens) : i # top => tokens'[i] = tokens[i]
    <3>1. LET s == [tokens EXCEPT ![top] = new]
          IN /\ s \in Seq(Token) /\ Len(s) = Len(tokens) /\ DOMAIN s = 1 .. Len(tokens)
             /\ s[top] = new /\ \A k \in 1 .. Len(tokens) : k # top => s[k] = tokens[k]
      BY <1>1, <2>2, <2>3, Replaced
    <3> QED
      BY <2>4, <3>1
  <2>6. TypeOK'
    BY <1>1, <1>2, <2>5, DepthAssumption DEF Inv, TypeOK
  <2>7. \A k \in 1 .. n - 1 : stack[k].tok \in 1 .. Len(tokens) /\ stack[k].tok # top
    <3>1. n \in 1 .. n /\ top = stack[n].tok /\ \A k \in 1 .. n - 1 : k \in 1 .. n /\ k < n
      BY <1>1 DEF top
    <3>2. \A k \in 1 .. n - 1 : stack[k].tok < top
      BY <2>1, <3>1
    <3> HIDE DEF n
    <3> QED
      BY <2>1, <2>2, <3>1, <3>2
  <2>8. ASSUME NEW i \in DOMAIN tokens'
        PROVE  /\ 1 <= tokens'[i].start /\ tokens'[i].start <= shown' + 1
               /\ tokens'[i].start <= pos'
               /\ tokens'[i].end # -1 => /\ tokens'[i].start <= tokens'[i].end
                                         /\ tokens'[i].end <= shown' + 1
               /\ tokens'[i].end = -1 => \E k \in DOMAIN stack' : stack'[k].tok = i
    <3>1. tokens[i] \in Token
      BY <1>1, <2>5
    <3>2. /\ 1 <= tokens[i].start /\ tokens[i].start <= shown + 1 /\ tokens[i].start <= pos
          /\ tokens[i].end # -1 => tokens[i].start <= tokens[i].end /\ tokens[i].end <= shown + 1
          /\ tokens[i].end = -1 => \E k \in DOMAIN stack : stack[k].tok = i
      BY <1>1, <2>5 DEF Inv, SpansAreInside, StartsAreBehind, Running, DEPTH
    <3>3. tokens[i].start <= pos + 1
      BY <1>1, <3>1, <3>2 DEF Token
    <3>4. CASE i = top
      BY <1>1, <2>3, <2>5, <3>2, <3>3, <3>4
    <3>5. CASE i # top
      <4>1. tokens'[i] = tokens[i]
        BY <2>5, <3>5
      <4>2. tokens[i].end = -1 => \E k \in DOMAIN stack' : stack'[k].tok = i
        <5> SUFFICES ASSUME NEW k \in 1 .. n, stack[k].tok = i
                     PROVE  k \in DOMAIN stack' /\ stack'[k].tok = i
          BY <1>1, <3>2
        <5>1. k # n
          BY <1>1, <3>5 DEF top
        <5> QED
          BY <1>1, <1>2, <5>1
      <4> QED
        BY <3>2, <3>3, <4>1, <4>2
    <3> QED
      BY <3>4, <3>5
  <2>9. ASSUME NEW k \in DOMAIN stack'
        PROVE  /\ stack'[k].tok \in DOMAIN tokens'
               /\ tokens'[stack'[k].tok].end = -1
               /\ tokens'[stack'[k].tok].type = stack'[k].type
               /\ \A j \in DOMAIN stack' : j < k => stack'[j].tok < stack'[k].tok
    <3>1. k \in 1 .. n /\ stack'[k] = stack[k] /\ DOMAIN stack' \subseteq 1 .. n
      BY <1>1, <1>2
    <3>2. tokens'[stack[k].tok] = tokens[stack[k].tok]
      BY <1>2, <2>5, <2>7
    <3> QED
      BY <1>2, <2>1, <2>5, <3>1, <3>2, ZenonT(60)
  <2>10. SpansAreInside'
    <3>1. Len(tokens') <= room'
      BY <1>4, <2>5 DEF Inv, SpansAreInside
    <3>2. StartsAscend'
      <4>1. \A i \in 1 .. Len(tokens) : tokens'[i].start = tokens[i].start
        BY <2>3, <2>5
      <4> QED
        BY <2>5, <4>1, StillAscend
    <3> QED
      BY <2>8, <2>9, <3>1, <3>2, <1>1, <1>4 DEF SpansAreInside
  <2> QED
    BY <2>6, <2>8, <2>10 DEF Inv, StartsAreBehind
<1> QED
  BY <1>3, <1>4

-----------------------------------------------------------------------------
(* The turns.                                                              *)

LEMMA ShownPart ==
  ASSUME Inv
  PROVE  Shown \in Seq(STRING) /\ Len(Shown) = shown
<1>1. text \in Seq(STRING) /\ shown \in 0 .. Len(text)
  BY DEF Inv, TypeOK
<1> QED
  BY <1>1 DEF Shown

(* A turn that finds a string or a primitive, or fails in it.              *)
LEMMA ScalarTurn ==
  ASSUME Inv, rc = Running, pos <= shown,
         NEW grown, SameTokens(grown), NEW accepted, SameFrames(accepted),
         NEW type \in Types, NEW start \in {pos, pos + 1},
         NEW end \in ScanErrors \cup start .. shown + 1,
         NEW next, end >= 0 => next \in start .. shown + 1,
         Scalar(type, start, end, next, accepted, grown)
  PROVE  Inv'
<1>1. /\ pos \in Nat \ {0} /\ shown \in Nat /\ start \in Nat \ {0}
      /\ ScanErrors \subseteq Errors /\ NOMEM \in Errors
  BY DEF Inv, TypeOK, ScanErrors, Errors
<1>2. CASE end = PART /\ Fails(PART)
  BY <1>1, <1>2, FailedTurn DEF ScanErrors
<1>3. CASE /\ stack' = accepted /\ tokens' = grown /\ rc' \in {INVAL, NOMEM}
           /\ UNCHANGED << caller, pos, toknext >>
  <2>1. pos' \in pos .. shown + 1 /\ rc' \in Errors \cup {Running}
    BY <1>1, <1>3 DEF Errors
  <2> QED
    BY <1>3, <2>1, Relabelled
<1>4. CASE /\ end >= 0 /\ ~IsFull
           /\ stack' = accepted
           /\ tokens' = WithToken(grown, type, start, end)
           /\ toknext' = toknext + 1
           /\ pos' = next
           /\ UNCHANGED << caller, rc >>
  <2>1. end \in Nat /\ start <= end /\ end <= shown + 1
    BY <1>1, <1>4 DEF ScanErrors, PART, INVAL
  <2>2. pos <= start /\ start <= pos' /\ pos' \in pos .. shown + 1
    BY <1>1, <1>4
  <2> QED
    BY <1>1, <1>4, <2>1, <2>2, ScalarFound
<1> QED
  BY <1>2, <1>3, <1>4 DEF Scalar

LEMMA ParseKeyStep ==
  ASSUME Inv, ParseKey
  PROVE  Inv'
<1> DEFINE end == StringEnd(Shown, pos + 1)
           accepted == IF end < 0 \/ IsFull THEN stack ELSE SetTop("COLON")
<1>1. /\ rc = Running /\ pos <= shown /\ TopIs({"KEY_OR_END", "KEY"})
      /\ Scalar(JSTOK_STRING, pos + 1, end, end + 1, accepted, tokens)
  BY DEF ParseKey, Turn
<1>2. pos \in Nat \ {0} /\ shown \in Nat
  BY DEF Inv, TypeOK
<1>3. end \in ScanErrors \cup pos + 1 .. shown
  BY <1>2, ShownPart, StringEnds
<1>4. SameTokens(tokens) /\ SameFrames(stack)
  BY Unchanged
<1>5. SameFrames(SetTop("COLON"))
  <2>1. stack # << >> /\ Top.st \in {"KEY_OR_END", "KEY"}
    BY <1>1 DEF TopIs
  <2>2. Top.type = JSTOK_OBJECT
    BY <2>1, TopFrame DEF Frame, ArrayStates
  <2> QED
    BY <2>1, <2>2, SetTopSame DEF ObjectStates
<1>6. SameFrames(accepted)
  BY <1>4, <1>5
<1> HIDE DEF end, accepted
<1>7. end \in ScanErrors \cup pos + 1 .. shown + 1
      /\ (end >= 0 => end + 1 \in pos + 1 .. shown + 1)
  BY <1>2, <1>3 DEF ScanErrors, PART, INVAL
<1> QED
  BY <1>1, <1>4, <1>6, <1>7, ScalarTurn DEF Types

LEMMA ParseStringStep ==
  ASSUME Inv, ParseString
  PROVE  Inv'
<1> DEFINE end == StringEnd(Shown, pos + 1)
<1>1. rc = Running /\ pos <= shown
  BY DEF ParseString, Turn
<1>2. CASE Fails(INVAL)
  BY <1>1, <1>2, FailedTurn DEF Errors
<1>3. CASE Scalar(JSTOK_STRING, pos + 1, end, end + 1, StackWithValue, TokensWithValue)
  <2>1. pos \in Nat \ {0} /\ shown \in Nat
    BY DEF Inv, TypeOK
  <2>2. end \in ScanErrors \cup pos + 1 .. shown
    BY <2>1, ShownPart, StringEnds
  <2> HIDE DEF end
  <2>3. end \in ScanErrors \cup pos + 1 .. shown + 1
        /\ (end >= 0 => end + 1 \in pos + 1 .. shown + 1)
    BY <2>1, <2>2 DEF ScanErrors, PART, INVAL
  <2> QED
    BY <1>1, <1>3, <2>3, GrownSame, AcceptedSame, ScalarTurn DEF Types
<1> QED
  BY <1>2, <1>3 DEF ParseString

LEMMA ParsePrimitiveStep ==
  ASSUME Inv, ParsePrimitive
  PROVE  Inv'
<1> DEFINE end == PrimitiveEnd(Shown, pos)
<1>1. rc = Running /\ pos <= shown
  BY DEF ParsePrimitive
<1>2. CASE Fails(INVAL)
  BY <1>1, <1>2, FailedTurn DEF Errors
<1>3. CASE Scalar(JSTOK_PRIMITIVE, pos, end, end, StackWithValue, TokensWithValue)
  <2>1. pos \in 1 .. shown /\ shown \in Nat
    BY <1>1 DEF Inv, TypeOK
  <2>2. end \in ScanErrors \cup pos .. shown + 1
    BY <2>1, ShownPart, PrimitiveEnds
  <2> HIDE DEF end
  <2>3. end >= 0 => end \in pos .. shown + 1
    BY <2>1, <2>2 DEF ScanErrors, PART, INVAL
  <2> QED
    BY <1>1, <1>3, <2>2, <2>3, GrownSame, AcceptedSame, ScalarTurn DEF Types
<1> QED
  BY <1>2, <1>3 DEF ParsePrimitive

LEMMA SkipSpaceStep ==
  ASSUME Inv, SkipSpace
  PROVE  Inv'
<1>1. /\ rc = Running /\ pos' \in pos .. shown + 1
      /\ UNCHANGED << caller, toknext, stack, tokens, rc >>
  BY DEF SkipSpace, Turn, Inv, TypeOK
<1>2. SameTokens(tokens') /\ SameFrames(stack')
  BY <1>1, Unchanged
<1> QED
  BY <1>1, <1>2, Relabelled

(* Colons and commas.                                                      *)
LEMMA SeparatorStep ==
  ASSUME Inv, NEW char, NEW from, NEW to, Separator(char, from, to),
         \/ from \in ObjectStates \ ArrayStates /\ to \in ObjectStates
         \/ from \in ArrayStates \ ObjectStates /\ to \in ArrayStates
  PROVE  Inv'
<1>1. /\ rc = Running /\ pos' \in pos .. shown + 1
      /\ stack # << >> /\ Top.st = from /\ stack' = SetTop(to)
      /\ UNCHANGED << caller, toknext, tokens, rc >>
  BY DEF Separator, Turn, TopIs, Inv, TypeOK
<1>2. to \in IF Top.type = JSTOK_OBJECT THEN ObjectStates ELSE ArrayStates
  <2>1. Top \in Frame
    BY <1>1, TopFrame
  <2> QED
    BY <1>1, <2>1 DEF Frame, JSTOK_OBJECT, JSTOK_ARRAY
<1>3. SameTokens(tokens') /\ SameFrames(stack')
  BY <1>1, <1>2, Unchanged, SetTopSame
<1> QED
  BY <1>1, <1>3, Relabelled

LEMMA SeparatorSteps ==
  ASSUME Inv, Colon \/ ObjectComma \/ ArrayComma \/ WrongSeparator
  PROVE  Inv'
<1> USE DEF ObjectStates, ArrayStates
<1>1. CASE Colon
  BY <1>1, SeparatorStep DEF Colon
<1>2. CASE ObjectComma
  BY <1>2, SeparatorStep DEF ObjectComma
<1>3. CASE ArrayComma
  BY <1>3, SeparatorStep DEF ArrayComma
<1>4. CASE WrongSeparator
  BY <1>4, FailedTurn DEF WrongSeparator, Turn, Errors
<1> QED
  BY <1>1, <1>2, <1>3, <1>4

LEMMA StartContainerStep ==
  ASSUME Inv, NEW opener, NEW type \in {JSTOK_OBJECT, JSTOK_ARRAY},
         NEW st \in IF type = JSTOK_OBJECT THEN ObjectStates ELSE ArrayStates,
         StartContainer(type, opener, st)
  PROVE  Inv'
<1>1. rc = Running /\ pos <= shown
  BY DEF StartContainer, Turn
<1>2. SameTokens(TokensWithValue) /\ SameFrames(StackWithValue)
  BY GrownSame, AcceptedSame
<1>3. CASE Fails(INVAL)
  BY <1>1, <1>3, FailedTurn DEF Errors
<1>4. CASE /\ stack' = StackWithValue /\ tokens' = TokensWithValue
           /\ rc' = NOMEM /\ UNCHANGED << caller, pos, toknext >>
  <2>1. pos' \in pos .. shown + 1 /\ rc' \in Errors \cup {Running}
    BY <1>4 DEF Inv, TypeOK, Errors
  <2> QED
    BY <1>1, <1>2, <1>4, <2>1, Relabelled
<1>5. CASE /\ ~IsFull
           /\ tokens' = WithToken(TokensWithValue, type, pos, -1)
           /\ toknext' = toknext + 1
           /\ \/ stack' = StackWithValue /\ rc' = DEPTH /\ UNCHANGED << caller, pos >>
              \/ /\ Len(stack) < MaxDepth
                 /\ stack' = Append(StackWithValue, [type |-> type, st |-> st,
                               tok |-> IF room = CountOnly THEN 0 ELSE toknext + 1])
                 /\ pos' = pos + 1 /\ UNCHANGED << caller, rc >>
  BY <1>1, <1>2, <1>5, Opened
<1> QED
  BY <1>3, <1>4, <1>5 DEF StartContainer

LEMMA EndContainerStep ==
  ASSUME Inv, NEW closer, NEW states, EndContainer(closer, states)
  PROVE  Inv'
<1>1. rc = Running /\ pos <= shown
  BY DEF EndContainer, Turn
<1>2. CASE Fails(INVAL)
  BY <1>1, <1>2, FailedTurn DEF Errors
<1>3. CASE /\ TopIs(states)
           /\ tokens' = IF Top.tok = 0 THEN tokens
                        ELSE [tokens EXCEPT ![Top.tok].end = pos + 1]
           /\ stack' = SubSeq(stack, 1, Len(stack) - 1)
           /\ pos' = pos + 1
           /\ UNCHANGED << caller, toknext, rc >>
  BY <1>1, <1>3, Closed DEF TopIs
<1> QED
  BY <1>2, <1>3 DEF EndContainer

LEMMA EndOfInputStep ==
  ASSUME Inv, EndOfInput
  PROVE  Inv'
<1> USE DEF EndOfInput, caller
<1>1. TypeOK'
  BY DEF Inv, TypeOK, Errors
<1>2. SpansAreInside'
  <2>1. rc = Running /\ (rc' = PART \/ (rc' = toknext /\ stack = << >>))
    OBVIOUS
  <2>2. CASE rc' = PART
    BY <2>1, <2>2 DEF Inv, SpansAreInside, StartsAscend, PART, Running, DEPTH
  <2>3. CASE stack = << >>
    <3>1. \A i \in DOMAIN tokens : tokens[i].end # -1
      BY <2>1, <2>3 DEF Inv, SpansAreInside, Running, DEPTH
    <3> QED
      BY <2>3, <3>1 DEF Inv, SpansAreInside, StartsAscend
  <2> QED
    BY <2>1, <2>2, <2>3
<1>3. StartsAreBehind'
  BY DEF Inv, StartsAreBehind
<1> QED
  BY <1>1, <1>2, <1>3 DEF Inv

-----------------------------------------------------------------------------
(* The caller.                                                             *)

LEMMA BeginStep ==
  ASSUME Inv, NEW t \in Texts, NEW n \in 0 .. Len(t), NEW max \in {CountOnly} \cup Rooms,
         Begin(t, n, max)
  PROVE  Inv'
<1> USE DEF Begin
<1>1. t \in Seq(STRING) /\ max \in Nat \cup {CountOnly}
  BY TextsAssumption, RoomsAssumption
<1>2. TypeOK'
  BY <1>1, DepthAssumption DEF TypeOK
<1>3. SpansAreInside' /\ StartsAreBehind'
  BY <1>1 DEF SpansAreInside, StartsAscend, StartsAreBehind, Running, CountOnly
<1> QED
  BY <1>2, <1>3 DEF Inv

LEMMA MoreStep ==
  ASSUME Inv, NEW n \in 1 .. Len(text), More(n)
  PROVE  Inv'
<1>1. /\ rc = PART /\ rc' = Running /\ shown' = n
      /\ n \in shown + 1 .. Len(text)
      /\ UNCHANGED << text, room, pos, stack, tokens, toknext >>
  BY DEF More
<1>2. TypeOK'
  BY <1>1 DEF Inv, TypeOK
<1>3. SpansAreInside'
  <2>1. shown \in Nat /\ tokens \in Seq(Token) /\ shown < n
    BY <1>1 DEF Inv, TypeOK
  <2>2. ASSUME NEW i \in DOMAIN tokens
        PROVE  /\ 1 <= tokens[i].start /\ tokens[i].start <= n + 1
               /\ tokens[i].end # -1 => tokens[i].start <= tokens[i].end /\ tokens[i].end <= n + 1
               /\ tokens[i].end = -1 => \E k \in DOMAIN stack : stack[k].tok = i
    <3>1. tokens[i].start \in Nat /\ tokens[i].end \in Nat \cup {-1}
      <4>1. tokens[i] \in Token
        BY <2>1
      <4> QED
        BY <4>1 DEF Token
    <3> QED
      BY <1>1, <2>1, <3>1 DEF Inv, SpansAreInside, PART, DEPTH
  <2> QED
    BY <1>1, <2>1, <2>2 DEF Inv, SpansAreInside, StartsAscend, Running
<1>4. StartsAreBehind'
  BY <1>1 DEF Inv, StartsAreBehind
<1> QED
  BY <1>2, <1>3, <1>4 DEF Inv

LEMMA InitInv == Init => Inv
  BY DepthAssumption DEF Init, Inv, TypeOK, SpansAreInside, StartsAscend, StartsAreBehind, CountOnly

LEMMA NextInv == Inv /\ [Next]_vars => Inv'
<1> SUFFICES ASSUME Inv, [Next]_vars PROVE Inv'
  OBVIOUS
<1>1. CASE SkipSpace
  BY <1>1, SkipSpaceStep
<1>2. CASE StartObject \/ StartArray
  BY <1>2, StartContainerStep
  DEF StartObject, StartArray, ObjectStates, ArrayStates, JSTOK_OBJECT, JSTOK_ARRAY
<1>3. CASE EndObject \/ EndArray
  BY <1>3, EndContainerStep DEF EndObject, EndArray
<1>4. CASE Colon \/ ObjectComma \/ ArrayComma \/ WrongSeparator
  BY <1>4, SeparatorSteps
<1>5. CASE ParseKey \/ ParseString \/ ParsePrimitive
  BY <1>5, ParseKeyStep, ParseStringStep, ParsePrimitiveStep
<1>6. CASE EndOfInput
  BY <1>6, EndOfInputStep
<1>7. CASE \E t \in Texts : \E n \in 0..Len(t), max \in {CountOnly} \cup Rooms : Begin(t, n, max)
  BY <1>7, BeginStep
<1>8. CASE \E n \in 1..Len(text) : More(n)
  BY <1>8, MoreStep
<1>9. CASE UNCHANGED vars
  BY <1>9 DEF vars, Inv, TypeOK, SpansAreInside, StartsAscend, StartsAreBehind
<1> QED
  BY <1>1, <1>2, <1>3, <1>4, <1>5, <1>6, <1>7, <1>8, <1>9 DEF Next, jstok_parse

LEMMA Invariant == Spec => []Inv
  BY InitInv, NextInv, PTL DEF Spec

-----------------------------------------------------------------------------
(* The state of a parser and of its caller has its types: the position     *)
(* never passes the end of what is shown, the stack never its depth, and   *)
(* the tokens are as many as were counted.                                 *)
THEOREM TypeCorrect == Spec => []TypeOK
  BY Invariant, PTL DEF Inv

(* However a text is cut, and whether or not there is room for its tokens: *)
(* every span is within what was shown, no token begins earlier than the   *)
(* one before it, only a container still open or too deep has no end, and  *)
(* the frames of jstok_parse have the tokens of their containers.          *)
THEOREM SpansStayInside == Spec => []SpansAreInside
  BY Invariant, PTL DEF Inv

-----------------------------------------------------------------------------
(* Recursive descent is a function of the positions of a text, which it    *)
(* passes upwards: so there is a function as its definition says, found    *)
(* from the last position down.                                            *)

Positions == Nat \ {0}

(* A property of the numbers up to n that each passes on to the next.      *)
LEMMA UpTo ==
  ASSUME NEW n \in Nat, NEW T \in SUBSET (0 .. n), 0 \in T,
         \A m \in T : m < n => m + 1 \in T
  PROVE  n \in T
<1> SUFFICES ASSUME n \notin T PROVE FALSE
  OBVIOUS
<1> DEFINE others == {m \in 0 .. n : m \notin T}
<1>1. others \in SUBSET Nat /\ others # {}
  OBVIOUS
<1>2. PICK m \in others : \A k \in others : m <= k
  BY <1>1, LeastOf
<1>3. m \in 1 .. n
  OBVIOUS
<1>4. m - 1 \in T
  BY <1>2, <1>3
<1> QED
  BY <1>3, <1>4

CloseStep(g, s, i) ==
  IF i > Len(s) \/ s[i] \in {Control, Newline} THEN 0
  ELSE IF s[i] = Quote THEN i
  ELSE IF s[i] # Backslash THEN g[i + 1]
  ELSE IF i < Len(s) /\ s[i + 1] \in Simple THEN g[i + 2]
  ELSE IF /\ i + 5 <= Len(s) /\ s[i + 1] = "u"
          /\ \A k \in i + 2 .. i + 5 : s[k] \in Hex
       THEN g[i + 6]
  ELSE 0

LEMMA CloseEquation ==
  ASSUME NEW s \in Seq(STRING)
  PROVE  \E g : /\ g = [i \in Positions |-> CloseStep(g, s, i)]
                /\ \A i \in Positions : StringClose(s, i) = g[i]
<1> DEFINE Good(m) == \E g : /\ g = [i \in Positions |-> g[i]]
                             /\ \A i \in Positions : i + m > Len(s) => g[i] = CloseStep(g, s, i)
           T == {m \in 0 .. Len(s) : Good(m)}
<1>1. Len(s) \in Nat
  OBVIOUS
<1>2. 0 \in T
  <2>1. [i \in Positions |-> 0] = [i \in Positions |-> [j \in Positions |-> 0][i]]
    OBVIOUS
  <2>2. \A i \in Positions : i + 0 > Len(s) => [j \in Positions |-> 0][i] = CloseStep([j \in Positions |-> 0], s, i)
    BY <1>1 DEF CloseStep, Positions
  <2>3. Good(0)
    BY <2>1, <2>2
  <2> QED
    BY <2>3, <1>1
<1>3. ASSUME NEW m \in T, m < Len(s) PROVE m + 1 \in T
  <2>1. PICK g : /\ g = [i \in Positions |-> g[i]]
                 /\ \A i \in Positions : i + m > Len(s) => g[i] = CloseStep(g, s, i)
    OBVIOUS
  <2> DEFINE n == Len(s) - m
             h == [i \in Positions |-> IF i = n THEN CloseStep(g, s, n) ELSE g[i]]
  <2>2. n \in Positions /\ n = Len(s) - m
    BY <1>1, <1>3 DEF Positions
  <2>3. ASSUME NEW i \in Positions, i >= n PROVE CloseStep(h, s, i) = CloseStep(g, s, i)
    <3> HIDE DEF n
    <3>1. \A j \in Positions : j > n => h[j] = g[j]
      BY <2>2
    <3> HIDE DEF h
    <3>2. i + 1 \in Positions /\ i + 2 \in Positions /\ i + 6 \in Positions
          /\ i + 1 > n /\ i + 2 > n /\ i + 6 > n
      BY <2>2, <2>3 DEF Positions
    <3>3. h[i + 1] = g[i + 1] /\ h[i + 2] = g[i + 2] /\ h[i + 6] = g[i + 6]
      BY <3>1, <3>2
    <3> QED
      BY <3>3 DEF CloseStep
  <2>4. ASSUME NEW i \in Positions, i + (m + 1) > Len(s) PROVE h[i] = CloseStep(h, s, i)
    <3>1. i = n \/ (i > n /\ i + m > Len(s))
      BY <1>1, <2>2, <2>4 DEF Positions
    <3>2. h[i] = CloseStep(g, s, i)
      BY <2>1, <2>2, <3>1
    <3> HIDE DEF h
    <3> QED
      BY <2>2, <2>3, <3>1, <3>2 DEF Positions
  <2>5. h = [i \in Positions |-> h[i]]
    OBVIOUS
  <2> HIDE DEF h
  <2>6. Good(m + 1)
    BY <2>4, <2>5
  <2> QED
    BY <2>6, <1>1, <1>3
<1>4. Len(s) \in T
  <2> HIDE DEF T
  <2>1. T \in SUBSET (0 .. Len(s))
    BY DEF T
  <2> QED
    BY <1>1, <1>2, <1>3, <2>1, UpTo
<1>5. PICK g : /\ g = [i \in Positions |-> g[i]]
               /\ \A i \in Positions : i + Len(s) > Len(s) => g[i] = CloseStep(g, s, i)
  BY <1>4
<1>6. g = [i \in Positions |-> CloseStep(g, s, i)]
  BY <1>1, <1>5 DEF Positions
<1> DEFINE f == CHOOSE h : h = [i \in Positions |-> CloseStep(h, s, i)]
<1>7. f = [i \in Positions |-> CloseStep(f, s, i)]
  BY <1>6
<1>8. \A i \in Positions : StringClose(s, i) = f[i]
  BY DEF StringClose, CloseStep, Positions
<1> QED
  BY <1>7, <1>8

(* A string ends where it begins, or later.                                *)
LEMMA CloseType ==
  ASSUME NEW s \in Seq(STRING), NEW i \in Positions
  PROVE  /\ StringClose(s, i) \in Nat
         /\ StringClose(s, i) # 0 => StringClose(s, i) \in i .. Len(s)
<1>1. Len(s) \in Nat
  OBVIOUS
<1>2. PICK g : /\ g = [j \in Positions |-> CloseStep(g, s, j)]
               /\ \A j \in Positions : StringClose(s, j) = g[j]
  BY CloseEquation
<1> DEFINE Good(m) == \A j \in Positions : j + m > Len(s) => g[j] = 0 \/ g[j] \in j .. Len(s)
           T == {m \in 0 .. Len(s) : Good(m)}
<1>3. \A j \in Positions : g[j] = CloseStep(g, s, j)
  BY <1>2
<1>4. 0 \in T
  BY <1>1, <1>3 DEF CloseStep, Positions
<1>5. ASSUME NEW m \in T, m < Len(s) PROVE m + 1 \in T
  <2>1. ASSUME NEW j \in Positions, j + (m + 1) > Len(s)
        PROVE  g[j] = 0 \/ g[j] \in j .. Len(s)
    <3>1. Good(m) /\ m \in Nat
      BY <1>5, <1>1
    <3>2. /\ j + 1 \in Positions /\ j + 1 + m > Len(s)
          /\ j + 2 \in Positions /\ j + 2 + m > Len(s)
          /\ j + 6 \in Positions /\ j + 6 + m > Len(s)
      BY <1>1, <2>1, <3>1 DEF Positions
    <3>3. /\ g[j + 1] = 0 \/ g[j + 1] \in j + 1 .. Len(s)
          /\ g[j + 2] = 0 \/ g[j + 2] \in j + 2 .. Len(s)
          /\ g[j + 6] = 0 \/ g[j + 6] \in j + 6 .. Len(s)
      BY <3>1, <3>2
    <3>4. g[j] \in {0, g[j + 1], g[j + 2], g[j + 6]} \/ (g[j] = j /\ j <= Len(s))
      BY <1>1, <1>3, <2>1 DEF CloseStep, Positions
    <3> QED
      BY <3>3, <3>4, <1>1 DEF Positions
  <2> QED
    BY <2>1, <1>1, <1>5
<1>6. Len(s) \in T
  <2> HIDE DEF T
  <2>1. T \in SUBSET (0 .. Len(s))
    BY DEF T
  <2> QED
    BY <1>1, <1>4, <1>5, <2>1, UpTo
<1>7. Good(Len(s))
  BY <1>6
<1> QED
  BY <1>1, <1>2, <1>7 DEF Positions

-----------------------------------------------------------------------------
(* The types of what is read, and that it ends where it begins, or later.  *)

Behind(r, i) == r \in Stretch /\ (r.end = 0 \/ r.end >= i)

LEMMA EmptyType ==
  ASSUME NEW i \in Positions
  PROVE  Behind(Unreadable, i) /\ Behind(Empty(i), i) /\ Unreadable.end = 0
  BY DEF Behind, Unreadable, Empty, Stretch, Positions

LEMMA FollowedType ==
  ASSUME NEW r \in Stretch, NEW q \in Stretch
  PROVE  Followed(r, q) \in Stretch /\ Followed(r, q).end \in {0, q.end}
<1>1. Unreadable \in Stretch /\ Unreadable.end = 0
  BY DEF Unreadable, Stretch
<1>2. /\ r.end \in Nat /\ r.tokens \in Seq(Token) /\ r.count \in Nat /\ r.depth \in Nat
      /\ q.end \in Nat /\ q.tokens \in Seq(Token) /\ q.count \in Nat /\ q.depth \in Nat
  BY DEF Stretch
<1>3. /\ r.tokens \o q.tokens \in Seq(Token)
      /\ r.count + q.count \in Nat
      /\ Larger(r.depth, q.depth) \in Nat
  BY <1>2 DEF Larger
<1> QED
  BY <1>1, <1>2, <1>3 DEF Followed, Stretch

LEMMA StringType ==
  ASSUME NEW s \in Seq(STRING), NEW i \in Positions, NEW count \in Nat
  PROVE  Behind(StringAt(s, i, count), i + 1)
<1> DEFINE close == StringClose(s, i + 1)
<1>1. i + 1 \in Positions
  BY DEF Positions
<1>2. close \in Nat /\ (close # 0 => close \in i + 1 .. Len(s))
  BY <1>1, CloseType
<1> HIDE DEF close
<1>3. TokenOf(JSTOK_STRING, i + 1, close, 0) \in Token
  BY <1>1, <1>2 DEF TokenOf, Token, Types, Positions
<1>4. << TokenOf(JSTOK_STRING, i + 1, close, 0) >> \in Seq(Token)
  BY <1>3
<1> DEFINE found == [end |-> close + 1, tokens |-> << TokenOf(JSTOK_STRING, i + 1, close, 0) >>,
                     count |-> count, depth |-> 0]
<1>5. StringAt(s, i, count) = IF close = 0 THEN Unreadable ELSE found
  BY DEF StringAt, close
<1>6. found \in Stretch /\ found.end = close + 1
  BY <1>2, <1>4 DEF Stretch
<1> HIDE DEF found
<1> QED
  BY <1>1, <1>2, <1>5, <1>6, EmptyType DEF Behind, Positions

LEMMA PrimitiveType ==
  ASSUME NEW s \in Seq(STRING), NEW i \in Positions
  PROVE  Behind(PrimitiveAt(s, i), i + 1)
<1> DEFINE ends == {j \in i + 1 .. Len(s) + 1 : IsPrimitive(s, i, j)}
           end == CHOOSE j \in ends : TRUE
           found == [end |-> end, tokens |-> << TokenOf(JSTOK_PRIMITIVE, i, end, 0) >>,
                     count |-> 1, depth |-> 0]
<1>1. PrimitiveAt(s, i) = IF ends = {} THEN Unreadable ELSE found
  BY DEF PrimitiveAt
<1>2. Len(s) \in Nat /\ i + 1 \in Positions
  BY DEF Positions
<1>3. Behind(Unreadable, i + 1)
  BY <1>2, EmptyType
<1>4. CASE ends # {}
  <2>1. end \in ends
    BY <1>4
  <2> HIDE DEF end
  <2>2. end \in Nat /\ end >= i + 1
    BY <1>2, <2>1 DEF Positions
  <2>3. TokenOf(JSTOK_PRIMITIVE, i, end, 0) \in Token
    BY <2>2 DEF TokenOf, Token, Types, Positions
  <2>4. << TokenOf(JSTOK_PRIMITIVE, i, end, 0) >> \in Seq(Token)
    BY <2>3
  <2>5. found \in Stretch /\ found.end = end
    BY <2>2, <2>4 DEF Stretch
  <2> HIDE DEF found, ends
  <2> QED
    BY <1>1, <1>4, <2>2, <2>5 DEF Behind
<1> HIDE DEF ends, found
<1> QED
  BY <1>1, <1>3, <1>4

LEMMA ContainerType ==
  ASSUME NEW type \in Types, NEW i \in Positions, NEW inside, Behind(inside, i + 1)
  PROVE  Behind(ContainerOf(type, i, inside), i + 1)
<1> DEFINE opener == TokenOf(type, i, inside.end, inside.count)
           found == [end |-> inside.end, tokens |-> << opener >> \o inside.tokens,
                     count |-> 1, depth |-> 1 + inside.depth]
<1>1. i + 1 \in Positions
  BY DEF Positions
<1>2. Behind(Unreadable, i + 1)
  BY <1>1, EmptyType
<1>3. inside.end \in Nat /\ inside.tokens \in Seq(Token) /\ inside.count \in Nat /\ inside.depth \in Nat
  BY DEF Behind, Stretch
<1>4. opener \in Token
  BY <1>3 DEF TokenOf, Token, Positions
<1> HIDE DEF opener
<1>5. << opener >> \o inside.tokens \in Seq(Token)
  BY <1>3, <1>4
<1>6. found \in Stretch /\ found.end = inside.end
  BY <1>3, <1>5 DEF Stretch
<1>7. ContainerOf(type, i, inside) = IF inside.end = 0 THEN Unreadable ELSE found
  BY DEF ContainerOf, opener
<1> HIDE DEF found
<1> QED
  BY <1>2, <1>6, <1>7 DEF Behind

LEMMA ItemType ==
  ASSUME NEW s \in Seq(STRING), NEW i \in Positions, NEW place, NEW inside, Behind(inside, i + 1)
  PROVE  Behind(ItemAt(place, s, i, inside), i + 1)
<1>1. i + 1 \in Positions
  BY DEF Positions
<1>2. Behind(Unreadable, i + 1)
  BY <1>1, EmptyType
<1>3. Behind(StringAt(s, i, 0), i + 1) /\ Behind(StringAt(s, i, 1), i + 1) /\ Behind(PrimitiveAt(s, i), i + 1)
  BY StringType, PrimitiveType
<1>4. Behind(ContainerOf(JSTOK_OBJECT, i, inside), i + 1) /\ Behind(ContainerOf(JSTOK_ARRAY, i, inside), i + 1)
  BY ContainerType DEF Types
<1> QED
  BY <1>2, <1>3, <1>4 DEF ItemAt

-----------------------------------------------------------------------------
Places == TextPlaces \X Positions

RestStep(g, s, place, i) ==
  LET item == ItemAt(place, s, i, g[<< FirstPlace(s[i]), i + 1 >>])
  IN IF i > Len(s) THEN (IF place = TopLevel THEN Empty(i) ELSE Unreadable)
     ELSE IF s[i] \in Spaces THEN g[<< place, i + 1 >>]
     ELSE IF s[i] \in Closer(place) THEN Empty(i + 1)
     ELSE IF Separates(place, s[i]) THEN g[<< AfterSeparator(place), i + 1 >>]
     ELSE IF item.end = 0 THEN Unreadable
     ELSE Followed(item, g[<< AfterItem(place), item.end >>])

LEMMA NextPlaces ==
  ASSUME NEW place \in TextPlaces, NEW c
  PROVE  /\ FirstPlace(c) \in TextPlaces
         /\ AfterSeparator(place) \in TextPlaces
         /\ AfterItem(place) \in TextPlaces
  BY DEF TextPlaces, ObjectStates, ArrayStates, FirstPlace, AfterSeparator, AfterItem, TopLevel

BehindFrom(g, n) == \A place \in TextPlaces : \A i \in Positions : i >= n => Behind(g[<< place, i >>], i)

(* A step reads what is behind it, and of that alone.                      *)
LEMMA StepType ==
  ASSUME NEW s \in Seq(STRING), NEW i \in Positions, NEW place \in TextPlaces, NEW g, BehindFrom(g, i + 1)
  PROVE  Behind(RestStep(g, s, place, i), i)
<1> DEFINE inside == g[<< FirstPlace(s[i]), i + 1 >>]
           item == ItemAt(place, s, i, inside)
<1>1. i + 1 \in Positions /\ i \in Nat
  BY DEF Positions
<1>2. Behind(inside, i + 1) /\ Behind(g[<< place, i + 1 >>], i + 1)
      /\ Behind(g[<< AfterSeparator(place), i + 1 >>], i + 1)
  BY <1>1, NextPlaces DEF BehindFrom, Positions
<1> HIDE DEF inside
<1>3. Behind(item, i + 1)
  BY <1>2, ItemType
<1> HIDE DEF item
<1>4. Behind(Unreadable, i) /\ Behind(Empty(i), i) /\ Behind(Empty(i + 1), i + 1)
  BY <1>1, EmptyType
<1>5. ASSUME item.end # 0 PROVE Behind(Followed(item, g[<< AfterItem(place), item.end >>]), i)
  <2> DEFINE next == g[<< AfterItem(place), item.end >>]
  <2>1. item \in Stretch /\ item.end >= i + 1 /\ item.end \in Nat
    BY <1>3, <1>5 DEF Behind, Stretch
  <2>2. item.end \in Positions
    BY <1>5, <2>1 DEF Positions
  <2>3. Behind(next, item.end)
    BY <2>1, <2>2, NextPlaces DEF BehindFrom
  <2> HIDE DEF next
  <2>4. next \in Stretch /\ next.end \in Nat /\ (next.end = 0 \/ next.end >= item.end)
    BY <2>3 DEF Behind, Stretch
  <2>5. Followed(item, next) \in Stretch /\ Followed(item, next).end \in {0, next.end}
    BY <2>1, <2>4, FollowedType
  <2>6. Behind(Followed(item, next), i)
    BY <1>1, <2>1, <2>4, <2>5 DEF Behind
  <2> QED
    BY <2>6 DEF next
<1>6. \A r : Behind(r, i + 1) => Behind(r, i)
  BY <1>1 DEF Behind, Stretch
<1>7. RestStep(g, s, place, i) =
        IF i > Len(s) THEN (IF place = TopLevel THEN Empty(i) ELSE Unreadable)
        ELSE IF s[i] \in Spaces THEN g[<< place, i + 1 >>]
        ELSE IF s[i] \in Closer(place) THEN Empty(i + 1)
        ELSE IF Separates(place, s[i]) THEN g[<< AfterSeparator(place), i + 1 >>]
        ELSE IF item.end = 0 THEN Unreadable
        ELSE Followed(item, g[<< AfterItem(place), item.end >>])
  BY DEF RestStep, item, inside
<1> QED
  BY <1>2, <1>4, <1>5, <1>6, <1>7

LEMMA StepLocal ==
  ASSUME NEW s \in Seq(STRING), NEW i \in Positions, NEW place \in TextPlaces, NEW g, NEW h,
         BehindFrom(g, i + 1),
         \A p \in TextPlaces : \A j \in Positions : j >= i + 1 => h[<< p, j >>] = g[<< p, j >>]
  PROVE  RestStep(h, s, place, i) = RestStep(g, s, place, i)
<1> DEFINE inside == g[<< FirstPlace(s[i]), i + 1 >>]
           item == ItemAt(place, s, i, inside)
<1>1. i + 1 \in Positions /\ i \in Nat /\ i + 1 >= i + 1
  BY DEF Positions
<1>2. /\ h[<< FirstPlace(s[i]), i + 1 >>] = inside
      /\ h[<< place, i + 1 >>] = g[<< place, i + 1 >>]
      /\ h[<< AfterSeparator(place), i + 1 >>] = g[<< AfterSeparator(place), i + 1 >>]
  BY <1>1, NextPlaces
<1>3. Behind(inside, i + 1)
  BY <1>1, NextPlaces DEF BehindFrom
<1> HIDE DEF inside
<1>4. Behind(item, i + 1)
  BY <1>3, ItemType
<1> HIDE DEF item
<1>5. item.end # 0 => h[<< AfterItem(place), item.end >>] = g[<< AfterItem(place), item.end >>]
  <2> SUFFICES ASSUME item.end # 0 PROVE h[<< AfterItem(place), item.end >>] = g[<< AfterItem(place), item.end >>]
    OBVIOUS
  <2>1. item.end \in Positions /\ item.end >= i + 1
    BY <1>4 DEF Behind, Stretch, Positions
  <2> QED
    BY <2>1, NextPlaces
<1>6. RestStep(h, s, place, i) =
        IF i > Len(s) THEN (IF place = TopLevel THEN Empty(i) ELSE Unreadable)
        ELSE IF s[i] \in Spaces THEN g[<< place, i + 1 >>]
        ELSE IF s[i] \in Closer(place) THEN Empty(i + 1)
        ELSE IF Separates(place, s[i]) THEN g[<< AfterSeparator(place), i + 1 >>]
        ELSE IF item.end = 0 THEN Unreadable
        ELSE Followed(item, g[<< AfterItem(place), item.end >>])
  BY <1>2, <1>5 DEF RestStep, item
<1>7. RestStep(g, s, place, i) =
        IF i > Len(s) THEN (IF place = TopLevel THEN Empty(i) ELSE Unreadable)
        ELSE IF s[i] \in Spaces THEN g[<< place, i + 1 >>]
        ELSE IF s[i] \in Closer(place) THEN Empty(i + 1)
        ELSE IF Separates(place, s[i]) THEN g[<< AfterSeparator(place), i + 1 >>]
        ELSE IF item.end = 0 THEN Unreadable
        ELSE Followed(item, g[<< AfterItem(place), item.end >>])
  BY DEF RestStep, item, inside
<1> QED
  BY <1>6, <1>7

IsRest(g, s) == g = [at \in Places |-> RestStep(g, s, at[1], at[2])]

(* The function that is given from position n on by its definition.        *)
FromOn(g, s, n) ==
  /\ g = [at \in Places |-> g[at]]
  /\ \A place \in TextPlaces : \A i \in Positions :
       i >= n => /\ g[<< place, i >>] = RestStep(g, s, place, i)
                 /\ Behind(g[<< place, i >>], i)

LEMMA LastRest ==
  ASSUME NEW s \in Seq(STRING)
  PROVE  \E g : FromOn(g, s, Len(s) + 1)
<1> DEFINE g == [at \in Places |-> IF at[1] = TopLevel THEN Empty(at[2]) ELSE Unreadable]
<1>1. Len(s) \in Nat
  OBVIOUS
<1>2. g = [at \in Places |-> g[at]]
  OBVIOUS
<1>3. ASSUME NEW place \in TextPlaces, NEW i \in Positions, i >= Len(s) + 1
      PROVE  g[<< place, i >>] = RestStep(g, s, place, i) /\ Behind(g[<< place, i >>], i)
  <2>1. << place, i >> \in Places
    BY DEF Places
  <2>2. g[<< place, i >>] = IF place = TopLevel THEN Empty(i) ELSE Unreadable
    BY <2>1
  <2> HIDE DEF g
  <2>3. i > Len(s)
    BY <1>1, <1>3 DEF Positions
  <2>4. RestStep(g, s, place, i) = IF place = TopLevel THEN Empty(i) ELSE Unreadable
    BY <2>3 DEF RestStep
  <2> QED
    BY <2>2, <2>4, EmptyType
<1> HIDE DEF g
<1>4. FromOn(g, s, Len(s) + 1)
  BY <1>2, <1>3 DEF FromOn
<1> QED
  BY <1>4

LEMMA OneDown ==
  ASSUME NEW s \in Seq(STRING), NEW n \in Positions, NEW g, FromOn(g, s, n + 1)
  PROVE  \E h : FromOn(h, s, n)
<1> DEFINE h == [at \in Places |-> IF at[2] = n THEN RestStep(g, s, at[1], n) ELSE g[at]]
<1>1. n \in Nat /\ n # 0
  BY DEF Positions
<1>2. BehindFrom(g, n + 1)
  BY DEF FromOn, BehindFrom
<1>3. h = [at \in Places |-> h[at]]
  OBVIOUS
<1>4. \A place \in TextPlaces : \A i \in Positions :
        h[<< place, i >>] = IF i = n THEN RestStep(g, s, place, n) ELSE g[<< place, i >>]
  BY DEF Places
<1> HIDE DEF h
<1>5. ASSUME NEW place \in TextPlaces, NEW i \in Positions, i >= n
      PROVE  RestStep(h, s, place, i) = RestStep(g, s, place, i)
  <2>1. i \in Nat /\ BehindFrom(g, i + 1)
    BY <1>1, <1>2, <1>5 DEF BehindFrom, Positions
  <2>2. \A p \in TextPlaces : \A j \in Positions : j >= i + 1 => h[<< p, j >>] = g[<< p, j >>]
    BY <1>1, <1>4, <1>5, <2>1 DEF Positions
  <2> QED
    BY <2>1, <2>2, StepLocal
<1>6. ASSUME NEW place \in TextPlaces, NEW i \in Positions, i >= n
      PROVE  h[<< place, i >>] = RestStep(h, s, place, i) /\ Behind(h[<< place, i >>], i)
  <2>1. RestStep(h, s, place, i) = RestStep(g, s, place, i)
    BY <1>5, <1>6
  <2>2. CASE i = n
    <3>1. Behind(RestStep(g, s, place, n), n)
      BY <1>2, StepType
    <3> QED
      BY <1>4, <2>1, <2>2, <3>1
  <2>3. CASE i # n
    <3>1. i >= n + 1
      BY <1>1, <1>6, <2>3 DEF Positions
    <3>2. g[<< place, i >>] = RestStep(g, s, place, i) /\ Behind(g[<< place, i >>], i)
      BY <3>1 DEF FromOn
    <3> QED
      BY <1>4, <2>1, <2>3, <3>2
  <2> QED
    BY <2>2, <2>3
<1>7. FromOn(h, s, n)
  BY <1>3, <1>6 DEF FromOn
<1> QED
  BY <1>7

LEMMA RestExists ==
  ASSUME NEW s \in Seq(STRING)
  PROVE  \E g : IsRest(g, s)
<1> DEFINE T == {m \in 0 .. Len(s) : \E g : FromOn(g, s, Len(s) + 1 - m)}
<1>1. Len(s) \in Nat
  OBVIOUS
<1>2. 0 \in T
  BY <1>1, LastRest
<1>3. ASSUME NEW m \in T, m < Len(s) PROVE m + 1 \in T
  <2>1. PICK g : FromOn(g, s, Len(s) + 1 - m)
    OBVIOUS
  <2> DEFINE n == Len(s) - m
  <2>2. n \in Positions /\ n + 1 = Len(s) + 1 - m /\ n = Len(s) + 1 - (m + 1)
    BY <1>1, <1>3 DEF Positions
  <2> HIDE DEF n
  <2>3. \E h : FromOn(h, s, n)
    BY <2>1, <2>2, OneDown
  <2> QED
    BY <1>1, <1>3, <2>2, <2>3
<1>4. Len(s) \in T
  <2> HIDE DEF T
  <2>1. T \in SUBSET (0 .. Len(s))
    BY DEF T
  <2> QED
    BY <1>1, <1>2, <1>3, <2>1, UpTo
<1>5. PICK g : FromOn(g, s, Len(s) + 1 - Len(s))
  BY <1>4
<1>6. FromOn(g, s, 1)
  BY <1>1, <1>5
<1>7. \A place \in TextPlaces : \A i \in Positions : g[<< place, i >>] = RestStep(g, s, place, i)
  <2>1. \A i \in Positions : i >= 1
    BY DEF Positions
  <2> QED
    BY <1>6, <2>1 DEF FromOn
<1>8. g = [at \in Places |-> g[at]]
  BY <1>6 DEF FromOn
<1>9. \A at \in Places : g[at] = RestStep(g, s, at[1], at[2])
  <2> SUFFICES ASSUME NEW at \in Places PROVE g[at] = RestStep(g, s, at[1], at[2])
    OBVIOUS
  <2>1. at = << at[1], at[2] >> /\ at[1] \in TextPlaces /\ at[2] \in Positions
    BY DEF Places
  <2> QED
    BY <1>7, <2>1
<1>10. g = [at \in Places |-> RestStep(g, s, at[1], at[2])]
  BY <1>8, <1>9
<1> QED
  BY <1>10 DEF IsRest

LEMMA RestEquation ==
  ASSUME NEW s \in Seq(STRING)
  PROVE  IsRest(RestsOf(s), s)
<1> DEFINE f == CHOOSE g : g = [at \in Places |-> RestStep(g, s, at[1], at[2])]
<1>1. f = [at \in Places |-> RestStep(f, s, at[1], at[2])]
  BY RestExists DEF IsRest
<1>2. RestsOf(s) = f
  BY DEF RestsOf, RestStep, Places, Positions
<1> QED
  BY <1>1, <1>2 DEF IsRest

(* What can be read from a place on, and what it is read as.               *)
Rest(place, s, i) == RestsOf(s)[<< place, i >>]

LEMMA RestIs ==
  ASSUME NEW s \in Seq(STRING), NEW place \in TextPlaces, NEW i \in Positions
  PROVE  Rest(place, s, i) = RestStep(RestsOf(s), s, place, i)
<1>1. << place, i >> \in Places
  BY DEF Places
<1> DEFINE g == RestsOf(s)
<1> HIDE DEF g
<1>2. g = [at \in Places |-> RestStep(g, s, at[1], at[2])]
  BY RestEquation DEF g, IsRest
<1>3. g[<< place, i >>] = RestStep(g, s, place, i)
  BY <1>1, <1>2
<1> QED
  BY <1>3 DEF Rest, g

LEMMA RestType ==
  ASSUME NEW s \in Seq(STRING), NEW place \in TextPlaces, NEW i \in Positions
  PROVE  Behind(Rest(place, s, i), i)
<1> DEFINE g == RestsOf(s)
           T == {m \in 0 .. Len(s) : BehindFrom(g, Len(s) + 1 - m)}
<1>1. Len(s) \in Nat
  OBVIOUS
<1>2. \A p \in TextPlaces : \A j \in Positions : g[<< p, j >>] = RestStep(g, s, p, j)
  BY RestIs DEF Rest
<1> HIDE DEF g
<1>3. 0 \in T
  <2>1. \A p \in TextPlaces : \A j \in Positions : j >= Len(s) + 1 =>
           RestStep(g, s, p, j) = IF p = TopLevel THEN Empty(j) ELSE Unreadable
    BY <1>1 DEF RestStep, Positions
  <2>2. BehindFrom(g, Len(s) + 1)
    BY <1>2, <2>1, EmptyType DEF BehindFrom
  <2> QED
    BY <1>1, <2>2
<1>4. ASSUME NEW m \in T, m < Len(s) PROVE m + 1 \in T
  <2> DEFINE n == Len(s) - m
  <2>1. n \in Positions /\ n + 1 = Len(s) + 1 - m /\ n = Len(s) + 1 - (m + 1)
    BY <1>1, <1>4 DEF Positions
  <2>2. BehindFrom(g, n + 1)
    BY <2>1
  <2> HIDE DEF n
  <2>3. ASSUME NEW p \in TextPlaces, NEW j \in Positions, j >= n PROVE Behind(g[<< p, j >>], j)
    <3>1. CASE j = n
      BY <1>2, <2>1, <2>2, <3>1, StepType
    <3>2. CASE j # n
      BY <2>1, <2>2, <2>3, <3>2 DEF BehindFrom, Positions
    <3> QED
      BY <3>1, <3>2
  <2>4. BehindFrom(g, n)
    BY <2>3 DEF BehindFrom
  <2> QED
    BY <1>1, <1>4, <2>1, <2>4
<1>5. Len(s) \in T
  <2> HIDE DEF T
  <2>1. T \in SUBSET (0 .. Len(s))
    BY DEF T
  <2> QED
    BY <1>1, <1>3, <1>4, <2>1, UpTo
<1>6. BehindFrom(g, 1)
  BY <1>1, <1>5
<1> QED
  BY <1>6 DEF BehindFrom, Rest, g, Positions

-----------------------------------------------------------------------------
(* What a parser that stands at some position will have read at the end:   *)
(* it finishes its containers from the innermost to the outermost, the     *)
(* text itself.                                                            *)

Config == [at : Nat, tokens : Seq(Token), depth : Nat]
ConfigOf(at, toks, depth) == [at |-> at, tokens |-> toks, depth |-> depth]
Lost == ConfigOf(0, << >>, 0)

(* The place where a container goes on, and its token; the text has none.  *)
OpenFrame == [st : TextPlaces, tok : Nat]
Root == [st |-> TopLevel, tok |-> 0]

Retold(T, tok, end, n) ==
  [k \in DOMAIN T |-> IF k = tok THEN TokenOf(T[k].type, T[k].start, end, T[k].size + n) ELSE T[k]]
Grown(T, tok, n) ==
  [k \in DOMAIN T |-> IF k = tok THEN TokenOf(T[k].type, T[k].start, T[k].end, T[k].size + n) ELSE T[k]]

Finish(u, level, f, X) ==
  LET rest == Rest(f.st, u, X.at)
  IN IF X.at = 0 \/ rest.end = 0 THEN Lost
     ELSE ConfigOf(rest.end, Retold(X.tokens, f.tok, rest.end, rest.count) \o rest.tokens,
                   Larger(X.depth, level + rest.depth))

IsChain(S, u, F, X) ==
  /\ S \in Seq(Config) /\ Len(S) = Len(F) + 1
  /\ S[Len(F) + 1] = X
  /\ \A k \in 1 .. Len(F) : S[k] = Finish(u, k - 1, F[k], S[k + 1])
Completes(u, F, X, r) == \E S : IsChain(S, u, F, X) /\ S[1] = r

Whole(u) ==
  LET r == ReadingOf(u) IN IF r.end = 0 THEN Lost ELSE ConfigOf(r.end, r.tokens, r.depth)

LEMMA ConfigType ==
  ASSUME NEW at \in Nat, NEW T \in Seq(Token), NEW d \in Nat
  PROVE  /\ ConfigOf(at, T, d) \in Config
         /\ ConfigOf(at, T, d).at = at
         /\ ConfigOf(at, T, d).tokens = T
         /\ ConfigOf(at, T, d).depth = d
  BY DEF ConfigOf, Config

LEMMA LostType == Lost \in Config /\ Lost.at = 0
<1>1. << >> \in Seq(Token)
  OBVIOUS
<1> QED
  BY <1>1 DEF Lost, ConfigOf, Config

LEMMA RetoldType ==
  ASSUME NEW T \in Seq(Token), NEW tok \in Nat, NEW end \in Nat, NEW n \in Nat
  PROVE  Retold(T, tok, end, n) \in Seq(Token) /\ Len(Retold(T, tok, end, n)) = Len(T)
<1>1. DOMAIN T = 1 .. Len(T) /\ Len(T) \in Nat
  OBVIOUS
<1>2. \A k \in 1 .. Len(T) : T[k] \in Token
  OBVIOUS
<1>3. \A k \in 1 .. Len(T) : TokenOf(T[k].type, T[k].start, end, T[k].size + n) \in Token
  BY <1>2 DEF TokenOf, Token
<1> QED
  BY <1>1, <1>2, <1>3 DEF Retold

LEMMA GrownType ==
  ASSUME NEW T \in Seq(Token), NEW tok \in Nat, NEW n \in Nat
  PROVE  Grown(T, tok, n) \in Seq(Token) /\ Len(Grown(T, tok, n)) = Len(T)
<1>1. DOMAIN T = 1 .. Len(T) /\ Len(T) \in Nat
  OBVIOUS
<1>2. \A k \in 1 .. Len(T) : T[k] \in Token
  OBVIOUS
<1>3. \A k \in 1 .. Len(T) : TokenOf(T[k].type, T[k].start, T[k].end, T[k].size + n) \in Token
  BY <1>2 DEF TokenOf, Token
<1> QED
  BY <1>1, <1>2, <1>3 DEF Grown

(* Finishing loses nothing: if it can be read, the tokens are still there. *)
Within(X, Y) == Y.at # 0 => X.at # 0 /\ Len(X.tokens) <= Len(Y.tokens) /\ X.depth <= Y.depth

LEMMA FinishType ==
  ASSUME NEW u \in Seq(STRING), NEW k \in Nat, NEW f \in OpenFrame, NEW X \in Config
  PROVE  /\ Finish(u, k, f, X) \in Config
         /\ Within(X, Finish(u, k, f, X))
         /\ Finish(u, k, f, X).at # 0 =>
              LET rest == Rest(f.st, u, X.at)
              IN /\ Finish(u, k, f, X).depth >= k + rest.depth
                 /\ Len(Finish(u, k, f, X).tokens) = Len(X.tokens) + Len(rest.tokens)
<1> DEFINE rest == Rest(f.st, u, X.at)
<1>1. X.at \in Nat /\ X.tokens \in Seq(Token) /\ X.depth \in Nat /\ f.st \in TextPlaces /\ f.tok \in Nat
  BY DEF Config, OpenFrame
<1>2. CASE X.at = 0
  BY <1>2, LostType DEF Finish, Within
<1>3. CASE X.at # 0
  <2>1. X.at \in Positions
    BY <1>1, <1>3 DEF Positions
  <2>2. Behind(rest, X.at)
    BY <1>1, <2>1, RestType
  <2> DEFINE rt == rest.tokens  re == rest.end  rc_ == rest.count  rd == rest.depth
             filled == Retold(X.tokens, f.tok, re, rc_)
             toks == filled \o rt
             deep == Larger(X.depth, k + rd)
             Y == ConfigOf(re, toks, deep)
  <2>3. re \in Nat /\ rt \in Seq(Token) /\ rc_ \in Nat /\ rd \in Nat
    BY <2>2 DEF Behind, Stretch
  <2>4. Finish(u, k, f, X) = IF re = 0 THEN Lost ELSE Y
    BY <1>3 DEF Finish
  <2> HIDE DEF re, rt, rc_, rd
  <2>5. filled \in Seq(Token) /\ Len(filled) = Len(X.tokens)
    BY <1>1, <2>3, RetoldType
  <2> HIDE DEF filled
  <2>6. toks \in Seq(Token) /\ Len(toks) = Len(filled) + Len(rt)
    BY <2>3, <2>5
  <2>7. deep \in Nat /\ deep >= X.depth /\ deep >= k + rd
    BY <1>1, <2>3 DEF Larger
  <2> HIDE DEF toks, deep
  <2>8. Y \in Config /\ Y.at = re /\ Y.tokens = toks /\ Y.depth = deep
    BY <2>3, <2>6, <2>7, ConfigType
  <2> HIDE DEF Y
  <2>9. Len(X.tokens) \in Nat /\ Len(rt) \in Nat
    BY <1>1, <2>3
  <2> DEFINE Z == Finish(u, k, f, X)
  <2> HIDE DEF Z
  <2>10. Z = IF re = 0 THEN Lost ELSE Y
    BY <2>4 DEF Z
  <2>11. Z \in Config
    BY <2>8, <2>10, LostType
  <2>12. Within(X, Z)
    BY <1>3, <2>5, <2>6, <2>7, <2>8, <2>9, <2>10, LostType DEF Within
  <2>13. Z.at # 0 => Z.depth >= k + rd /\ Len(Z.tokens) = Len(X.tokens) + Len(rt)
    BY <2>5, <2>6, <2>7, <2>8, <2>10, LostType
  <2> QED
    BY <2>11, <2>12, <2>13 DEF Z, rd, rt
<1> QED
  BY <1>2, <1>3

LEMMA ChainWithin ==
  ASSUME NEW u \in Seq(STRING), NEW F \in Seq(OpenFrame), NEW X \in Config, NEW r, Completes(u, F, X, r)
  PROVE  Within(X, r) /\ r \in Config
<1>1. PICK S : IsChain(S, u, F, X) /\ S[1] = r
  BY DEF Completes
<1> DEFINE n == Len(F)
           T == {m \in 0 .. n : Within(X, S[n + 1 - m])}
<1>2. n \in Nat
  OBVIOUS
<1>3. /\ S \in Seq(Config) /\ Len(S) = n + 1 /\ S[n + 1] = X
      /\ \A k \in 1 .. n : S[k] = Finish(u, k - 1, F[k], S[k + 1])
  BY <1>1 DEF IsChain
<1>f. \A k \in 1 .. n : F[k] \in OpenFrame
  OBVIOUS
<1> HIDE DEF n
<1>4. \A k \in 1 .. n + 1 : S[k] \in Config
  BY <1>3
<1>5. \A Y \in Config : Len(Y.tokens) \in Nat /\ Y.depth \in Nat
  BY DEF Config
<1>6. 0 \in T
  BY <1>2, <1>3, <1>5 DEF Within
<1>7. ASSUME NEW m \in T, m < n PROVE m + 1 \in T
  <2> DEFINE k == n - m
  <2>1. k \in 1 .. n /\ k - 1 \in Nat /\ k + 1 = n + 1 - m /\ k = n + 1 - (m + 1) /\ k + 1 \in 1 .. n + 1 /\ k \in 1 .. n + 1
    BY <1>2, <1>7
  <2>2. Within(X, S[k + 1])
    BY <2>1
  <2> HIDE DEF k
  <2>3. S[k] = Finish(u, k - 1, F[k], S[k + 1]) /\ S[k + 1] \in Config /\ S[k] \in Config
    BY <1>3, <1>4, <2>1
  <2>f. F[k] \in OpenFrame /\ k - 1 \in Nat /\ S[k + 1] \in Config
    BY <1>f, <2>1, <2>3
  <2>4. Within(S[k + 1], S[k])
    <3>1. Within(S[k + 1], Finish(u, k - 1, F[k], S[k + 1]))
      BY <2>f, FinishType
    <3> QED
      BY <2>3, <3>1
  <2>5. Within(X, S[k])
    <3>1. \A Y \in Config, Z \in Config : Within(X, Y) /\ Within(Y, Z) => Within(X, Z)
      BY <1>5 DEF Within
    <3> QED
      BY <2>2, <2>3, <2>4, <3>1
  <2> QED
    BY <1>2, <1>7, <2>1, <2>5
<1>8. n \in T
  <2> HIDE DEF T
  <2>1. T \in SUBSET (0 .. n)
    BY DEF T
  <2> QED
    BY <1>2, <1>6, <1>7, <2>1, UpTo
<1> QED
  BY <1>1, <1>2, <1>4, <1>8

(* The innermost container is the first to be finished.                    *)
LEMMA ChainTop ==
  ASSUME NEW u \in Seq(STRING), NEW B \in Seq(OpenFrame), NEW f \in OpenFrame, NEW X \in Config, NEW r
  PROVE  Completes(u, Append(B, f), X, r) <=> Completes(u, B, Finish(u, Len(B), f, X), r)
<1> DEFINE n == Len(B)
           F == Append(B, f)
           Y == Finish(u, n, f, X)
<1>1. n \in Nat
  OBVIOUS
<1>2. F \in Seq(OpenFrame) /\ Len(F) = n + 1 /\ F[n + 1] = f /\ \A k \in 1 .. n : F[k] = B[k]
  OBVIOUS
<1>3. Y \in Config
  BY <1>1, FinishType
<1>n. n = Len(B)
  OBVIOUS
<1> HIDE DEF n, F, Y
<1>4. ASSUME Completes(u, F, X, r) PROVE Completes(u, B, Y, r)
  <2>1. PICK S : IsChain(S, u, F, X) /\ S[1] = r
    BY <1>4 DEF Completes
  <2>2. /\ S \in Seq(Config) /\ Len(S) = n + 2 /\ S[n + 2] = X
        /\ \A k \in 1 .. n + 1 : S[k] = Finish(u, k - 1, F[k], S[k + 1])
    BY <1>1, <1>2, <2>1 DEF IsChain
  <2> DEFINE R == SubSeq(S, 1, n + 1)
  <2>3. R \in Seq(Config) /\ Len(R) = n + 1 /\ \A k \in 1 .. n + 1 : R[k] = S[k]
    BY <1>1, <2>2
  <2> HIDE DEF R
  <2>4. R[n + 1] = Y
    <3>1. n + 1 \in 1 .. n + 1 /\ (n + 1) - 1 = n /\ (n + 1) + 1 = n + 2
      BY <1>1
    <3>2. S[n + 1] = Finish(u, n, f, X)
      BY <1>2, <2>2, <3>1
    <3> QED
      BY <2>3, <3>1, <3>2 DEF Y
  <2>5. \A k \in 1 .. n : R[k] = Finish(u, k - 1, B[k], R[k + 1])
    <3> SUFFICES ASSUME NEW k \in 1 .. n PROVE R[k] = Finish(u, k - 1, B[k], R[k + 1])
      OBVIOUS
    <3>1. k \in 1 .. n + 1 /\ k + 1 \in 1 .. n + 1
      BY <1>1
    <3> QED
      BY <1>2, <2>2, <2>3, <3>1
  <2>6. IsChain(R, u, B, Y) /\ R[1] = r
    BY <1>1, <1>n, <2>1, <2>3, <2>4, <2>5 DEF IsChain
  <2> QED
    BY <2>6 DEF Completes
<1>5. ASSUME Completes(u, B, Y, r) PROVE Completes(u, F, X, r)
  <2>1. PICK S : IsChain(S, u, B, Y) /\ S[1] = r
    BY <1>5 DEF Completes
  <2>2. /\ S \in Seq(Config) /\ Len(S) = n + 1 /\ S[n + 1] = Y
        /\ \A k \in 1 .. n : S[k] = Finish(u, k - 1, B[k], S[k + 1])
    BY <1>1, <1>n, <2>1 DEF IsChain
  <2> DEFINE R == Append(S, X)
  <2>3. R \in Seq(Config) /\ Len(R) = n + 2 /\ R[n + 2] = X /\ \A k \in 1 .. n + 1 : R[k] = S[k]
    BY <1>1, <2>2
  <2> HIDE DEF R
  <2>4. \A k \in 1 .. n + 1 : R[k] = Finish(u, k - 1, F[k], R[k + 1])
    <3> SUFFICES ASSUME NEW k \in 1 .. n + 1 PROVE R[k] = Finish(u, k - 1, F[k], R[k + 1])
      OBVIOUS
    <3>1. CASE k = n + 1
      <4>1. k - 1 = n /\ k + 1 = n + 2
        BY <1>1, <3>1
      <4> QED
        BY <1>2, <2>2, <2>3, <3>1, <4>1 DEF Y
    <3>2. CASE k # n + 1
      <4>1. k \in 1 .. n /\ k + 1 \in 1 .. n + 1
        BY <1>1, <3>2
      <4> QED
        BY <1>2, <2>2, <2>3, <4>1
    <3> QED
      BY <3>1, <3>2
  <2>5. IsChain(R, u, F, X) /\ R[1] = r
    BY <1>1, <1>2, <2>1, <2>3, <2>4 DEF IsChain
  <2> QED
    BY <2>5 DEF Completes
<1> QED
  BY <1>4, <1>5 DEF F, Y, n

LEMMA ChainEnd ==
  ASSUME NEW u \in Seq(STRING), NEW X \in Config, NEW r
  PROVE  Completes(u, << >>, X, r) <=> X = r
<1>1. ASSUME Completes(u, << >>, X, r) PROVE X = r
  BY <1>1 DEF Completes, IsChain
<1>2. ASSUME X = r PROVE Completes(u, << >>, X, r)
  <2>1. IsChain(<< X >>, u, << >>, X) /\ << X >>[1] = r
    BY <1>2 DEF IsChain
  <2> QED
    BY <2>1 DEF Completes
<1> QED
  BY <1>1, <1>2

-----------------------------------------------------------------------------
(* What a token becomes does not depend on the tokens behind it.           *)

LEMMA RetoldJoined ==
  ASSUME NEW T \in Seq(Token), NEW Q \in Seq(Token), NEW tok \in 0 .. Len(T), NEW end \in Nat, NEW n \in Nat
  PROVE  Retold(T \o Q, tok, end, n) = Retold(T, tok, end, n) \o Q
<1> DEFINE A == Retold(T \o Q, tok, end, n)
           B == Retold(T, tok, end, n)
<1>1. Len(T) \in Nat /\ Len(Q) \in Nat /\ T \o Q \in Seq(Token) /\ Len(T \o Q) = Len(T) + Len(Q) /\ tok \in Nat
  OBVIOUS
<1>2. A \in Seq(Token) /\ Len(A) = Len(T) + Len(Q)
  <2> DEFINE J == T \o Q
  <2>1. J \in Seq(Token) /\ Len(J) = Len(T) + Len(Q)
    BY <1>1
  <2> HIDE DEF J
  <2>2. Retold(J, tok, end, n) \in Seq(Token) /\ Len(Retold(J, tok, end, n)) = Len(J)
    BY <1>1, <2>1, RetoldType
  <2> QED
    BY <2>1, <2>2 DEF J
<1>3. B \in Seq(Token) /\ Len(B) = Len(T)
  BY RetoldType
<1>4. \A k \in 1 .. Len(T) + Len(Q) : A[k] = (B \o Q)[k]
  <2> SUFFICES ASSUME NEW k \in 1 .. Len(T) + Len(Q) PROVE A[k] = (B \o Q)[k]
    OBVIOUS
  <2>1. (T \o Q)[k] = IF k <= Len(T) THEN T[k] ELSE Q[k - Len(T)]
    BY <1>1
  <2>2. (B \o Q)[k] = IF k <= Len(T) THEN B[k] ELSE Q[k - Len(T)]
    <3> HIDE DEF B
    <3> QED
      BY <1>1, <1>3
  <2>3. k \in DOMAIN (T \o Q) /\ (k <= Len(T) => k \in DOMAIN T)
    BY <1>1
  <2>4. A[k] = IF k = tok THEN TokenOf((T \o Q)[k].type, (T \o Q)[k].start, end, (T \o Q)[k].size + n)
               ELSE (T \o Q)[k]
    BY <2>3 DEF Retold
  <2>5. k <= Len(T) => B[k] = IF k = tok THEN TokenOf(T[k].type, T[k].start, end, T[k].size + n) ELSE T[k]
    BY <2>3 DEF Retold
  <2> HIDE DEF A, B
  <2>6. k > Len(T) => k # tok
    BY <1>1
  <2> QED
    BY <2>1, <2>2, <2>4, <2>5, <2>6, <1>1
<1>5. B \o Q \in Seq(Token) /\ Len(B \o Q) = Len(T) + Len(Q)
  <2> HIDE DEF B
  <2> QED
    BY <1>1, <1>3
<1> HIDE DEF A, B
<1>6. A = B \o Q
  BY <1>1, <1>2, <1>4, <1>5
<1> QED
  BY <1>6 DEF A, B

LEMMA GrownRetold ==
  ASSUME NEW T \in Seq(Token), NEW tok \in Nat, NEW end \in Nat, NEW n \in Nat, NEW m \in Nat
  PROVE  Retold(Grown(T, tok, m), tok, end, n) = Retold(T, tok, end, m + n)
<1> DEFINE A == Grown(T, tok, m)
           B == Retold(A, tok, end, n)
           C == Retold(T, tok, end, m + n)
<1>1. A \in Seq(Token) /\ Len(A) = Len(T) /\ Len(T) \in Nat
  BY GrownType
<1>2. B \in Seq(Token) /\ Len(B) = Len(T)
  <2> HIDE DEF A
  <2> QED
    BY <1>1, RetoldType
<1>3. m + n \in Nat
  OBVIOUS
<1>4. C \in Seq(Token) /\ Len(C) = Len(T)
  BY <1>3, RetoldType
<1>5. \A k \in 1 .. Len(T) : B[k] = C[k]
  <2> SUFFICES ASSUME NEW k \in 1 .. Len(T) PROVE B[k] = C[k]
    OBVIOUS
  <2>1. k \in DOMAIN T /\ k \in DOMAIN A /\ T[k] \in Token
    BY <1>1
  <2>2. A[k] = IF k = tok THEN TokenOf(T[k].type, T[k].start, T[k].end, T[k].size + m) ELSE T[k]
    BY <2>1 DEF Grown
  <2>3. B[k] = IF k = tok THEN TokenOf(A[k].type, A[k].start, end, A[k].size + n) ELSE A[k]
    BY <2>1 DEF Retold
  <2>4. C[k] = IF k = tok THEN TokenOf(T[k].type, T[k].start, end, T[k].size + (m + n)) ELSE T[k]
    BY <2>1 DEF Retold
  <2>5. T[k].size \in Nat
    BY <2>1 DEF Token
  <2> HIDE DEF A, B, C
  <2>6. (T[k].size + m) + n = T[k].size + (m + n)
    BY <2>5
  <2> QED
    BY <2>2, <2>3, <2>4, <2>6 DEF TokenOf
<1> HIDE DEF A, B, C
<1>6. B = C
  BY <1>1, <1>2, <1>4, <1>5
<1> QED
  BY <1>6 DEF A, B, C

(* Equality as a relation: a lemma that states it can be cited as it is.   *)
Equals(A, B) == A = B

(* The last token of a list.                                               *)
LEMMA RetoldLast ==
  ASSUME NEW T \in Seq(Token), NEW t \in Token, NEW end \in Nat, NEW n \in Nat
  PROVE  Equals(Retold(Append(T, t), Len(T) + 1, end, n), Append(T, TokenOf(t.type, t.start, end, t.size + n)))
<1> DEFINE A == Append(T, t)
           o == TokenOf(t.type, t.start, end, t.size + n)
           B == Retold(A, Len(T) + 1, end, n)
           C == Append(T, o)
<1>1. Len(T) \in Nat /\ A \in Seq(Token) /\ Len(A) = Len(T) + 1 /\ Len(T) + 1 \in Nat
  OBVIOUS
<1>2. B \in Seq(Token) /\ Len(B) = Len(T) + 1
  <2> HIDE DEF A
  <2> QED
    BY <1>1, RetoldType
<1>3. o \in Token
  BY DEF TokenOf, Token
<1> HIDE DEF o
<1>4. C \in Seq(Token) /\ Len(C) = Len(T) + 1 /\ C[Len(T) + 1] = o /\ \A k \in 1 .. Len(T) : C[k] = T[k]
  BY <1>3
<1>5. \A k \in 1 .. Len(T) + 1 : B[k] = C[k]
  <2> SUFFICES ASSUME NEW k \in 1 .. Len(T) + 1 PROVE B[k] = C[k]
    OBVIOUS
  <2>1. k \in DOMAIN A /\ A[k] = IF k = Len(T) + 1 THEN t ELSE T[k]
    BY <1>1
  <2>2. B[k] = IF k = Len(T) + 1 THEN TokenOf(A[k].type, A[k].start, end, A[k].size + n) ELSE A[k]
    BY <2>1 DEF Retold
  <2>3. C[k] = IF k = Len(T) + 1 THEN o ELSE T[k]
    BY <1>1, <1>4
  <2> HIDE DEF A, B, C
  <2> QED
    BY <2>1, <2>2, <2>3 DEF o
<1> HIDE DEF A, B, C
<1>6. B = C
  BY <1>1, <1>2, <1>4, <1>5
<1> QED
  BY <1>6 DEF A, B, C, o, Equals

LEMMA Behead ==
  ASSUME NEW T \in Seq(Token), NEW t \in Token, NEW Q \in Seq(Token)
  PROVE  /\ T \o (<< t >> \o Q) = Append(T, t) \o Q
         /\ Append(T, t) = T \o << t >>
         /\ << t >> \o Q \in Seq(Token) /\ Append(T, t) \o Q \in Seq(Token)
         /\ Len(Append(T, t) \o Q) = Len(T) + 1 + Len(Q)
  OBVIOUS

LEMMA NothingBehind ==
  ASSUME NEW T \in Seq(Token)
  PROVE  T \o << >> = T /\ << >> \o T = T
  OBVIOUS

-----------------------------------------------------------------------------
(* What one turn of the loop does to what will have been read: nothing.    *)

LEMMA Moved ==
  ASSUME NEW u, NEW k \in Nat, NEW f \in OpenFrame, NEW i \in Positions, NEW T \in Seq(Token), NEW d \in Nat,
         NEW p, NEW j \in Positions, Rest(f.st, u, i) = Rest(p, u, j)
  PROVE  Finish(u, k, f, ConfigOf(i, T, d)) = Finish(u, k, [st |-> p, tok |-> f.tok], ConfigOf(j, T, d))
<1>1. i # 0 /\ j # 0
  BY DEF Positions
<1>2. ConfigOf(i, T, d).at = i /\ ConfigOf(i, T, d).tokens = T /\ ConfigOf(i, T, d).depth = d
      /\ ConfigOf(j, T, d).at = j /\ ConfigOf(j, T, d).tokens = T /\ ConfigOf(j, T, d).depth = d
  BY DEF ConfigOf
<1>3. [st |-> p, tok |-> f.tok].st = p /\ [st |-> p, tok |-> f.tok].tok = f.tok
  OBVIOUS
<1> QED
  BY <1>1, <1>2, <1>3 DEF Finish

LEMMA Lose ==
  ASSUME NEW u, NEW k \in Nat, NEW f \in OpenFrame, NEW i \in Positions, NEW T \in Seq(Token), NEW d \in Nat,
         Rest(f.st, u, i).end = 0
  PROVE  Finish(u, k, f, ConfigOf(i, T, d)) = Lost
  BY DEF Finish, ConfigOf

LEMMA Close ==
  ASSUME NEW u, NEW k \in Nat, NEW f \in OpenFrame, NEW i \in Positions, NEW T \in Seq(Token), NEW d \in Nat,
         NEW j \in Positions, Rest(f.st, u, i) = Empty(j)
  PROVE  Finish(u, k, f, ConfigOf(i, T, d)) = ConfigOf(j, Retold(T, f.tok, j, 0), Larger(d, k))
<1>1. i # 0 /\ j # 0 /\ j \in Nat
  BY DEF Positions
<1>2. ConfigOf(i, T, d).at = i /\ ConfigOf(i, T, d).tokens = T /\ ConfigOf(i, T, d).depth = d
  BY DEF ConfigOf
<1>3. Empty(j).end = j /\ Empty(j).tokens = << >> /\ Empty(j).count = 0 /\ Empty(j).depth = 0
  BY DEF Empty
<1>4. f.tok \in Nat /\ k + 0 = k
  BY DEF OpenFrame
<1>5. Retold(T, f.tok, j, 0) \o << >> = Retold(T, f.tok, j, 0)
  BY <1>1, <1>4, RetoldType, NothingBehind
<1> QED
  BY <1>1, <1>2, <1>3, <1>4, <1>5 DEF Finish

(* A key or a value without a value in it.                                 *)
ItemOf(end, t, count) == [end |-> end, tokens |-> << t >>, count |-> count, depth |-> 0]

LEMMA TookTokens ==
  ASSUME NEW T \in Seq(Token), NEW tok \in 0 .. Len(T), NEW t \in Token, NEW count \in Nat,
         NEW e \in Nat, NEW c \in Nat, NEW q \in Seq(Token)
  PROVE  Equals(Retold(Append(Grown(T, tok, count), t), tok, e, c) \o q,
                    Retold(T, tok, e, count + c) \o (<< t >> \o q))
<1> DEFINE G == Grown(T, tok, count)
           R == Retold(G, tok, e, c)
           one == << t >>
<1>1. tok \in Nat /\ one \in Seq(Token)
  OBVIOUS
<1>2. G \in Seq(Token) /\ Len(G) = Len(T)
  BY <1>1, GrownType
<1>3. R = Retold(T, tok, e, count + c)
  BY <1>1, GrownRetold
<1> HIDE DEF G
<1>4. R \in Seq(Token)
  BY <1>1, <1>2, RetoldType
<1>5. Append(G, t) = G \o one
  BY <1>2, Behead
<1>6. tok \in 0 .. Len(G)
  BY <1>2
<1> HIDE DEF one
<1>7. Retold(G \o one, tok, e, c) = R \o one
  BY <1>1, <1>2, <1>6, RetoldJoined
<1> HIDE DEF R
<1>8. (R \o one) \o q = R \o (one \o q)
  BY <1>1, <1>4
<1> QED
  BY <1>3, <1>5, <1>7, <1>8 DEF G, one, Equals

LEMMA Regrouped ==
  ASSUME NEW v \in Seq(Token), NEW w \in Seq(Token), NEW q \in Seq(Token)
  PROVE  (v \o w) \o q = v \o (w \o q)
OBVIOUS

LEMMA RetoldOver ==
  ASSUME NEW T \in Seq(Token), NEW Q \in Seq(Token), NEW tok \in 0 .. Len(T), NEW end \in Nat, NEW n \in Nat
  PROVE  Equals(Retold(T \o Q, tok, end, n), Retold(T, tok, end, n) \o Q)
BY RetoldJoined DEF Equals

LEMMA EnteredTokens ==
  ASSUME NEW T \in Seq(Token), NEW tok \in 0 .. Len(T), NEW t \in Token, NEW v \in Seq(Token),
         NEW e \in Nat, NEW c \in Nat, NEW q \in Seq(Token)
  PROVE  Equals(Retold(Append(Grown(T, tok, 1), t) \o v, tok, e, c) \o q,
                    Retold(T, tok, e, 1 + c) \o ((<< t >> \o v) \o q))
<1> DEFINE G == Grown(T, tok, 1)
           R == Retold(G, tok, e, c)
           w == << t >> \o v
<1>1. tok \in Nat
  OBVIOUS
<1>2. G \in Seq(Token) /\ Len(G) = Len(T)
  BY <1>1, GrownType
<1>3. R = Retold(T, tok, e, 1 + c)
  BY <1>1, GrownRetold
<1> HIDE DEF G
<1>4. R \in Seq(Token)
  BY <1>1, <1>2, RetoldType
<1>5. Append(G, t) \o v = G \o w
  BY <1>2, Behead
<1>w. w \in Seq(Token)
  OBVIOUS
<1>6. tok \in 0 .. Len(G)
  BY <1>2
<1> HIDE DEF w
<1>g. G \in Seq(Token)
  BY <1>2
<1> HIDE DEF R
<1>7. Equals(Retold(G \o w, tok, e, c), Retold(G, tok, e, c) \o w)
  BY <1>g, <1>w, <1>6, RetoldOver
<1>8. (R \o w) \o q = R \o (w \o q)
  BY <1>4, <1>w, Regrouped
<1> QED
  BY <1>3, <1>5, <1>7, <1>8 DEF G, R, w, Equals

LEMMA Deepest ==
  ASSUME NEW d \in Nat, NEW k \in Nat, NEW m \in Nat, NEW n \in Nat
  PROVE  /\ Larger(d, k + Larger(1 + m, n)) = Larger(Larger(d, (k + 1) + m), k + n)
         /\ Larger(0, n) = n
  BY DEF Larger

LEMMA Finished ==
  ASSUME NEW u, NEW k, NEW f, NEW at, at # 0, NEW T, NEW d, NEW r, r = Rest(f.st, u, at)
  PROVE  /\ r.end = 0 => Finish(u, k, f, ConfigOf(at, T, d)) = Lost
         /\ r.end # 0 => Finish(u, k, f, ConfigOf(at, T, d))
                           = ConfigOf(r.end, Retold(T, f.tok, r.end, r.count) \o r.tokens, Larger(d, k + r.depth))
<1>1. ConfigOf(at, T, d).at = at /\ ConfigOf(at, T, d).tokens = T /\ ConfigOf(at, T, d).depth = d
  BY DEF ConfigOf
<1> QED
  BY <1>1 DEF Finish

FinishesAs(Y, r, T, tok, d, k) ==
  /\ r.end = 0 => Y = Lost
  /\ r.end # 0 => Y = ConfigOf(r.end, Retold(T, tok, r.end, r.count) \o r.tokens, Larger(d, k + r.depth))

LEMMA FinishedIn ==
  ASSUME NEW u, NEW k, NEW p, NEW tok, NEW at, at # 0, NEW T, NEW d, NEW r, r = Rest(p, u, at)
  PROVE  FinishesAs(Finish(u, k, [st |-> p, tok |-> tok], ConfigOf(at, T, d)), r, T, tok, d, k)
<1> DEFINE f == [st |-> p, tok |-> tok]
<1>1. f.st = p /\ f.tok = tok
  OBVIOUS
<1> HIDE DEF f
<1>2. /\ r.end = 0 => Finish(u, k, f, ConfigOf(at, T, d)) = Lost
      /\ r.end # 0 => Finish(u, k, f, ConfigOf(at, T, d))
                        = ConfigOf(r.end, Retold(T, f.tok, r.end, r.count) \o r.tokens, Larger(d, k + r.depth))
  BY <1>1, Finished
<1> QED
  BY <1>1, <1>2 DEF f, FinishesAs

(* A stretch by its parts.                                                 *)
LEMMA Parts ==
  ASSUME NEW r \in Stretch
  PROVE  \E e \in Nat, q \in Seq(Token), c \in Nat, m \in Nat :
            r.end = e /\ r.tokens = q /\ r.count = c /\ r.depth = m
  BY DEF Stretch

LEMMA Took ==
  ASSUME NEW u \in Seq(STRING), NEW k \in Nat, NEW f \in OpenFrame, NEW i \in Positions,
         NEW T \in Seq(Token), NEW d \in Nat, f.tok <= Len(T),
         NEW p \in TextPlaces, NEW j \in Positions, NEW t \in Token, NEW count \in Nat,
         Rest(f.st, u, i) = Followed(ItemOf(j, t, count), Rest(p, u, j))
  PROVE  Finish(u, k, f, ConfigOf(i, T, d))
           = Finish(u, k, [st |-> p, tok |-> f.tok], ConfigOf(j, Append(Grown(T, f.tok, count), t), d))
<1> DEFINE r == Rest(p, u, j)
           a == Rest(f.st, u, i)
           tok == f.tok
           L == Append(Grown(T, tok, count), t)
<1>1. i # 0 /\ j # 0 /\ tok \in Nat /\ tok \in 0 .. Len(T)
  BY DEF Positions, OpenFrame
<1>2. r \in Stretch
  BY RestType DEF Behind
<1>3. PICK e \in Nat, q \in Seq(Token), c \in Nat, m \in Nat :
         r.end = e /\ r.tokens = q /\ r.count = c /\ r.depth = m
  BY <1>2, Parts
<1>4. /\ e = 0 => a.end = 0
      /\ e # 0 => /\ a.end = e /\ a.tokens = << t >> \o q
                  /\ a.count = count + c /\ a.depth = Larger(0, m)
  BY <1>1, <1>3 DEF Followed, ItemOf, Unreadable
<1>5. /\ a.end = 0 => Finish(u, k, f, ConfigOf(i, T, d)) = Lost
      /\ a.end # 0 => Finish(u, k, f, ConfigOf(i, T, d))
           = ConfigOf(a.end, Retold(T, tok, a.end, a.count) \o a.tokens, Larger(d, k + a.depth))
  BY <1>1, Finished
<1>6. /\ r.end = 0 => Finish(u, k, [st |-> p, tok |-> tok], ConfigOf(j, L, d)) = Lost
      /\ r.end # 0 => Finish(u, k, [st |-> p, tok |-> tok], ConfigOf(j, L, d))
           = ConfigOf(r.end, Retold(L, tok, r.end, r.count) \o r.tokens, Larger(d, k + r.depth))
  <2> HIDE DEF L
  <2> QED
    BY <1>1, FinishedIn DEF FinishesAs
<1> HIDE DEF r, a, tok
<1>7. Larger(0, m) = m
  BY Deepest
<1>8. Equals(Retold(L, tok, e, c) \o q, Retold(T, tok, e, count + c) \o (<< t >> \o q))
  BY <1>1, TookTokens
<1> HIDE DEF L
<1>9. Finish(u, k, f, ConfigOf(i, T, d)) = Finish(u, k, [st |-> p, tok |-> tok], ConfigOf(j, L, d))
  BY <1>3, <1>4, <1>5, <1>6, <1>7, <1>8 DEF Equals
<1> QED
  BY <1>9 DEF L, tok

(* A container: its frame, and the one around it.                          *)
LEMMA Entered ==
  ASSUME NEW u \in Seq(STRING), NEW k \in Nat, NEW f \in OpenFrame, NEW i \in Positions,
         NEW T \in Seq(Token), NEW d \in Nat, f.tok <= Len(T),
         NEW p \in TextPlaces, NEW first \in TextPlaces, NEW type \in Types,
         LET item == ContainerOf(type, i, Rest(first, u, i + 1))
         IN Rest(f.st, u, i) = IF item.end = 0 THEN Unreadable ELSE Followed(item, Rest(p, u, item.end))
  PROVE  Finish(u, k, f, ConfigOf(i, T, d))
           = Finish(u, k, [st |-> p, tok |-> f.tok],
               Finish(u, k + 1, [st |-> first, tok |-> Len(T) + 1],
                 ConfigOf(i + 1, Append(Grown(T, f.tok, 1), TokenOf(type, i, -1, 0)), d)))
<1> DEFINE inside == Rest(first, u, i + 1)
           item == ContainerOf(type, i, inside)
           a == Rest(f.st, u, i)
           r == Rest(p, u, inside.end)
           tok == f.tok
           n == Len(T) + 1
           G == Grown(T, tok, 1)
           o == TokenOf(type, i, -1, 0)
           L == Append(G, o)
           g == [st |-> p, tok |-> tok]
           Y == Finish(u, k + 1, [st |-> first, tok |-> n], ConfigOf(i + 1, L, d))
<1>1. i # 0 /\ i + 1 # 0 /\ i + 1 \in Positions /\ i \in Nat /\ tok \in Nat /\ tok \in 0 .. Len(T)
  BY DEF Positions, OpenFrame
<1>2. inside \in Stretch
  BY <1>1, RestType DEF Behind
<1>3. PICK ie \in Nat, iq \in Seq(Token), ic \in Nat, im \in Nat :
         inside.end = ie /\ inside.tokens = iq /\ inside.count = ic /\ inside.depth = im
  BY <1>2, Parts
<1> DEFINE t == TokenOf(type, i, ie, ic)
           M == Append(G, t) \o iq
           deep == Larger(d, (k + 1) + im)
<1>4. a = IF item.end = 0 THEN Unreadable ELSE Followed(item, Rest(p, u, item.end))
  OBVIOUS
<1>5. Lost.at = 0 /\ \A level, ff : Finish(u, level, ff, Lost) = Lost
  BY LostType DEF Finish
<1>6. /\ a.end = 0 => Finish(u, k, f, ConfigOf(i, T, d)) = Lost
      /\ a.end # 0 => Finish(u, k, f, ConfigOf(i, T, d))
           = ConfigOf(a.end, Retold(T, tok, a.end, a.count) \o a.tokens, Larger(d, k + a.depth))
  BY <1>1, Finished
<1>7. /\ inside.end = 0 => Y = Lost
      /\ ie # 0 => Y = ConfigOf(ie, Retold(L, n, ie, ic) \o iq, deep)
  <2>1. /\ inside.end = 0 => Y = Lost
        /\ inside.end # 0 => Y = ConfigOf(inside.end, Retold(L, n, inside.end, inside.count) \o inside.tokens,
                                          Larger(d, (k + 1) + inside.depth))
    <3> HIDE DEF L, n
    <3>1. FinishesAs(Y, inside, L, n, d, k + 1)
      BY <1>1, FinishedIn
    <3> HIDE DEF Y, inside
    <3> QED
      BY <3>1 DEF FinishesAs
  <2> QED
    BY <1>3, <2>1
<1> HIDE DEF inside, a, tok
<1>8. CASE inside.end = 0
  <2>1. item.end = 0
    BY <1>8 DEF ContainerOf, Unreadable
  <2>2. a.end = 0
    BY <1>4, <2>1 DEF Unreadable
  <2>3. Finish(u, k, g, Y) = Lost
    <3> HIDE DEF g, Y
    <3> QED
      BY <1>5, <1>7, <1>8
  <2> QED
    BY <1>6, <2>2, <2>3 DEF tok
<1>9. CASE ie # 0
  <2>1. item = [end |-> ie, tokens |-> << t >> \o iq, count |-> 1, depth |-> 1 + im]
    BY <1>3, <1>9 DEF ContainerOf
  <2>2. item.end = ie /\ item.tokens = << t >> \o iq /\ item.count = 1 /\ item.depth = 1 + im
    BY <2>1
  <2> HIDE DEF item
  <2>3. a = Followed(item, r)
    BY <1>3, <1>4, <1>9, <2>2
  <2>4. ie \in Positions
    BY <1>9 DEF Positions
  <2>5. r \in Stretch
    BY <1>3, <2>4, RestType DEF Behind
  <2>6. PICK e \in Nat, q \in Seq(Token), c \in Nat, m \in Nat :
           r.end = e /\ r.tokens = q /\ r.count = c /\ r.depth = m
    BY <2>5, Parts
  <2>7. G \in Seq(Token) /\ Len(G) = Len(T)
    BY <1>1, GrownType
  <2>8. o \in Token /\ t \in Token /\ o.type = type /\ o.start = i /\ o.size = 0
    BY <1>1 DEF TokenOf, Token
  <2> HIDE DEF G, o
  <2>g. G \in Seq(Token)
    BY <2>7
  <2>o. o \in Token
    BY <2>8
  <2>9. Equals(Retold(L, Len(G) + 1, ie, ic), Append(G, TokenOf(o.type, o.start, ie, o.size + ic)))
    BY <2>g, <2>o, RetoldLast
  <2>10. TokenOf(o.type, o.start, ie, o.size + ic) = t
    BY <2>8
  <2>11. Y = ConfigOf(ie, M, deep)
    BY <1>7, <1>9, <2>7, <2>9, <2>10 DEF Equals
  <2>12. /\ r.end = 0 => Finish(u, k, g, ConfigOf(ie, M, deep)) = Lost
         /\ r.end # 0 => Finish(u, k, g, ConfigOf(ie, M, deep))
              = ConfigOf(r.end, Retold(M, tok, r.end, r.count) \o r.tokens, Larger(deep, k + r.depth))
    <3>1. r = Rest(p, u, ie)
      BY <1>3
    <3> HIDE DEF M, deep, r
    <3> QED
      BY <1>9, <3>1, FinishedIn DEF FinishesAs
  <2> HIDE DEF r, Y
  <2>13. /\ e = 0 => a.end = 0
         /\ e # 0 => /\ a.end = e /\ a.tokens = (<< t >> \o iq) \o q
                     /\ a.count = 1 + c /\ a.depth = Larger(1 + im, m)
    <3> DEFINE one == << t >> \o iq
    <3>1. item.end = ie /\ item.tokens = one /\ item.count = 1 /\ item.depth = 1 + im
      BY <2>2
    <3> HIDE DEF one
    <3>2. Followed(item, r) = IF e = 0 THEN Unreadable
            ELSE [end |-> e, tokens |-> one \o q, count |-> 1 + c, depth |-> Larger(1 + im, m)]
      BY <1>9, <2>6, <3>1 DEF Followed
    <3> DEFINE both == one \o q  sum == 1 + c  larger == Larger(1 + im, m)
    <3> HIDE DEF both, sum, larger
    <3>3. a = IF e = 0 THEN Unreadable ELSE [end |-> e, tokens |-> both, count |-> sum, depth |-> larger]
      BY <2>3, <3>2 DEF both, sum, larger
    <3>4. Unreadable.end = 0
      BY DEF Unreadable
    <3>5. /\ e = 0 => a.end = 0
          /\ e # 0 => a.end = e /\ a.tokens = both /\ a.count = sum /\ a.depth = larger
      BY <3>3, <3>4
    <3> QED
      BY <3>5 DEF both, sum, larger, one
  <2>t. t \in Token
    BY <2>8
  <2> HIDE DEF t
  <2>14. Equals(Retold(M, tok, e, c) \o q, Retold(T, tok, e, 1 + c) \o ((<< t >> \o iq) \o q))
    BY <1>1, <2>t, EnteredTokens DEF G
  <2>15. Larger(d, k + Larger(1 + im, m)) = Larger(deep, k + m)
    BY Deepest
  <2> HIDE DEF M, deep, g
  <2>16. Finish(u, k, f, ConfigOf(i, T, d)) = Finish(u, k, g, Y)
    BY <1>6, <2>6, <2>11, <2>12, <2>13, <2>14, <2>15 DEF Equals
  <2> QED
    BY <2>16 DEF g, Y, L, G, o, tok, n
<1> QED
  BY <1>3, <1>8, <1>9

LEMMA FromTheStart ==
  ASSUME NEW u \in Seq(STRING)
  PROVE  Completes(u, << Root >>, ConfigOf(1, << >>, 0), Whole(u))
<1> DEFINE r == ReadingOf(u)
           X == ConfigOf(1, << >>, 0)
<1>1. r = Rest(TopLevel, u, 1)
  BY DEF ReadingOf, Rest
<1>2. Root.st = TopLevel /\ Root.tok = 0 /\ Root \in OpenFrame /\ TopLevel \in TextPlaces /\ 1 \in Positions
  BY DEF Root, OpenFrame, TextPlaces, Positions
<1>3. Behind(r, 1)
  BY <1>1, <1>2, RestType
<1>4. r.end \in Nat /\ r.tokens \in Seq(Token) /\ r.count \in Nat /\ r.depth \in Nat
  BY <1>3 DEF Behind, Stretch
<1>5. << >> \in Seq(Token) /\ << >> \in Seq(OpenFrame) /\ Len(<< >>) = 0 /\ Append(<< >>, Root) = << Root >>
  OBVIOUS
<1> DEFINE none == << >>
<1> HIDE DEF none, r
<1>6. ConfigOf(1, none, 0) \in Config
  BY <1>5, ConfigType DEF none
<1>7. Retold(none, 0, r.end, r.count) = << >>
  <2>1. none \in Seq(Token)
    BY <1>5 DEF none
  <2>n. Len(none) = 0
    BY <1>5 DEF none
  <2>3. PICK e \in Nat, c \in Nat : r.end = e /\ r.count = c
    BY <1>4
  <2>4. Retold(none, 0, e, c) \in Seq(Token) /\ Len(Retold(none, 0, e, c)) = Len(none)
    BY <2>1, RetoldType
  <2>2. Retold(none, 0, r.end, r.count) \in Seq(Token) /\ Len(Retold(none, 0, r.end, r.count)) = 0
    BY <2>3, <2>4, <2>n
  <2> QED
    BY <2>2
<1>8. << >> \o r.tokens = r.tokens
  BY <1>4, NothingBehind
<1>9. Larger(0, 0 + r.depth) = r.depth
  BY <1>4 DEF Larger
<1>10. Finish(u, 0, Root, ConfigOf(1, none, 0)) = Whole(u)
  <2>1. /\ r.end = 0 => Finish(u, 0, Root, ConfigOf(1, none, 0)) = Lost
        /\ r.end # 0 => Finish(u, 0, Root, ConfigOf(1, none, 0))
            = ConfigOf(r.end, Retold(none, Root.tok, r.end, r.count) \o r.tokens, Larger(0, 0 + r.depth))
    BY <1>1, <1>2, Finished
  <2>2. Whole(u) = IF r.end = 0 THEN Lost ELSE ConfigOf(r.end, r.tokens, r.depth)
    BY DEF Whole, r
  <2> QED
    BY <2>1, <2>2, <1>2, <1>7, <1>8, <1>9
<1>x. X = ConfigOf(1, none, 0)
  BY DEF none
<1> HIDE DEF X
<1>11. Whole(u) \in Config
  BY <1>4, LostType, ConfigType DEF Whole, r
<1>12. Completes(u, << >>, Finish(u, 0, Root, X), Whole(u))
  BY <1>10, <1>11, <1>x, ChainEnd
<1>13. Completes(u, Append(<< >>, Root), X, Whole(u))
  <2>1. X \in Config
    BY <1>6, <1>x
  <2>2. << >> \in Seq(OpenFrame) /\ Root \in OpenFrame
    BY <1>2
  <2>3. Completes(u, Append(<< >>, Root), X, Whole(u)) <=> Completes(u, << >>, Finish(u, Len(<< >>), Root, X), Whole(u))
    BY <2>1, <2>2, ChainTop
  <2> QED
    BY <1>5, <1>12, <2>3
<1> QED
  BY <1>5, <1>13 DEF X

-----------------------------------------------------------------------------
(* Strings: the tokenizer's scan against the grammar's.                    *)

LEMMA Least ==
  ASSUME NEW T \in SUBSET Nat, NEW m \in T, \A k \in T : m <= k
  PROVE  (CHOOSE i \in T : \A j \in T : i <= j) = m
<1> DEFINE c == CHOOSE i \in T : \A j \in T : i <= j
<1>1. c \in T /\ \A j \in T : c <= j
  OBVIOUS
<1> HIDE DEF c
<1>2. c = m
  BY <1>1
<1> QED
  BY <1>2 DEF c

LEMMA EscapedFirst ==
  ASSUME NEW s, NEW from \in Positions
  PROVE  ~IsEscaped(s, from, from)
<1> DEFINE run == {k \in from .. from - 1 : \A j \in k .. from - 1 : s[j] = Backslash}
<1>1. run = {}
  BY DEF Positions
<1>2. Cardinality(run) = 0
  BY <1>1, FS_EmptySet
<1> QED
  BY <1>2 DEF IsEscaped

(* A backslash that is not escaped itself escapes what follows it.         *)
LEMMA EscapedNext ==
  ASSUME NEW s, NEW from \in Positions, NEW i \in Nat, from <= i
  PROVE  IsEscaped(s, from, i + 1) <=> s[i] = Backslash /\ ~IsEscaped(s, from, i)
<1> DEFINE Run(n) == {k \in from .. n - 1 : \A j \in k .. n - 1 : s[j] = Backslash}
<1>1. from \in Nat /\ i + 1 - 1 = i
  BY DEF Positions
<1>2. IsFiniteSet(Run(i))
  <2>1. IsFiniteSet(from .. i - 1)
    BY <1>1, FS_Interval
  <2>2. Run(i) \subseteq from .. i - 1
    OBVIOUS
  <2> QED
    BY <2>1, <2>2, FS_Subset
<1>3. Cardinality(Run(i)) \in Nat
  BY <1>2, FS_CardinalityType
<1>4. i \notin Run(i)
  BY <1>1
<1>5. CASE s[i] = Backslash
  <2>1. Run(i + 1) = Run(i) \cup {i}
    BY <1>1, <1>5
  <2>2. Cardinality(Run(i + 1)) = Cardinality(Run(i)) + 1
    BY <1>2, <1>4, <2>1, FS_AddElement
  <2>3. IsEscaped(s, from, i + 1) <=> (Cardinality(Run(i)) + 1) % 2 = 1
    BY <2>2 DEF IsEscaped
  <2>4. IsEscaped(s, from, i) <=> Cardinality(Run(i)) % 2 = 1
    BY DEF IsEscaped
  <2> DEFINE c == Cardinality(Run(i))
  <2>5. c \in Nat
    BY <1>3
  <2> HIDE DEF c
  <2>6. (c + 1) % 2 = 1 <=> ~(c % 2 = 1)
    BY <2>5
  <2> QED
    BY <2>3, <2>4, <2>6, <1>5 DEF c
<1>6. CASE s[i] # Backslash
  <2>1. Run(i + 1) = {}
    BY <1>1, <1>6
  <2>2. Cardinality(Run(i + 1)) = 0
    BY <2>1, FS_EmptySet
  <2>3. ~IsEscaped(s, from, i + 1)
    BY <2>2 DEF IsEscaped
  <2> QED
    BY <1>6, <2>3
<1> QED
  BY <1>5, <1>6

LEMMA UnicodeEscapeIs ==
  ASSUME NEW s \in Seq(STRING), NEW i \in Positions
  PROVE  \/ /\ UnicodeEscape(s, i) = i + 5 /\ i + 4 <= Len(s)
            /\ \A k \in i + 1 .. i + 4 : s[k] \in Hex
         \/ /\ UnicodeEscape(s, i) = INVAL
            /\ \E k \in i + 1 .. i + 4 : k <= Len(s) /\ s[k] \notin Hex
         \/ UnicodeEscape(s, i) = PART /\ i + 4 > Len(s)
<1> DEFINE wrong == {k \in 1..4 : i + k > Len(s) \/ s[i + k] \notin Hex}
           first == CHOOSE k \in wrong : \A j \in wrong : k <= j
<1>1. i \in Nat /\ Len(s) \in Nat
  BY DEF Positions
<1>2. UnicodeEscape(s, i) = IF wrong = {} THEN i + 5 ELSE IF i + first > Len(s) THEN PART ELSE INVAL
  BY DEF UnicodeEscape
<1>3. CASE wrong = {}
  <2>1. ASSUME NEW k \in i + 1 .. i + 4 PROVE k <= Len(s) /\ s[k] \in Hex
    <3>1. k - i \in 1 .. 4 /\ i + (k - i) = k
      BY <1>1
    <3>2. k - i \notin wrong
      BY <1>3
    <3>3. ~(i + (k - i) > Len(s) \/ s[i + (k - i)] \notin Hex)
      BY <3>1, <3>2
    <3> QED
      BY <1>1, <3>1, <3>3
  <2>2. i + 4 <= Len(s)
    BY <1>1, <2>1
  <2>4. UnicodeEscape(s, i) = i + 5
    BY <1>2, <1>3
  <2> QED
    BY <2>1, <2>2, <2>4
<1>4. CASE wrong # {}
  <2>0. wrong \in SUBSET Nat
    OBVIOUS
  <2>1. first \in wrong
    <3> HIDE DEF wrong
    <3> QED
      BY <1>4, <2>0, Chosen
  <2> HIDE DEF first
  <2>2. first \in 1 .. 4 /\ (i + first > Len(s) \/ s[i + first] \notin Hex)
    BY <2>1
  <2> HIDE DEF wrong
  <2>3. CASE i + first > Len(s)
    <3>1. UnicodeEscape(s, i) = PART
      BY <1>2, <1>4, <2>3
    <3>2. i + 4 > Len(s)
      BY <1>1, <2>2, <2>3
    <3> QED
      BY <3>1, <3>2
  <2>4. CASE ~(i + first > Len(s))
    <3>1. UnicodeEscape(s, i) = INVAL
      BY <1>2, <1>4, <2>4
    <3>2. i + first \in i + 1 .. i + 4 /\ i + first <= Len(s) /\ s[i + first] \notin Hex
      BY <1>1, <2>2, <2>4
    <3> QED
      BY <3>1, <3>2
  <2> QED
    BY <2>3, <2>4
<1> QED
  BY <1>3, <1>4

(* An escape that is whole, wrong, or cut.                                 *)
Whole1(s, i) == i < Len(s) /\ s[i + 1] \in Simple
Whole5(s, i) == /\ i + 5 <= Len(s) /\ s[i + 1] = "u" /\ s[i + 1] \notin Simple
                /\ \A k \in i + 2 .. i + 5 : s[k] \in Hex
WrongEscape(s, i) ==
  /\ i < Len(s) /\ s[i + 1] \notin Simple
  /\ s[i + 1] # "u" \/ \E k \in i + 2 .. i + 5 : k <= Len(s) /\ s[k] \notin Hex
CutEscape(s, i) == i = Len(s) \/ (i < Len(s) /\ s[i + 1] \notin Simple /\ i + 5 > Len(s))

LEMMA EscapeIs ==
  ASSUME NEW s \in Seq(STRING), NEW i \in Positions, i <= Len(s)
  PROVE  \/ EscapeEnd(s, i) = i + 2 /\ Whole1(s, i)
         \/ EscapeEnd(s, i) = i + 6 /\ Whole5(s, i)
         \/ EscapeEnd(s, i) = INVAL /\ WrongEscape(s, i)
         \/ EscapeEnd(s, i) = PART /\ CutEscape(s, i)
<1>1. i \in Nat /\ Len(s) \in Nat /\ i + 1 \in Positions
  BY DEF Positions
<1>2. CASE i = Len(s)
  BY <1>1, <1>2 DEF EscapeEnd, CutEscape
<1>3. CASE i < Len(s) /\ s[i + 1] \in Simple
  BY <1>1, <1>3 DEF EscapeEnd, Whole1
<1>4. CASE i < Len(s) /\ s[i + 1] \notin Simple /\ s[i + 1] # "u"
  BY <1>1, <1>4 DEF EscapeEnd, WrongEscape
<1>5. CASE i < Len(s) /\ s[i + 1] \notin Simple /\ s[i + 1] = "u"
  <2> DEFINE e == UnicodeEscape(s, i + 1)
  <2>1. EscapeEnd(s, i) = e
    BY <1>1, <1>5 DEF EscapeEnd
  <2>2. \/ /\ e = (i + 1) + 5 /\ (i + 1) + 4 <= Len(s)
           /\ \A k \in (i + 1) + 1 .. (i + 1) + 4 : s[k] \in Hex
        \/ e = INVAL /\ \E k \in (i + 1) + 1 .. (i + 1) + 4 : k <= Len(s) /\ s[k] \notin Hex
        \/ e = PART /\ (i + 1) + 4 > Len(s)
    BY <1>1, UnicodeEscapeIs
  <2> HIDE DEF e
  <2>3. (i + 1) + 5 = i + 6 /\ (i + 1) + 4 = i + 5 /\ (i + 1) + 1 = i + 2
    BY <1>1
  <2>4. CASE e = i + 6 /\ i + 5 <= Len(s) /\ \A k \in i + 2 .. i + 5 : s[k] \in Hex
    BY <1>5, <2>1, <2>4 DEF Whole5
  <2>5. CASE e = INVAL /\ \E k \in i + 2 .. i + 5 : k <= Len(s) /\ s[k] \notin Hex
    BY <1>5, <2>1, <2>5 DEF WrongEscape
  <2>6. CASE e = PART /\ i + 5 > Len(s)
    BY <1>5, <2>1, <2>6 DEF CutEscape
  <2> QED
    BY <2>2, <2>3, <2>4, <2>5, <2>6
<1> QED
  BY <1>1, <1>2, <1>3, <1>4, <1>5

-----------------------------------------------------------------------------
(* s is the beginning of u.                                                *)
Begins(s, u) == Len(s) <= Len(u) /\ \A k \in 1 .. Len(s) : s[k] = u[k]

StopsAt(s, i) == s[i] \in {Quote, Control, Newline} \/ (s[i] = Backslash /\ EscapeEnd(s, i) < 0)

(* Where a character stands that belongs to no escape, and the string has  *)
(* not ended before.                                                       *)
Unit(s, from, i) ==
  /\ i \in from .. Len(s) + 1
  /\ ~IsEscaped(s, from, i)
  /\ \A j \in from .. i - 1 : StopsAt(s, j) => IsEscaped(s, from, j)

LEMMA StopFound ==
  ASSUME NEW s \in Seq(STRING), NEW from \in Positions, NEW i, Unit(s, from, i), i <= Len(s), StopsAt(s, i)
  PROVE  StringEnd(s, from) = IF s[i] = Quote THEN i
                              ELSE IF s[i] = Backslash THEN EscapeEnd(s, i)
                              ELSE INVAL
<1> DEFINE Stops(j) == \/ s[j] \in {Quote, Control, Newline}
                       \/ s[j] = Backslash /\ EscapeEnd(s, j) < 0
           stops == {j \in from .. Len(s) : Stops(j) /\ ~IsEscaped(s, from, j)}
           first == CHOOSE j \in stops : \A k \in stops : j <= k
<1>1. StringEnd(s, from) =
        IF stops = {} THEN PART
        ELSE IF s[first] = Quote THEN first
        ELSE IF s[first] = Backslash THEN EscapeEnd(s, first)
        ELSE INVAL
  BY DEF StringEnd
<1>2. from \in Nat /\ Len(s) \in Nat /\ i \in from .. Len(s) /\ stops \in SUBSET Nat
  BY DEF Unit, Positions
<1>3. i \in stops
  BY <1>2 DEF Unit, StopsAt
<1>4. \A k \in stops : i <= k
  <2> SUFFICES ASSUME NEW k \in stops, k < i PROVE FALSE
    BY <1>2
  <2>1. k \in from .. i - 1 /\ StopsAt(s, k) /\ ~IsEscaped(s, from, k)
    BY <1>2 DEF StopsAt
  <2> QED
    BY <2>1 DEF Unit
<1>5. first = i
  <2> HIDE DEF stops
  <2> QED
    BY <1>2, <1>3, <1>4, Least
<1> HIDE DEF first, stops
<1> QED
  BY <1>1, <1>3, <1>5

LEMMA NoStop ==
  ASSUME NEW s \in Seq(STRING), NEW from \in Positions, Unit(s, from, Len(s) + 1)
  PROVE  StringEnd(s, from) = PART
<1> DEFINE stops == {j \in from .. Len(s) : (\/ s[j] \in {Quote, Control, Newline}
                                             \/ s[j] = Backslash /\ EscapeEnd(s, j) < 0)
                                            /\ ~IsEscaped(s, from, j)}
<1>1. stops = {}
  <2> SUFFICES ASSUME NEW j \in stops PROVE FALSE
    OBVIOUS
  <2>1. Len(s) \in Nat /\ from \in Nat /\ j \in from .. (Len(s) + 1) - 1
    BY DEF Positions
  <2>2. StopsAt(s, j) /\ ~IsEscaped(s, from, j)
    BY DEF StopsAt
  <2> QED
    BY <2>1, <2>2 DEF Unit
<1> QED
  BY <1>1 DEF StringEnd

(* From one such place to the next.                                        *)
LEMMA UnitNext ==
  ASSUME NEW s \in Seq(STRING), NEW from \in Positions, NEW i, Unit(s, from, i), i <= Len(s), ~StopsAt(s, i)
  PROVE  \/ s[i] # Backslash /\ Unit(s, from, i + 1)
         \/ s[i] = Backslash /\ Whole1(s, i) /\ Unit(s, from, i + 2)
         \/ s[i] = Backslash /\ Whole5(s, i) /\ Unit(s, from, i + 6)
<1>1. from \in Nat /\ Len(s) \in Nat /\ i \in from .. Len(s) /\ i \in Nat /\ i \in Positions /\ from <= i
  BY DEF Unit, Positions
<1>2. ~IsEscaped(s, from, i) /\ \A j \in from .. i - 1 : StopsAt(s, j) => IsEscaped(s, from, j)
  BY DEF Unit
<1>3. CASE s[i] # Backslash
  <2>1. ~IsEscaped(s, from, i + 1)
    BY <1>1, <1>3, EscapedNext
  <2>2. \A j \in from .. (i + 1) - 1 : StopsAt(s, j) => IsEscaped(s, from, j)
    BY <1>1, <1>2
  <2>3. i + 1 \in from .. Len(s) + 1
    BY <1>1
  <2> QED
    BY <1>3, <2>1, <2>2, <2>3 DEF Unit
<1>4. CASE s[i] = Backslash
  <2>0. EscapeEnd(s, i) >= 0
    <3>1. ~(EscapeEnd(s, i) < 0)
      BY <1>4 DEF StopsAt
    <3>2. EscapeEnd(s, i) \in ScanErrors \cup Nat
      BY <1>1, EscapeEnds
    <3>3. EscapeEnd(s, i) \in Int
      BY <3>2 DEF ScanErrors, PART, INVAL
    <3> QED
      BY <3>1, <3>3
  <2>1. (EscapeEnd(s, i) = i + 2 /\ Whole1(s, i)) \/ (EscapeEnd(s, i) = i + 6 /\ Whole5(s, i))
    <3>1. ~(INVAL >= 0) /\ ~(PART >= 0)
      BY DEF INVAL, PART
    <3>2. \/ EscapeEnd(s, i) = i + 2 /\ Whole1(s, i)
          \/ EscapeEnd(s, i) = i + 6 /\ Whole5(s, i)
          \/ EscapeEnd(s, i) = INVAL
          \/ EscapeEnd(s, i) = PART
      BY <1>1, EscapeIs
    <3> QED
      BY <2>0, <3>1, <3>2
  <2>2. i + 1 \in Nat /\ from <= i + 1 /\ i + 5 \in Nat /\ from <= i + 5 /\ (i + 1) + 1 = i + 2 /\ (i + 5) + 1 = i + 6
    BY <1>1
  <2>3. IsEscaped(s, from, i + 1)
    BY <1>1, <1>2, <1>4, EscapedNext
  <2>4. ~IsEscaped(s, from, i + 2)
    <3>1. IsEscaped(s, from, (i + 1) + 1) <=> s[i + 1] = Backslash /\ ~IsEscaped(s, from, i + 1)
      BY <2>2, EscapedNext
    <3> QED
      BY <2>2, <2>3, <3>1
  <2>5. CASE Whole1(s, i)
    <3>1. i + 2 \in from .. Len(s) + 1
      BY <1>1, <2>5 DEF Whole1
    <3>2. \A j \in from .. (i + 2) - 1 : StopsAt(s, j) => IsEscaped(s, from, j)
      <4> SUFFICES ASSUME NEW j \in from .. (i + 2) - 1, StopsAt(s, j) PROVE IsEscaped(s, from, j)
        OBVIOUS
      <4>1. j \in from .. i - 1 \/ j = i \/ j = i + 1
        BY <1>1
      <4> QED
        BY <1>2, <2>3, <4>1
    <3> QED
      BY <1>4, <2>4, <2>5, <3>1, <3>2 DEF Unit
  <2>6. CASE Whole5(s, i)
    <3>1. i + 6 \in from .. Len(s) + 1 /\ \A k \in i + 2 .. i + 5 : s[k] \in Hex
      BY <1>1, <2>6 DEF Whole5
    <3>2. \A k \in i + 2 .. i + 5 : s[k] # Backslash /\ s[k] \notin {Quote, Control, Newline}
      BY <3>1 DEF Hex, Digits, Backslash, Quote, Control, Newline
    <3>3. i + 5 \in i + 2 .. i + 5
      BY <1>1
    <3>4. ~IsEscaped(s, from, i + 6)
      <4>1. IsEscaped(s, from, (i + 5) + 1) <=> s[i + 5] = Backslash /\ ~IsEscaped(s, from, i + 5)
        BY <2>2, EscapedNext
      <4> QED
        BY <2>2, <3>2, <3>3, <4>1
    <3>5. \A j \in from .. (i + 6) - 1 : StopsAt(s, j) => IsEscaped(s, from, j)
      <4> SUFFICES ASSUME NEW j \in from .. (i + 6) - 1, StopsAt(s, j) PROVE IsEscaped(s, from, j)
        OBVIOUS
      <4>1. j \in from .. i - 1 \/ j = i \/ j = i + 1 \/ j \in i + 2 .. i + 5
        BY <1>1
      <4>2. j \notin i + 2 .. i + 5
        BY <3>2 DEF StopsAt
      <4> QED
        BY <1>2, <2>3, <4>1, <4>2
    <3> QED
      BY <1>4, <2>6, <3>1, <3>4, <3>5 DEF Unit
  <2> QED
    BY <2>1, <2>5, <2>6
<1> QED
  BY <1>3, <1>4

(* What a scan of what is shown says of a text that begins with it: where  *)
(* something ends there, that it does not, or that it does not here.       *)
Agrees(s, u, end, close) ==
  /\ end >= 0 => close = end
  /\ end = INVAL => close = 0
  /\ end = PART /\ u = s => close = 0

LEMMA StringStop ==
  ASSUME NEW s \in Seq(STRING), NEW u \in Seq(STRING), Begins(s, u), NEW from \in Positions,
         NEW i, Unit(s, from, i), i <= Len(s), StopsAt(s, i), NEW g
  PROVE  Agrees(s, u, StringEnd(s, from), CloseStep(g, u, i))
<1>1. /\ from \in Nat /\ Len(s) \in Nat /\ Len(u) \in Nat /\ i \in from .. Len(s) /\ i \in Nat /\ i \in Positions
      /\ Len(s) <= Len(u)
  BY DEF Unit, Positions, Begins
<1>2. StringEnd(s, from) = IF s[i] = Quote THEN i ELSE IF s[i] = Backslash THEN EscapeEnd(s, i) ELSE INVAL
  BY StopFound
<1>3. i \in 1 .. Len(s)
  BY <1>1 DEF Positions
<1>4. u[i] = s[i]
  BY <1>3 DEF Begins
<1>5. Quote # Backslash /\ Quote # Control /\ Quote # Newline /\ Backslash # Control /\ Backslash # Newline
  BY DEF Quote, Backslash, Control, Newline
<1>6. INVAL < 0 /\ PART < 0 /\ INVAL # PART /\ INVAL \in Int /\ PART \in Int
  BY DEF INVAL, PART
<1>7. CASE s[i] = Quote
  <2>1. CloseStep(g, u, i) = i
    BY <1>1, <1>4, <1>5, <1>7 DEF CloseStep
  <2>2. StringEnd(s, from) = i /\ i >= 0 /\ i # INVAL /\ i # PART
    BY <1>1, <1>2, <1>6, <1>7
  <2> QED
    BY <2>1, <2>2 DEF Agrees
<1>8. CASE s[i] \in {Control, Newline}
  <2>1. CloseStep(g, u, i) = 0
    BY <1>1, <1>4, <1>8 DEF CloseStep
  <2>2. StringEnd(s, from) = INVAL
    BY <1>2, <1>5, <1>8
  <2> QED
    BY <1>6, <2>1, <2>2 DEF Agrees
<1>9. CASE s[i] = Backslash /\ EscapeEnd(s, i) < 0
  <2>1. StringEnd(s, from) = EscapeEnd(s, i)
    BY <1>2, <1>5, <1>9
  <2>2. \/ EscapeEnd(s, i) = INVAL /\ WrongEscape(s, i)
        \/ EscapeEnd(s, i) = PART /\ CutEscape(s, i)
    <3>1. \/ EscapeEnd(s, i) = i + 2
          \/ EscapeEnd(s, i) = i + 6
          \/ EscapeEnd(s, i) = INVAL /\ WrongEscape(s, i)
          \/ EscapeEnd(s, i) = PART /\ CutEscape(s, i)
      BY <1>1, EscapeIs
    <3>2. EscapeEnd(s, i) # i + 2 /\ EscapeEnd(s, i) # i + 6
      BY <1>1, <1>9
    <3> QED
      BY <3>1, <3>2
  <2>3. CloseStep(g, u, i) =
          IF i < Len(u) /\ u[i + 1] \in Simple THEN g[i + 2]
          ELSE IF /\ i + 5 <= Len(u) /\ u[i + 1] = "u"
                  /\ \A k \in i + 2 .. i + 5 : u[k] \in Hex
               THEN g[i + 6]
          ELSE 0
    BY <1>1, <1>4, <1>5, <1>9 DEF CloseStep
  <2>4. CASE EscapeEnd(s, i) = INVAL /\ WrongEscape(s, i)
    <3>1. i + 1 \in 1 .. Len(s)
      BY <1>1, <2>4 DEF WrongEscape
    <3>2. u[i + 1] = s[i + 1]
      BY <3>1 DEF Begins
    <3>3. s[i + 1] # "u" \/ \E k \in i + 2 .. i + 5 : u[k] \notin Hex
      <4> SUFFICES ASSUME s[i + 1] = "u" PROVE \E k \in i + 2 .. i + 5 : u[k] \notin Hex
        OBVIOUS
      <4>1. PICK k \in i + 2 .. i + 5 : k <= Len(s) /\ s[k] \notin Hex
        BY <2>4 DEF WrongEscape
      <4>2. k \in 1 .. Len(s)
        BY <1>1, <4>1
      <4> QED
        BY <4>1, <4>2 DEF Begins
    <3>4. CloseStep(g, u, i) = 0
      BY <2>3, <2>4, <3>2, <3>3 DEF WrongEscape
    <3> QED
      BY <1>6, <2>1, <2>4, <3>4 DEF Agrees
  <2>5. CASE EscapeEnd(s, i) = PART /\ CutEscape(s, i)
    <3>1. u = s => CloseStep(g, u, i) = 0
      BY <1>1, <2>3, <2>5 DEF CutEscape
    <3> QED
      BY <1>6, <2>1, <2>5, <3>1 DEF Agrees
  <2> QED
    BY <2>2, <2>4, <2>5
<1> QED
  BY <1>7, <1>8, <1>9 DEF StopsAt

LEMMA StringsAgree ==
  ASSUME NEW s \in Seq(STRING), NEW u \in Seq(STRING), Begins(s, u), NEW from \in Positions, from <= Len(s) + 1
  PROVE  Agrees(s, u, StringEnd(s, from), StringClose(u, from))
<1>1. PICK g : /\ g = [j \in Positions |-> CloseStep(g, u, j)]
               /\ \A j \in Positions : StringClose(u, j) = g[j]
  BY CloseEquation
<1>2. \A j \in Positions : g[j] = CloseStep(g, u, j)
  BY <1>1
<1>3. Len(s) \in Nat /\ Len(u) \in Nat /\ Len(s) <= Len(u) /\ from \in Nat
  BY DEF Begins, Positions
<1> DEFINE n == Len(s)
           Good(i) == Unit(s, from, i) => Agrees(s, u, StringEnd(s, from), g[i])
           T == {m \in 0 .. n : \A i \in Positions : i + m > n => Good(i)}
<1>4. 0 \in T
  <2> SUFFICES ASSUME NEW i \in Positions, i > Len(s), Unit(s, from, i) PROVE Agrees(s, u, StringEnd(s, from), g[i])
    BY <1>3 DEF Positions
  <2>1. i = Len(s) + 1
    BY <1>3 DEF Unit
  <2>2. StringEnd(s, from) = PART
    BY <2>1, NoStop
  <2>3. u = s => g[i] = 0
    <3>1. i > Len(s)
      BY <1>3, <2>1
    <3> QED
      BY <1>2, <3>1 DEF CloseStep
  <2> QED
    BY <2>2, <2>3 DEF Agrees, PART, INVAL
<1>5. ASSUME NEW m \in T, m < n PROVE m + 1 \in T
  <2>0. m \in 0 .. n /\ m + 1 \in 0 .. n /\ \A i \in Positions : i + m > n => Good(i)
    BY <1>3, <1>5
  <2> SUFFICES ASSUME NEW i \in Positions, i + (m + 1) > n, Unit(s, from, i) PROVE Agrees(s, u, StringEnd(s, from), g[i])
    BY <2>0
  <2>1. i \in Nat /\ i <= Len(s) + 1
    BY DEF Unit, Positions
  <2>2. CASE i = Len(s) + 1
    BY <2>0, <2>1, <2>2
  <2>3. CASE i <= Len(s) /\ StopsAt(s, i)
    BY <1>2, <2>3, StringStop
  <2>4. CASE i <= Len(s) /\ ~StopsAt(s, i)
    <3>1. \/ s[i] # Backslash /\ Unit(s, from, i + 1)
          \/ s[i] = Backslash /\ Whole1(s, i) /\ Unit(s, from, i + 2)
          \/ s[i] = Backslash /\ Whole5(s, i) /\ Unit(s, from, i + 6)
      BY <2>4, UnitNext
    <3>2. /\ i + 1 \in Positions /\ i + 1 + m > n
          /\ i + 2 \in Positions /\ i + 2 + m > n
          /\ i + 6 \in Positions /\ i + 6 + m > n
      BY <1>3, <2>0, <2>1 DEF Positions
    <3>3. Good(i + 1) /\ Good(i + 2) /\ Good(i + 6)
      BY <2>0, <3>2
    <3>4. i \in 1 .. Len(s) /\ i <= Len(u) /\ u[i] = s[i]
      BY <1>3, <2>1, <2>4 DEF Begins, Positions
    <3>5. s[i] \notin {Quote, Control, Newline}
      BY <2>4 DEF StopsAt
    <3>6. g[i] = CloseStep(g, u, i)
      BY <1>2
    <3>7. CASE s[i] # Backslash /\ Unit(s, from, i + 1)
      <4>1. g[i] = g[i + 1]
        BY <3>4, <3>5, <3>6, <3>7, <2>1, <1>3 DEF CloseStep
      <4> QED
        BY <3>3, <3>7, <4>1
    <3>8. CASE s[i] = Backslash /\ Whole1(s, i) /\ Unit(s, from, i + 2)
      <4>1. i + 1 \in 1 .. Len(s) /\ i < Len(u) /\ s[i + 1] \in Simple
        BY <1>3, <2>1, <3>8 DEF Whole1
      <4>2. u[i + 1] = s[i + 1]
        BY <4>1 DEF Begins
      <4>3. g[i] = g[i + 2]
        BY <3>4, <3>5, <3>6, <3>8, <4>1, <4>2, <2>1, <1>3 DEF CloseStep
      <4> QED
        BY <3>3, <3>8, <4>3
    <3>9. CASE s[i] = Backslash /\ Whole5(s, i) /\ Unit(s, from, i + 6)
      <4>1. /\ i + 1 \in 1 .. Len(s) /\ i + 5 <= Len(u) /\ s[i + 1] \notin Simple /\ s[i + 1] = "u"
            /\ \A k \in i + 2 .. i + 5 : k \in 1 .. Len(s) /\ s[k] \in Hex
        BY <1>3, <2>1, <3>9 DEF Whole5
      <4>2. u[i + 1] = s[i + 1] /\ \A k \in i + 2 .. i + 5 : u[k] \in Hex
        BY <4>1 DEF Begins
      <4>3. g[i] = g[i + 6]
        BY <3>4, <3>5, <3>6, <3>9, <4>1, <4>2, <2>1, <1>3 DEF CloseStep
      <4> QED
        BY <3>3, <3>9, <4>3
    <3> QED
      BY <3>1, <3>7, <3>8, <3>9
  <2> QED
    BY <1>3, <2>1, <2>2, <2>3, <2>4
<1>6. n \in T
  <2> HIDE DEF T
  <2>1. T \in SUBSET (0 .. n)
    BY DEF T
  <2> HIDE DEF n
  <2>2. n \in Nat
    BY <1>3 DEF n
  <2> QED
    BY <2>2, <1>4, <1>5, <2>1, UpTo
<1>7. Good(from)
  BY <1>3, <1>6 DEF Positions
<1>8. Unit(s, from, from)
  BY <1>3, EscapedFirst DEF Unit
<1> QED
  BY <1>1, <1>7, <1>8

-----------------------------------------------------------------------------
(* Primitives: one ends nowhere else, for what ends it is not in it.       *)

PrimitiveChars == Digits \cup {"-", "+", ".", "e", "E"}

LEMMA DelimitersAreNone ==
  ASSUME NEW c, IsDelim(c)
  PROVE  c \notin PrimitiveChars
  BY DEF IsDelim, PrimitiveChars, Digits, Spaces, Space, Newline

LEMMA PartIs ==
  ASSUME NEW u \in Seq(STRING), NEW i \in Positions, NEW j \in i + 1 .. Len(u) + 1
  PROVE  /\ Part(u, i, j) \in Seq(STRING) /\ Len(Part(u, i, j)) = j - i
         /\ \A k \in 1 .. j - i : Part(u, i, j)[k] = u[i + k - 1]
<1>1. i \in Nat /\ i >= 1 /\ Len(u) \in Nat /\ j - 1 \in i .. Len(u)
  BY DEF Positions
<1>2. (j - 1) - i + 1 = j - i
  BY <1>1
<1> QED
  BY <1>1, <1>2 DEF Part

LEMMA NumberChars ==
  ASSUME NEW u \in Seq(STRING), NEW i \in Positions, NEW j \in i + 1 .. Len(u) + 1, IsNumber(u, i, j)
  PROVE  /\ \A k \in i .. j - 1 : u[k] \in PrimitiveChars
         /\ u[i] \in Digits \cup {"-"}
<1>1. PICK a \in i + 1 .. j : /\ IsWhole(u, i, a)
                              /\ \E b \in a .. j : /\ a = b \/ IsFraction(u, a, b)
                                                   /\ b = j \/ IsExponent(u, b, j)
  BY DEF IsNumber
<1>2. PICK b \in a .. j : (a = b \/ IsFraction(u, a, b)) /\ (b = j \/ IsExponent(u, b, j))
  BY <1>1
<1>3. i \in Nat /\ Len(u) \in Nat /\ a \in Nat /\ b \in Nat /\ j \in Nat
  BY DEF Positions
<1>4. (\A k \in i .. a - 1 : u[k] \in PrimitiveChars) /\ u[i] \in Digits \cup {"-"}
  <2>1. CASE u[i] = "-"
    <3>1. \A k \in i + 1 .. a - 1 : u[k] \in Digits
      BY <1>1, <2>1 DEF IsWhole, AreDigits
    <3>2. \A k \in i .. a - 1 : k = i \/ k \in i + 1 .. a - 1
      BY <1>3
    <3> QED
      BY <2>1, <3>1, <3>2 DEF PrimitiveChars
  <2>2. CASE u[i] # "-"
    <3>1. i < a /\ \A k \in i .. a - 1 : u[k] \in Digits
      BY <1>1, <2>2 DEF IsWhole, AreDigits
    <3> QED
      BY <1>3, <3>1 DEF PrimitiveChars
  <2> QED
    BY <2>1, <2>2
<1>5. \A k \in a .. b - 1 : u[k] \in PrimitiveChars
  <2>1. CASE a = b
    BY <1>3, <2>1
  <2>2. CASE IsFraction(u, a, b)
    <3>1. u[a] = "." /\ \A k \in a + 1 .. b - 1 : u[k] \in Digits
      BY <2>2 DEF IsFraction, AreDigits
    <3>2. \A k \in a .. b - 1 : k = a \/ k \in a + 1 .. b - 1
      BY <1>3
    <3> QED
      BY <3>1, <3>2 DEF PrimitiveChars
  <2> QED
    BY <1>2, <2>1, <2>2
<1>6. \A k \in b .. j - 1 : u[k] \in PrimitiveChars
  <2>1. CASE b = j
    BY <1>3, <2>1
  <2>2. CASE IsExponent(u, b, j)
    <3>1. u[b] \in {"e", "E"} /\ \/ \A k \in b + 1 .. j - 1 : u[k] \in Digits
                                 \/ /\ u[b + 1] \in {"+", "-"}
                                    /\ \A k \in b + 2 .. j - 1 : u[k] \in Digits
      BY <2>2 DEF IsExponent, AreDigits
    <3>2. \A k \in b .. j - 1 : k = b \/ k = b + 1 \/ k \in b + 2 .. j - 1
      BY <1>3
    <3>3. \A k \in b .. j - 1 : k = b \/ k \in b + 1 .. j - 1
      BY <1>3
    <3> QED
      BY <3>1, <3>2, <3>3 DEF PrimitiveChars
  <2> QED
    BY <1>2, <2>1, <2>2
<1>7. \A k \in i .. j - 1 : k \in i .. a - 1 \/ k \in a .. b - 1 \/ k \in b .. j - 1
  BY <1>3
<1> QED
  BY <1>4, <1>5, <1>6, <1>7

LEMMA LiteralFirst ==
  ASSUME NEW u \in Seq(STRING), NEW i \in Positions, NEW j \in i + 1 .. Len(u) + 1, Part(u, i, j) \in Literals
  PROVE  /\ u[i] = Part(u, i, j)[1]
         /\ \A k \in i .. j - 1 : ~IsDelim(u[k])
<1> DEFINE w == Part(u, i, j)
<1>1. /\ w \in Seq(STRING) /\ Len(w) = j - i /\ i \in Nat /\ j \in Nat
      /\ \A k \in 1 .. j - i : w[k] = u[i + k - 1]
  BY PartIs DEF Positions
<1>2. \A k \in DOMAIN w : ~IsDelim(w[k])
  BY LiteralsAssumption
<1> HIDE DEF w
<1>3. w[1] = u[i]
  <2>1. 1 \in 1 .. j - i /\ i + 1 - 1 = i
    BY <1>1
  <2> QED
    BY <1>1, <2>1
<1>4. ASSUME NEW k \in i .. j - 1 PROVE ~IsDelim(u[k])
  <2>1. k - i + 1 \in 1 .. j - i /\ i + (k - i + 1) - 1 = k /\ k - i + 1 \in DOMAIN w
    BY <1>1
  <2>2. w[k - i + 1] = u[i + (k - i + 1) - 1]
    BY <1>1, <2>1
  <2>3. ~IsDelim(w[k - i + 1])
    BY <1>2, <2>1
  <2> QED
    BY <2>1, <2>2, <2>3
<1> QED
  BY <1>3, <1>4 DEF w

LEMMA PrimitiveChars1 ==
  ASSUME NEW u \in Seq(STRING), NEW i \in Positions, NEW j \in i + 1 .. Len(u) + 1, IsPrimitive(u, i, j)
  PROVE  /\ \A k \in i .. j - 1 : ~IsDelim(u[k])
         /\ j <= Len(u) => IsDelim(u[j])
         /\ u[i] \in Digits \cup {"-"} \/ \E lit \in Literals : u[i] = lit[1]
<1>1. CASE Part(u, i, j) \in Literals /\ (j <= Len(u) => IsDelim(u[j]))
  BY <1>1, LiteralFirst
<1>2. CASE j <= Len(u) /\ IsNumber(u, i, j) /\ IsDelim(u[j])
  BY <1>2, NumberChars, DelimitersAreNone
<1> QED
  BY <1>1, <1>2 DEF IsPrimitive

PrimitiveOf(i, end) == ItemOf(end, TokenOf(JSTOK_PRIMITIVE, i, end, 0), 1)

LEMMA PrimitiveFound ==
  ASSUME NEW u \in Seq(STRING), NEW i \in Positions, NEW e \in i + 1 .. Len(u) + 1, IsPrimitive(u, i, e)
  PROVE  PrimitiveAt(u, i) = PrimitiveOf(i, e)
<1> DEFINE ends == {j \in i + 1 .. Len(u) + 1 : IsPrimitive(u, i, j)}
           end == CHOOSE j \in ends : TRUE
<1>1. e \in ends
  OBVIOUS
<1>2. end \in ends
  BY <1>1
<1>3. PrimitiveAt(u, i) = PrimitiveOf(i, end)
  BY <1>1 DEF PrimitiveAt, PrimitiveOf, ItemOf
<1> HIDE DEF end
<1>4. end \in i + 1 .. Len(u) + 1 /\ IsPrimitive(u, i, end)
  BY <1>2
<1> HIDE DEF ends
<1>5. i \in Nat /\ Len(u) \in Nat
  BY DEF Positions
<1>6. /\ \A k \in i .. e - 1 : ~IsDelim(u[k])
      /\ e <= Len(u) => IsDelim(u[e])
  BY PrimitiveChars1
<1>7. /\ \A k \in i .. end - 1 : ~IsDelim(u[k])
      /\ end <= Len(u) => IsDelim(u[end])
  BY <1>4, PrimitiveChars1
<1>8. end = e
  <2>1. ASSUME end < e PROVE FALSE
    <3>1. end <= Len(u) /\ end \in i .. e - 1
      BY <1>4, <1>5, <2>1
    <3> QED
      BY <1>6, <1>7, <3>1
  <2>2. ASSUME e < end PROVE FALSE
    <3>1. e <= Len(u) /\ e \in i .. end - 1
      BY <1>4, <1>5, <2>2
    <3> QED
      BY <1>6, <1>7, <3>1
  <2> QED
    BY <1>4, <1>5, <2>1, <2>2
<1> QED
  BY <1>3, <1>8

LEMMA NoPrimitive ==
  ASSUME NEW u, NEW i, \A j \in i + 1 .. Len(u) + 1 : ~IsPrimitive(u, i, j)
  PROVE  PrimitiveAt(u, i) = Unreadable
<1>1. {j \in i + 1 .. Len(u) + 1 : IsPrimitive(u, i, j)} = {}
  OBVIOUS
<1> QED
  BY <1>1 DEF PrimitiveAt

Marks == {"}", "]", ",", ":"}

LEMMA NotPrimitive ==
  ASSUME NEW u \in Seq(STRING), NEW i \in Positions, u[i] \in Marks
  PROVE  PrimitiveAt(u, i) = Unreadable
<1>1. i \in Nat /\ Len(u) \in Nat
  BY DEF Positions
<1>2. ASSUME NEW j \in i + 1 .. Len(u) + 1, IsPrimitive(u, i, j) PROVE FALSE
  <2>1. i \in i .. j - 1
    BY <1>1
  <2>2. /\ \A k \in i .. j - 1 : ~IsDelim(u[k])
        /\ u[i] \in Digits \cup {"-"} \/ \E lit \in Literals : u[i] = lit[1]
    BY <1>2, PrimitiveChars1
  <2>3. ~IsDelim(u[i])
    BY <2>1, <2>2
  <2>4. u[i] = ":"
    BY <2>3 DEF IsDelim, Marks
  <2>5. u[i] \notin Digits \cup {"-"}
    BY <2>4 DEF Digits
  <2>6. \A lit \in Literals : lit[1] # ":"
    BY LiteralsAssumption
  <2> QED
    BY <2>2, <2>4, <2>5, <2>6
<1> QED
  BY <1>2, NoPrimitive

-----------------------------------------------------------------------------
(* Literals.                                                               *)

LEMMA LiteralIs ==
  ASSUME NEW s \in Seq(STRING), NEW i \in Positions, NEW lit \in Literals
  PROVE  \/ /\ LiteralEnd(s, i, lit) = i + Len(lit) /\ i + Len(lit) <= Len(s) + 1
            /\ \A k \in 1 .. Len(lit) : s[i + k - 1] = lit[k]
            /\ i + Len(lit) <= Len(s) => IsDelim(s[i + Len(lit)])
         \/ /\ LiteralEnd(s, i, lit) = INVAL
            /\ \/ \E k \in 1 .. Len(lit) : i + k - 1 <= Len(s) /\ s[i + k - 1] # lit[k]
               \/ i + Len(lit) <= Len(s) /\ ~IsDelim(s[i + Len(lit)])
         \/ LiteralEnd(s, i, lit) = PART /\ i + Len(lit) > Len(s) + 1
<1> DEFINE wrong == {k \in DOMAIN lit : i + k - 1 > Len(s) \/ s[i + k - 1] # lit[k]}
           first == CHOOSE k \in wrong : \A j \in wrong : k <= j
           end == i + Len(lit)
<1>1. lit \in Seq(STRING) /\ lit # << >>
  BY LiteralsAssumption
<1>2. Len(lit) \in Nat \ {0} /\ DOMAIN lit = 1 .. Len(lit) /\ i \in Nat /\ Len(s) \in Nat
  BY <1>1 DEF Positions
<1>3. LiteralEnd(s, i, lit) =
        IF wrong # {} THEN (IF i + first - 1 > Len(s) THEN PART ELSE INVAL)
        ELSE IF end <= Len(s) /\ ~IsDelim(s[end]) THEN INVAL
        ELSE end
  BY DEF LiteralEnd
<1>4. CASE wrong = {}
  <2>1. \A k \in 1 .. Len(lit) : i + k - 1 <= Len(s) /\ s[i + k - 1] = lit[k]
    <3> SUFFICES ASSUME NEW k \in 1 .. Len(lit) PROVE i + k - 1 <= Len(s) /\ s[i + k - 1] = lit[k]
      OBVIOUS
    <3>1. k \in DOMAIN lit /\ k \notin wrong
      BY <1>2, <1>4
    <3>2. ~(i + k - 1 > Len(s) \/ s[i + k - 1] # lit[k])
      BY <3>1
    <3> QED
      BY <1>2, <3>2
  <2>2. end <= Len(s) + 1
    <3>1. Len(lit) \in 1 .. Len(lit)
      BY <1>2
    <3>2. i + Len(lit) - 1 <= Len(s)
      BY <2>1, <3>1
    <3> QED
      BY <1>2, <3>2
  <2>3. CASE end <= Len(s) /\ ~IsDelim(s[end])
    BY <1>3, <1>4, <2>3
  <2>4. CASE ~(end <= Len(s) /\ ~IsDelim(s[end]))
    BY <1>3, <1>4, <2>1, <2>2, <2>4
  <2> QED
    BY <2>3, <2>4
<1>5. CASE wrong # {}
  <2>1. wrong \in SUBSET Nat
    BY <1>2
  <2>2. first \in wrong
    <3> HIDE DEF wrong
    <3> QED
      BY <1>5, <2>1, Chosen
  <2> HIDE DEF first
  <2>3. first \in 1 .. Len(lit) /\ (i + first - 1 > Len(s) \/ s[i + first - 1] # lit[first])
    BY <1>2, <2>2
  <2> HIDE DEF wrong
  <2>4. CASE i + first - 1 > Len(s)
    <3>1. LiteralEnd(s, i, lit) = PART
      BY <1>3, <1>5, <2>4
    <3>2. i + Len(lit) > Len(s) + 1
      BY <1>2, <2>3, <2>4
    <3> QED
      BY <3>1, <3>2
  <2>5. CASE ~(i + first - 1 > Len(s))
    <3>1. LiteralEnd(s, i, lit) = INVAL
      BY <1>3, <1>5, <2>5
    <3>2. i + first - 1 <= Len(s) /\ s[i + first - 1] # lit[first]
      BY <1>2, <2>3, <2>5
    <3> QED
      BY <2>3, <3>1, <3>2
  <2> QED
    BY <2>4, <2>5
<1> QED
  BY <1>4, <1>5

(* The primitive that begins at i, and its scan: a literal at the end of   *)
(* what is shown is taken for one whatever follows it.                     *)
PrimitivesAgree(s, u, i, e) ==
  /\ e >= 0 => /\ e \in i + 1 .. Len(s) + 1
               /\ \/ PrimitiveAt(u, i) = PrimitiveOf(i, e)
                  \/ /\ PrimitiveAt(u, i) = Unreadable
                     /\ e = Len(s) + 1 /\ e <= Len(u) /\ ~IsDelim(u[e])
  /\ e = INVAL => PrimitiveAt(u, i) = Unreadable
  /\ e = PART /\ u = s => PrimitiveAt(u, i) = Unreadable

LEMMA SameWord ==
  ASSUME NEW v \in Seq(STRING), NEW w \in Seq(STRING), Len(v) = Len(w),
         \A k \in 1 .. Len(w) : v[k] = w[k]
  PROVE  v = w
OBVIOUS

LEMMA LiteralsAgree ==
  ASSUME NEW s \in Seq(STRING), NEW u \in Seq(STRING), Begins(s, u), NEW i \in 1 .. Len(s),
         NEW lit \in Literals, s[i] = lit[1]
  PROVE  PrimitivesAgree(s, u, i, LiteralEnd(s, i, lit))
<1> DEFINE e == LiteralEnd(s, i, lit)
           end == i + Len(lit)
<1>1. i \in Positions /\ i \in Nat /\ Len(s) \in Nat /\ Len(u) \in Nat /\ Len(s) <= Len(u) /\ u[i] = s[i]
      /\ \A k \in 1 .. Len(s) : s[k] = u[k]
  BY DEF Positions, Begins
<1>2. lit \in Seq(STRING) /\ lit # << >> /\ Len(lit) \in Nat \ {0} /\ lit[1] \notin Digits \cup {"-"}
      /\ \A other \in Literals : other[1] = lit[1] => other = lit
  <2>1. lit \in Seq(STRING) /\ lit # << >>
    BY LiteralsAssumption
  <2>2. Len(lit) \in Nat \ {0}
    BY <2>1
  <2>3. lit[1] \notin Digits \cup {"-"}
    BY LiteralsAssumption
  <2>4. \A other \in Literals : other[1] = lit[1] => other = lit
    BY LiteralsAssumption
  <2> QED
    BY <2>1, <2>2, <2>3, <2>4
<1>3. end \in Nat /\ end > i
  BY <1>1, <1>2
<1>4. ASSUME NEW j \in i + 1 .. Len(u) + 1, IsPrimitive(u, i, j)
      PROVE  /\ j = end /\ (\A k \in 1 .. Len(lit) : u[i + k - 1] = lit[k])
             /\ (end <= Len(u) => IsDelim(u[end]))
  <2>1. ~IsNumber(u, i, j)
    <3>1. IsNumber(u, i, j) => u[i] \in Digits \cup {"-"}
      BY <1>1, NumberChars
    <3> QED
      BY <1>1, <1>2, <3>1
  <2>2. Part(u, i, j) \in Literals /\ (j <= Len(u) => IsDelim(u[j]))
    BY <1>4, <2>1 DEF IsPrimitive
  <2>3. Part(u, i, j)[1] = lit[1]
    BY <1>1, <2>2, LiteralFirst
  <2>4. Part(u, i, j) = lit
    BY <1>2, <2>2, <2>3
  <2>5. Len(Part(u, i, j)) = j - i /\ \A k \in 1 .. j - i : Part(u, i, j)[k] = u[i + k - 1]
    BY <1>1, PartIs
  <2>6. Len(lit) = j - i /\ \A k \in 1 .. j - i : lit[k] = u[i + k - 1]
    <3> DEFINE w == Part(u, i, j)
    <3>1. Len(w) = j - i /\ \A k \in 1 .. j - i : w[k] = u[i + k - 1]
      BY <2>5
    <3>2. w = lit
      BY <2>4
    <3> HIDE DEF w
    <3> QED
      BY <3>1, <3>2
  <2>7. j = end
    BY <1>1, <1>2, <2>6
  <2> QED
    BY <2>2, <2>6, <2>7
<1>5. CASE /\ e = end /\ end <= Len(s) + 1
           /\ \A k \in 1 .. Len(lit) : s[i + k - 1] = lit[k]
           /\ end <= Len(s) => IsDelim(s[end])
  <2>1. e >= 0 /\ e \in i + 1 .. Len(s) + 1 /\ e # INVAL /\ e # PART /\ end \in i + 1 .. Len(u) + 1
    BY <1>1, <1>3, <1>5 DEF INVAL, PART
  <2>2. Part(u, i, end) = lit
    <3> DEFINE w == Part(u, i, end)
    <3>1. w \in Seq(STRING) /\ Len(w) = end - i /\ \A k \in 1 .. end - i : w[k] = u[i + k - 1]
      BY <1>1, <2>1, PartIs
    <3>2. end - i = Len(lit)
      BY <1>1, <1>2
    <3>3. \A k \in 1 .. Len(lit) : u[i + k - 1] = lit[k]
      <4> SUFFICES ASSUME NEW k \in 1 .. Len(lit) PROVE u[i + k - 1] = lit[k]
        OBVIOUS
      <4>1. i + k - 1 \in 1 .. Len(s)
        BY <1>1, <1>2, <1>5
      <4> QED
        BY <1>1, <1>5, <4>1
    <3> HIDE DEF w, end
    <3>w. w \in Seq(STRING) /\ Len(w) = Len(lit)
      BY <3>1, <3>2
    <3>l. lit \in Seq(STRING)
      BY <1>2
    <3>s. \A k \in 1 .. Len(lit) : w[k] = lit[k]
      BY <3>1, <3>2, <3>3
    <3>4. w = lit
      BY <3>w, <3>l, <3>s, SameWord
    <3> QED
      BY <3>4 DEF w
  <2>3. CASE end <= Len(u) => IsDelim(u[end])
    <3>1. IsPrimitive(u, i, end)
      BY <2>2, <2>3 DEF IsPrimitive
    <3>2. PrimitiveAt(u, i) = PrimitiveOf(i, end)
      BY <1>1, <2>1, <3>1, PrimitiveFound
    <3> QED
      BY <1>5, <2>1, <3>2 DEF PrimitivesAgree
  <2>4. CASE end <= Len(u) /\ ~IsDelim(u[end])
    <3>1. PrimitiveAt(u, i) = Unreadable
      BY <1>4, <2>4, NoPrimitive
    <3>2. end = Len(s) + 1
      <4>1. ASSUME end <= Len(s) PROVE FALSE
        <5>1. end \in 1 .. Len(s)
          BY <1>1, <1>3, <4>1
        <5> QED
          BY <1>1, <1>5, <2>4, <4>1, <5>1
      <4> QED
        BY <1>1, <1>3, <1>5, <4>1
    <3> QED
      BY <1>5, <2>1, <2>4, <3>1, <3>2 DEF PrimitivesAgree
  <2> QED
    BY <2>3, <2>4
<1>6. CASE /\ e = INVAL
           /\ \/ \E k \in 1 .. Len(lit) : i + k - 1 <= Len(s) /\ s[i + k - 1] # lit[k]
              \/ end <= Len(s) /\ ~IsDelim(s[end])
  <2>1. PrimitiveAt(u, i) = Unreadable
    <3> SUFFICES ASSUME NEW j \in i + 1 .. Len(u) + 1, IsPrimitive(u, i, j) PROVE FALSE
      BY NoPrimitive
    <3>1. /\ \A k \in 1 .. Len(lit) : u[i + k - 1] = lit[k]
          /\ end <= Len(u) => IsDelim(u[end])
      BY <1>4
    <3>2. CASE \E k \in 1 .. Len(lit) : i + k - 1 <= Len(s) /\ s[i + k - 1] # lit[k]
      <4>1. PICK k \in 1 .. Len(lit) : i + k - 1 <= Len(s) /\ s[i + k - 1] # lit[k]
        BY <3>2
      <4>2. i + k - 1 \in 1 .. Len(s)
        BY <1>1, <1>2, <4>1
      <4> QED
        BY <1>1, <3>1, <4>1, <4>2
    <3>3. CASE end <= Len(s) /\ ~IsDelim(s[end])
      <4>1. end \in 1 .. Len(s) /\ end <= Len(u)
        BY <1>1, <1>3, <3>3
      <4> QED
        BY <1>1, <3>1, <3>3, <4>1
    <3> QED
      BY <1>6, <3>2, <3>3
  <2> QED
    BY <1>6, <2>1 DEF PrimitivesAgree, INVAL, PART
<1>7. CASE e = PART /\ end > Len(s) + 1
  <2>1. u = s => PrimitiveAt(u, i) = Unreadable
    <3> SUFFICES ASSUME u = s, NEW j \in i + 1 .. Len(u) + 1, IsPrimitive(u, i, j) PROVE FALSE
      BY NoPrimitive
    <3>1. j = end
      BY <1>4
    <3> QED
      BY <1>1, <1>7, <3>1
  <2> QED
    BY <1>7, <2>1 DEF PrimitivesAgree, INVAL, PART
<1>8. \/ /\ e = end /\ end <= Len(s) + 1
         /\ \A k \in 1 .. Len(lit) : s[i + k - 1] = lit[k]
         /\ end <= Len(s) => IsDelim(s[end])
      \/ /\ e = INVAL
         /\ \/ \E k \in 1 .. Len(lit) : i + k - 1 <= Len(s) /\ s[i + k - 1] # lit[k]
            \/ end <= Len(s) /\ ~IsDelim(s[end])
      \/ e = PART /\ end > Len(s) + 1
  BY <1>1, LiteralIs
<1> QED
  BY <1>5, <1>6, <1>7, <1>8

-----------------------------------------------------------------------------
(* Numbers.                                                                *)

(* Where a scan of s stands after something that ends before j in u.       *)
Reaches(s, j, r) == (j <= Len(s) /\ r = j) \/ (j > Len(s) /\ r \in {PART, Len(s) + 1})

LEMMA DigitsIs ==
  ASSUME NEW s \in Seq(STRING), NEW p \in Positions
  PROVE  \/ p > Len(s) /\ SkipDigits(s, p) = PART
         \/ p <= Len(s) /\ s[p] \notin Digits /\ SkipDigits(s, p) = INVAL
         \/ /\ p <= Len(s) /\ s[p] \in Digits
            /\ SkipDigits(s, p) \in p + 1 .. Len(s) + 1
            /\ \A k \in p .. SkipDigits(s, p) - 1 : s[k] \in Digits
            /\ SkipDigits(s, p) <= Len(s) => s[SkipDigits(s, p)] \notin Digits
<1> DEFINE others == {i \in p .. Len(s) : s[i] \notin Digits}
           first == CHOOSE i \in others : \A j \in others : i <= j
           r == SkipDigits(s, p)
<1>1. p \in Nat /\ p > 0 /\ Len(s) \in Nat /\ others \in SUBSET Nat
  BY DEF Positions
<1>2. r = IF p > Len(s) THEN PART
          ELSE IF s[p] \notin Digits THEN INVAL
          ELSE IF others = {} THEN Len(s) + 1
          ELSE first
  BY <1>1 DEF SkipDigits
<1>3. CASE p > Len(s)
  BY <1>2, <1>3
<1>4. CASE p <= Len(s) /\ s[p] \notin Digits
  BY <1>1, <1>2, <1>4
<1>5. CASE p <= Len(s) /\ s[p] \in Digits
  <2>1. CASE others = {}
    <3>1. r = Len(s) + 1
      BY <1>1, <1>2, <1>5, <2>1
    <3>2. \A k \in p .. Len(s) : s[k] \in Digits
      BY <2>1
    <3> HIDE DEF r, others
    <3>3. r \in p + 1 .. Len(s) + 1 /\ ~(r <= Len(s)) /\ \A k \in p .. r - 1 : s[k] \in Digits
      BY <1>1, <1>5, <3>1, <3>2
    <3> QED
      BY <1>5, <3>3 DEF r
  <2>2. CASE others # {}
    <3> HIDE DEF others
    <3>1. PICK m \in others : \A k \in others : m <= k
      BY <1>1, <2>2, LeastOf
    <3>2. first = m
      BY <1>1, <3>1, Least
    <3>3. r = m
      BY <1>1, <1>2, <1>5, <2>2, <3>2
    <3>4. m \in p .. Len(s) /\ s[m] \notin Digits
      BY DEF others
    <3>5. \A k \in p .. m - 1 : s[k] \in Digits
      <4> SUFFICES ASSUME NEW k \in p .. m - 1, s[k] \notin Digits PROVE FALSE
        OBVIOUS
      <4>1. k \in others
        BY <1>1, <3>4 DEF others
      <4> QED
        BY <1>1, <3>1, <3>4, <4>1
    <3>6. m # p
      BY <1>5, <3>4
    <3> HIDE DEF r
    <3>7. r \in p + 1 .. Len(s) + 1 /\ (\A k \in p .. r - 1 : s[k] \in Digits) /\ s[r] \notin Digits
      BY <1>1, <3>3, <3>4, <3>5, <3>6
    <3> QED
      BY <1>5, <3>7 DEF r
  <2> QED
    BY <2>1, <2>2
<1> QED
  BY <1>1, <1>3, <1>4, <1>5

(* What the scan found are digits of u too, and all there are of u's as    *)
(* far as it is shown.                                                     *)
LEMMA DigitsFound ==
  ASSUME NEW s \in Seq(STRING), NEW u \in Seq(STRING), Begins(s, u),
         NEW p \in Positions \cup ScanErrors, SkipDigits(s, p) >= 0
  PROVE  p \in Positions /\ SkipDigits(s, p) \in p + 1 .. Len(s) + 1 /\ AreDigits(u, p, SkipDigits(s, p))
<1>1. PART \in Int /\ INVAL \in Int /\ PART < 0 /\ INVAL < 0
  BY DEF PART, INVAL
<1>2. p \in Positions
  <2>1. ASSUME p \in ScanErrors PROVE FALSE
    <3>1. p < 0 /\ SkipDigits(s, p) = p
      BY <1>1, <2>1 DEF SkipDigits, ScanErrors
    <3> QED
      BY <1>1, <2>1, <3>1 DEF ScanErrors
  <2> QED
    BY <2>1
<1> DEFINE r == SkipDigits(s, p)
<1>3. /\ p <= Len(s) /\ r \in p + 1 .. Len(s) + 1
      /\ \A k \in p .. r - 1 : s[k] \in Digits
  BY <1>1, <1>2, DigitsIs
<1> HIDE DEF r
<1>4. \A k \in p .. r - 1 : u[k] \in Digits
  <2> SUFFICES ASSUME NEW k \in p .. r - 1 PROVE u[k] \in Digits
    OBVIOUS
  <2>1. k \in 1 .. Len(s)
    BY <1>2, <1>3 DEF Positions
  <2> QED
    BY <1>3, <2>1 DEF Begins
<1>5. p < r
  BY <1>2, <1>3 DEF Positions
<1> QED
  BY <1>2, <1>3, <1>4, <1>5 DEF AreDigits, r

LEMMA DigitsReach ==
  ASSUME NEW s \in Seq(STRING), NEW u \in Seq(STRING), Begins(s, u),
         NEW p \in Positions, NEW q \in Positions, q <= Len(u), AreDigits(u, p, q), u[q] \notin Digits
  PROVE  Reaches(s, q, SkipDigits(s, p))
<1> DEFINE r == SkipDigits(s, p)
<1>1. p \in Nat /\ q \in Nat /\ p >= 1 /\ q >= 1 /\ Len(s) \in Nat /\ Len(u) \in Nat /\ p < q
      /\ \A k \in p .. q - 1 : u[k] \in Digits
  BY DEF Positions, AreDigits
<1>2. \A k \in 1 .. Len(s) : s[k] = u[k]
  BY DEF Begins
<1>3. CASE p > Len(s)
  <2>1. r = PART
    BY <1>1, <1>3, DigitsIs
  <2> QED
    BY <1>1, <1>3, <2>1 DEF Reaches
<1>4. CASE p <= Len(s)
  <2>1. s[p] \in Digits
    <3>1. p \in 1 .. Len(s) /\ p \in p .. q - 1
      BY <1>1, <1>4
    <3> QED
      BY <1>1, <1>2, <3>1
  <2>2. /\ r \in p + 1 .. Len(s) + 1
        /\ \A k \in p .. r - 1 : s[k] \in Digits
        /\ r <= Len(s) => s[r] \notin Digits
    BY <1>1, <1>4, <2>1, DigitsIs
  <2> HIDE DEF r
  <2>3. ASSUME r < q, r <= Len(s) PROVE FALSE
    <3>1. r \in 1 .. Len(s) /\ r \in p .. q - 1
      BY <1>1, <2>2, <2>3
    <3> QED
      BY <1>1, <1>2, <2>2, <2>3, <3>1
  <2>4. ASSUME q < r PROVE FALSE
    <3>1. q \in 1 .. Len(s) /\ q \in p .. r - 1
      BY <1>1, <2>2, <2>4
    <3> QED
      BY <1>2, <2>2, <3>1
  <2>5. Reaches(s, q, r)
    BY <1>1, <2>2, <2>3, <2>4 DEF Reaches
  <2> QED
    BY <2>5 DEF r
<1> QED
  BY <1>1, <1>3, <1>4

-----------------------------------------------------------------------------
(* The parts of the scan of a number, in their order.                      *)
Has(s, i, c) == i > 0 /\ i <= Len(s) /\ s[i] \in c
WholeEnd(s, from) ==
  LET sign == IF Has(s, from, {"-"}) THEN from + 1 ELSE from
  IN IF Has(s, sign, {"0"}) THEN sign + 1 ELSE SkipDigits(s, sign)
FractionEnd(s, int) == IF Has(s, int, {"."}) THEN SkipDigits(s, int + 1) ELSE int
ExponentEnd(s, frac) ==
  IF ~Has(s, frac, {"e", "E"}) THEN frac
  ELSE IF Has(s, frac + 1, {"+", "-"}) THEN SkipDigits(s, frac + 2)
  ELSE SkipDigits(s, frac + 1)

LEMMA NumberEndIs ==
  ASSUME NEW s, NEW from
  PROVE  LET exp == ExponentEnd(s, FractionEnd(s, WholeEnd(s, from)))
         IN NumberEnd(s, from) = IF exp < 0 THEN exp
                                 ELSE IF exp > Len(s) THEN PART
                                 ELSE IF ~IsDelim(s[exp]) THEN INVAL
                                 ELSE exp
  BY DEF NumberEnd, ExponentEnd, FractionEnd, WholeEnd, Has

Scanned(s) == ScanErrors \cup 1 .. Len(s) + 1

LEMMA ScanTypes ==
  ASSUME NEW s \in Seq(STRING)
  PROVE  /\ \A p \in Positions \cup ScanErrors : SkipDigits(s, p) \in Scanned(s)
         /\ \A p \in 1 .. Len(s) : WholeEnd(s, p) \in Scanned(s)
         /\ \A p \in Scanned(s) : FractionEnd(s, p) \in Scanned(s) /\ ExponentEnd(s, p) \in Scanned(s)
<1>1. Len(s) \in Nat /\ PART \in Int /\ INVAL \in Int /\ PART < 0 /\ INVAL < 0
  BY DEF PART, INVAL
<1>2. ASSUME NEW p \in Positions \cup ScanErrors PROVE SkipDigits(s, p) \in Scanned(s)
  <2>1. p \in ScanErrors \cup (Nat \ {0})
    BY DEF Positions
  <2>2. SkipDigits(s, p) \in ScanErrors \/ (p > 0 /\ SkipDigits(s, p) \in p .. Len(s) + 1)
    BY <2>1, DigitsEnd
  <2>3. p \in Int
    BY <1>1 DEF Positions, ScanErrors
  <2> QED
    BY <1>1, <2>2, <2>3 DEF Scanned
<1>3. ASSUME NEW p \in 1 .. Len(s) PROVE WholeEnd(s, p) \in Scanned(s)
  <2> DEFINE sign == IF Has(s, p, {"-"}) THEN p + 1 ELSE p
  <2>1. sign \in Positions
    BY <1>1 DEF Positions
  <2>2. Has(s, sign, {"0"}) => sign + 1 \in Scanned(s)
    BY <1>1, <2>1 DEF Has, Scanned, Positions
  <2> QED
    BY <1>2, <2>1, <2>2 DEF WholeEnd
<1>4. ASSUME NEW p \in Scanned(s) PROVE FractionEnd(s, p) \in Scanned(s) /\ ExponentEnd(s, p) \in Scanned(s)
  <2>1. p > 0 => p + 1 \in Positions /\ p + 2 \in Positions
    BY <1>1 DEF Scanned, ScanErrors, Positions
  <2>2. Has(s, p, {"."}) => p > 0
    BY DEF Has
  <2>3. Has(s, p, {"e", "E"}) => p > 0
    BY DEF Has
  <2> QED
    BY <1>2, <2>1, <2>2, <2>3 DEF FractionEnd, ExponentEnd
<1> QED
  BY <1>2, <1>3, <1>4

(* A number that was found is one.                                         *)
LEMMA NumberSound ==
  ASSUME NEW s \in Seq(STRING), NEW u \in Seq(STRING), Begins(s, u), NEW i \in 1 .. Len(s), NumberEnd(s, i) >= 0
  PROVE  /\ NumberEnd(s, i) \in i + 1 .. Len(s)
         /\ IsDelim(s[NumberEnd(s, i)])
         /\ IsNumber(u, i, NumberEnd(s, i))
<1> DEFINE int == WholeEnd(s, i)
           frac == FractionEnd(s, int)
           exp == ExponentEnd(s, frac)
<1>1. /\ i \in Positions /\ i \in Nat /\ i >= 1 /\ Len(s) \in Nat /\ Len(u) \in Nat /\ Len(s) <= Len(u)
      /\ \A k \in 1 .. Len(s) : s[k] = u[k]
  BY DEF Positions, Begins
<1>2. PART \in Int /\ INVAL \in Int /\ PART < 0 /\ INVAL < 0
  BY DEF PART, INVAL
<1>3. int \in Scanned(s)
  BY ScanTypes
<1> HIDE DEF int
<1>4. frac \in Scanned(s)
  BY <1>3, ScanTypes
<1> HIDE DEF frac
<1>5. exp \in Scanned(s)
  BY <1>4, ScanTypes
<1>6. NumberEnd(s, i) = IF exp < 0 THEN exp
                        ELSE IF exp > Len(s) THEN PART
                        ELSE IF ~IsDelim(s[exp]) THEN INVAL
                        ELSE exp
  BY NumberEndIs DEF int, frac
<1> HIDE DEF exp
<1>7. NumberEnd(s, i) = exp /\ exp >= 0 /\ exp <= Len(s) /\ IsDelim(s[exp])
  <2>1. exp \in Int
    BY <1>1, <1>2, <1>5 DEF Scanned, ScanErrors
  <2> QED
    BY <1>1, <1>2, <1>6, <2>1
<1>p. \A x \in Scanned(s) : x >= 0 => x \in 1 .. Len(s) + 1 /\ x \in Positions /\ x \in Nat
  BY <1>1, <1>2 DEF Scanned, ScanErrors, Positions
<1>8. frac >= 0 /\ (exp = frac \/ (exp > frac /\ IsExponent(u, frac, exp)))
  <2>1. CASE ~Has(s, frac, {"e", "E"})
    <3>1. exp = frac
      BY <2>1 DEF exp, ExponentEnd
    <3> QED
      BY <1>7, <3>1
  <2>2. CASE Has(s, frac, {"e", "E"})
    <3>1. frac \in 1 .. Len(s) /\ s[frac] \in {"e", "E"} /\ frac >= 0
      BY <1>1, <1>2, <1>4, <2>2 DEF Has, Scanned, ScanErrors
    <3>2. u[frac] \in {"e", "E"}
      BY <1>1, <3>1
    <3>3. frac + 1 \in Positions /\ frac + 2 \in Positions
      BY <3>1 DEF Positions
    <3>4. CASE Has(s, frac + 1, {"+", "-"})
      <4>1. exp = SkipDigits(s, frac + 2)
        BY <2>2, <3>4 DEF exp, ExponentEnd
      <4>2. exp \in (frac + 2) + 1 .. Len(s) + 1 /\ AreDigits(u, frac + 2, exp)
        BY <1>7, <3>3, <4>1, DigitsFound
      <4>3. frac + 1 \in 1 .. Len(s) /\ s[frac + 1] \in {"+", "-"}
        BY <1>1, <3>1, <3>4 DEF Has
      <4>4. u[frac + 1] \in {"+", "-"}
        BY <1>1, <4>3
      <4>5. exp > frac /\ frac + 1 < exp
        BY <1>1, <3>1, <4>2
      <4> QED
        BY <3>1, <3>2, <4>2, <4>4, <4>5 DEF IsExponent
    <3>5. CASE ~Has(s, frac + 1, {"+", "-"})
      <4>1. exp = SkipDigits(s, frac + 1)
        BY <2>2, <3>5 DEF exp, ExponentEnd
      <4>2. exp \in (frac + 1) + 1 .. Len(s) + 1 /\ AreDigits(u, frac + 1, exp)
        BY <1>7, <3>3, <4>1, DigitsFound
      <4>3. exp > frac
        BY <1>1, <3>1, <4>2
      <4> QED
        BY <3>1, <3>2, <4>2, <4>3 DEF IsExponent
    <3> QED
      BY <3>4, <3>5
  <2> QED
    BY <2>1, <2>2
<1>9. int >= 0 /\ (frac = int \/ (frac > int /\ IsFraction(u, int, frac)))
  <2>1. CASE ~Has(s, int, {"."})
    <3>1. frac = int
      BY <2>1 DEF frac, FractionEnd
    <3> QED
      BY <1>8, <3>1
  <2>2. CASE Has(s, int, {"."})
    <3>1. int \in 1 .. Len(s) /\ s[int] = "." /\ int >= 0
      BY <1>1, <1>2, <1>3, <2>2 DEF Has, Scanned, ScanErrors
    <3>2. u[int] = "."
      BY <1>1, <3>1
    <3>3. int + 1 \in Positions
      BY <3>1 DEF Positions
    <3>4. frac = SkipDigits(s, int + 1)
      BY <2>2 DEF frac, FractionEnd
    <3>5. frac \in (int + 1) + 1 .. Len(s) + 1 /\ AreDigits(u, int + 1, frac)
      BY <1>8, <3>3, <3>4, DigitsFound
    <3>6. frac > int
      BY <1>1, <3>1, <3>5
    <3> QED
      BY <3>1, <3>2, <3>5, <3>6 DEF IsFraction
  <2> QED
    BY <2>1, <2>2
<1>10. int > i /\ IsWhole(u, i, int)
  <2> DEFINE sign == IF Has(s, i, {"-"}) THEN i + 1 ELSE i
  <2>1. Has(s, i, {"-"}) <=> u[i] = "-"
    BY <1>1 DEF Has
  <2>2. sign = (IF u[i] = "-" THEN i + 1 ELSE i) /\ sign \in Positions /\ sign \in Nat /\ sign >= i
    BY <1>1, <2>1 DEF Positions
  <2>i. int = IF Has(s, sign, {"0"}) THEN sign + 1 ELSE SkipDigits(s, sign)
    BY DEF int, WholeEnd
  <2> HIDE DEF sign
  <2>3. CASE Has(s, sign, {"0"})
    <3>1. int = sign + 1 /\ sign \in 1 .. Len(s) /\ s[sign] = "0"
      BY <1>1, <2>2, <2>3, <2>i DEF Has, Positions
    <3>2. u[sign] = "0"
      BY <1>1, <3>1
    <3>3. \A k \in sign .. int - 1 : u[k] \in Digits
      BY <2>2, <3>1, <3>2 DEF Digits
    <3>4. AreDigits(u, sign, int)
      BY <2>2, <3>1, <3>3 DEF AreDigits
    <3> QED
      BY <1>1, <2>2, <3>1, <3>4 DEF IsWhole
  <2>4. CASE ~Has(s, sign, {"0"})
    <3>1. int = SkipDigits(s, sign)
      BY <2>i, <2>4
    <3>2. int \in sign + 1 .. Len(s) + 1 /\ AreDigits(u, sign, int)
      BY <1>9, <2>2, <3>1, DigitsFound
    <3>3. sign \in 1 .. Len(s)
      BY <1>1, <2>2, <3>2 DEF Positions
    <3>4. u[sign] # "0"
      BY <1>1, <2>4, <3>3 DEF Has
    <3>5. int > i
      BY <1>1, <2>2, <3>2
    <3> QED
      BY <2>2, <3>2, <3>4, <3>5 DEF IsWhole
  <2> QED
    BY <2>3, <2>4
<1>11. exp \in i + 1 .. Len(s) /\ int \in i + 1 .. exp /\ frac \in int .. exp
  BY <1>1, <1>3, <1>4, <1>5, <1>7, <1>8, <1>9, <1>10, <1>p
<1>12. IsNumber(u, i, exp)
  BY <1>8, <1>9, <1>10, <1>11 DEF IsNumber
<1> QED
  BY <1>7, <1>11, <1>12

(* A number that is there is found, unless what is shown ends before it.   *)
LEMMA WholeReaches ==
  ASSUME NEW s \in Seq(STRING), NEW u \in Seq(STRING), Begins(s, u), NEW i \in 1 .. Len(s),
         NEW a \in i + 1 .. Len(u), IsWhole(u, i, a), u[a] \notin Digits
  PROVE  Reaches(s, a, WholeEnd(s, i))
<1> DEFINE sign == IF u[i] = "-" THEN i + 1 ELSE i
<1>n. /\ i \in Nat /\ i >= 1 /\ a \in Nat /\ a >= 1 /\ Len(s) \in Nat /\ Len(u) \in Nat /\ a <= Len(u)
  OBVIOUS
<1>p. a \in Positions
  BY <1>n DEF Positions
<1>b. \A k \in 1 .. Len(s) : s[k] = u[k]
  BY DEF Begins
<1>1. /\ i \in Nat /\ i >= 1 /\ a \in Positions /\ a \in Nat /\ Len(s) \in Nat /\ Len(u) \in Nat /\ a <= Len(u)
      /\ \A k \in 1 .. Len(s) : s[k] = u[k]
  BY <1>n, <1>p, <1>b
<1>2. Has(s, i, {"-"}) <=> u[i] = "-"
  BY <1>1 DEF Has
<1>3. WholeEnd(s, i) = IF Has(s, sign, {"0"}) THEN sign + 1 ELSE SkipDigits(s, sign)
  BY <1>2 DEF WholeEnd
<1>4. AreDigits(u, sign, a) /\ (u[sign] = "0" => a = sign + 1)
  BY DEF IsWhole
<1>5. sign \in Positions /\ sign \in Nat
  BY <1>1 DEF Positions
<1> HIDE DEF sign
<1>6. CASE Has(s, sign, {"0"})
  <2>1. sign \in 1 .. Len(s) /\ s[sign] = "0"
    BY <1>1, <1>5, <1>6 DEF Has
  <2>2. u[sign] = "0"
    BY <1>1, <2>1
  <2>3. WholeEnd(s, i) = sign + 1 /\ a = sign + 1
    BY <1>3, <1>4, <1>6, <2>2
  <2> QED
    BY <1>1, <2>1, <2>3 DEF Reaches
<1>7. CASE ~Has(s, sign, {"0"})
  <2>1. WholeEnd(s, i) = SkipDigits(s, sign)
    BY <1>3, <1>7
  <2> QED
    BY <1>1, <1>4, <1>5, <2>1, DigitsReach
<1> QED
  BY <1>6, <1>7

LEMMA StaysReached ==
  ASSUME NEW s \in Seq(STRING), NEW a \in Positions, NEW b \in Nat, b >= a, NEW r, Reaches(s, a, r), a > Len(s)
  PROVE  Reaches(s, b, r) /\ \A c : ~Has(s, r, c)
  BY DEF Reaches, Has, Positions, PART

LEMMA FractionReaches ==
  ASSUME NEW s \in Seq(STRING), NEW u \in Seq(STRING), Begins(s, u),
         NEW a \in Positions, NEW b \in a .. Len(u), NEW r, Reaches(s, a, r),
         a = b \/ IsFraction(u, a, b), u[b] \notin Digits \cup {"."}
  PROVE  Reaches(s, b, FractionEnd(s, r))
<1>1. /\ a \in Nat /\ b \in Nat /\ b >= a /\ a >= 1 /\ Len(s) \in Nat /\ Len(u) \in Nat /\ b <= Len(u) /\ b \in Positions
      /\ a + 1 \in Positions
      /\ \A k \in 1 .. Len(s) : s[k] = u[k]
  BY DEF Positions, Begins
<1>2. CASE a > Len(s)
  BY <1>1, <1>2, StaysReached DEF FractionEnd
<1>3. CASE a <= Len(s)
  <2>1. r = a /\ a \in 1 .. Len(s) /\ s[a] = u[a]
    BY <1>1, <1>3 DEF Reaches
  <2>2. CASE a = b
    <3>1. ~Has(s, r, {"."})
      BY <2>1, <2>2 DEF Has
    <3> QED
      BY <1>3, <2>1, <2>2, <3>1 DEF FractionEnd, Reaches
  <2>3. CASE IsFraction(u, a, b)
    <3>1. Has(s, r, {"."}) /\ AreDigits(u, a + 1, b)
      BY <1>1, <2>1, <2>3 DEF Has, IsFraction
    <3>2. FractionEnd(s, r) = SkipDigits(s, a + 1)
      BY <2>1, <3>1 DEF FractionEnd
    <3> QED
      BY <1>1, <3>1, <3>2, DigitsReach
  <2> QED
    BY <2>2, <2>3
<1> QED
  BY <1>1, <1>2, <1>3

LEMMA ExponentReaches ==
  ASSUME NEW s \in Seq(STRING), NEW u \in Seq(STRING), Begins(s, u),
         NEW b \in Positions, NEW j \in b .. Len(u), NEW r, Reaches(s, b, r),
         b = j \/ IsExponent(u, b, j), u[j] \notin PrimitiveChars
  PROVE  Reaches(s, j, ExponentEnd(s, r))
<1>1. /\ b \in Nat /\ j \in Nat /\ j >= b /\ b >= 1 /\ Len(s) \in Nat /\ Len(u) \in Nat /\ j <= Len(u) /\ j \in Positions
      /\ b + 1 \in Positions /\ b + 2 \in Positions
      /\ \A k \in 1 .. Len(s) : s[k] = u[k]
  BY DEF Positions, Begins
<1>2. CASE b > Len(s)
  BY <1>1, <1>2, StaysReached DEF ExponentEnd
<1>3. CASE b <= Len(s)
  <2>1. r = b /\ b \in 1 .. Len(s) /\ s[b] = u[b]
    BY <1>1, <1>3 DEF Reaches
  <2>n. u[j] \notin Digits
    BY DEF PrimitiveChars
  <2>2. CASE b = j
    <3>1. ~Has(s, r, {"e", "E"})
      BY <2>1, <2>2 DEF Has, PrimitiveChars
    <3> QED
      BY <1>3, <2>1, <2>2, <3>1 DEF ExponentEnd, Reaches
  <2>3. CASE IsExponent(u, b, j) /\ AreDigits(u, b + 1, j)
    <3>1. Has(s, r, {"e", "E"})
      BY <1>1, <2>1, <2>3 DEF Has, IsExponent
    <3>2. u[b + 1] \in Digits
      <4>1. b + 1 \in b + 1 .. j - 1
        BY <1>1, <2>3 DEF AreDigits
      <4> QED
        BY <2>3, <4>1 DEF AreDigits
    <3>3. ~Has(s, r + 1, {"+", "-"})
      <4> SUFFICES ASSUME Has(s, r + 1, {"+", "-"}) PROVE FALSE
        OBVIOUS
      <4>1. b + 1 \in 1 .. Len(s) /\ s[b + 1] \in {"+", "-"}
        BY <1>1, <2>1 DEF Has
      <4>2. u[b + 1] \in {"+", "-"}
        BY <1>1, <4>1
      <4> QED
        BY <3>2, <4>2 DEF Digits
    <3>4. ExponentEnd(s, r) = SkipDigits(s, b + 1)
      BY <2>1, <3>1, <3>3 DEF ExponentEnd
    <3> QED
      BY <1>1, <2>3, <2>n, <3>4, DigitsReach
  <2>4. CASE IsExponent(u, b, j) /\ b + 1 < j /\ u[b + 1] \in {"+", "-"} /\ AreDigits(u, b + 2, j)
    <3>1. Has(s, r, {"e", "E"})
      BY <1>1, <2>1, <2>4 DEF Has, IsExponent
    <3>2. CASE b + 1 <= Len(s)
      <4>1. b + 1 \in 1 .. Len(s)
        BY <1>1, <3>2
      <4>2. Has(s, r + 1, {"+", "-"})
        BY <1>1, <2>1, <2>4, <4>1 DEF Has
      <4>3. ExponentEnd(s, r) = SkipDigits(s, b + 2)
        BY <2>1, <3>1, <4>2 DEF ExponentEnd
      <4> QED
        BY <1>1, <2>4, <2>n, <4>3, DigitsReach
    <3>3. CASE b + 1 > Len(s)
      <4>1. ~Has(s, r + 1, {"+", "-"})
        BY <1>1, <2>1, <3>3 DEF Has
      <4>2. ExponentEnd(s, r) = SkipDigits(s, b + 1)
        BY <2>1, <3>1, <4>1 DEF ExponentEnd
      <4>3. SkipDigits(s, b + 1) = PART
        BY <1>1, <3>3, DigitsIs
      <4> QED
        BY <1>1, <2>4, <3>3, <4>2, <4>3 DEF Reaches
    <3> QED
      BY <1>1, <3>2, <3>3
  <2>5. IsExponent(u, b, j) => AreDigits(u, b + 1, j) \/ (b + 1 < j /\ u[b + 1] \in {"+", "-"} /\ AreDigits(u, b + 2, j))
    BY DEF IsExponent
  <2> QED
    BY <2>2, <2>3, <2>4, <2>5
<1> QED
  BY <1>1, <1>2, <1>3

LEMMA NumberComplete ==
  ASSUME NEW s \in Seq(STRING), NEW u \in Seq(STRING), Begins(s, u), NEW i \in 1 .. Len(s),
         NEW j \in i + 1 .. Len(u), IsNumber(u, i, j), IsDelim(u[j])
  PROVE  NumberEnd(s, i) = IF j <= Len(s) THEN j ELSE PART
<1>0. u[j] \notin PrimitiveChars
  BY DelimitersAreNone
<1>1. PICK a \in i + 1 .. j : /\ IsWhole(u, i, a)
                              /\ \E b \in a .. j : /\ a = b \/ IsFraction(u, a, b)
                                                   /\ b = j \/ IsExponent(u, b, j)
  BY DEF IsNumber
<1>2. PICK b \in a .. j : (a = b \/ IsFraction(u, a, b)) /\ (b = j \/ IsExponent(u, b, j))
  BY <1>1
<1>3. i \in Nat /\ i >= 1 /\ Len(u) \in Nat /\ Len(s) \in Nat /\ a \in Positions /\ b \in Positions /\ j \in Nat
      /\ a \in i + 1 .. Len(u) /\ b \in a .. Len(u) /\ j \in b .. Len(u)
  BY DEF Positions
<1>4. u[b] \notin Digits \cup {"."}
  BY <1>0, <1>2 DEF IsExponent, PrimitiveChars, Digits
<1>5. u[a] \notin Digits
  BY <1>2, <1>4 DEF IsFraction, Digits
<1>6. Reaches(s, a, WholeEnd(s, i))
  BY <1>1, <1>3, <1>5, WholeReaches
<1>7. Reaches(s, b, FractionEnd(s, WholeEnd(s, i)))
  BY <1>2, <1>3, <1>4, <1>6, FractionReaches
<1> DEFINE exp == ExponentEnd(s, FractionEnd(s, WholeEnd(s, i)))
<1>8. Reaches(s, j, exp)
  BY <1>0, <1>2, <1>3, <1>7, ExponentReaches
<1>9. NumberEnd(s, i) = IF exp < 0 THEN exp
                        ELSE IF exp > Len(s) THEN PART
                        ELSE IF ~IsDelim(s[exp]) THEN INVAL
                        ELSE exp
  BY NumberEndIs
<1> HIDE DEF exp
<1>10. j <= Len(s) => s[j] = u[j]
  BY <1>3 DEF Begins
<1> QED
  BY <1>3, <1>8, <1>9, <1>10 DEF Reaches, PART

-----------------------------------------------------------------------------
(* What the scan of a primitive finds is what is there.                    *)

LEMMA NumbersAgree ==
  ASSUME NEW s \in Seq(STRING), NEW u \in Seq(STRING), Begins(s, u), NEW i \in 1 .. Len(s),
         \A lit \in Literals : s[i] # lit[1]
  PROVE  PrimitivesAgree(s, u, i, NumberEnd(s, i))
<1>1. /\ i \in Positions /\ i \in Nat /\ Len(s) \in Nat /\ Len(u) \in Nat /\ Len(s) <= Len(u) /\ u[i] = s[i]
      /\ \A k \in 1 .. Len(s) : s[k] = u[k]
  BY DEF Positions, Begins
<1>2. ASSUME NEW j \in i + 1 .. Len(u) + 1, IsPrimitive(u, i, j)
      PROVE  j <= Len(u) /\ NumberEnd(s, i) = IF j <= Len(s) THEN j ELSE PART
  <2>1. Part(u, i, j) \notin Literals
    BY <1>1, LiteralFirst
  <2>2. j <= Len(u) /\ IsNumber(u, i, j) /\ IsDelim(u[j])
    BY <1>2, <2>1 DEF IsPrimitive
  <2>3. j \in i + 1 .. Len(u)
    BY <1>1, <2>2
  <2> QED
    BY <2>2, <2>3, NumberComplete
<1> DEFINE e == NumberEnd(s, i)
<1>3. e >= 0 => e \in i + 1 .. Len(s) + 1 /\ PrimitiveAt(u, i) = PrimitiveOf(i, e)
  <2> SUFFICES ASSUME e >= 0 PROVE e \in i + 1 .. Len(s) + 1 /\ PrimitiveAt(u, i) = PrimitiveOf(i, e)
    OBVIOUS
  <2>1. e \in i + 1 .. Len(s) /\ IsDelim(s[e]) /\ IsNumber(u, i, e)
    BY NumberSound
  <2> HIDE DEF e
  <2>2. e \in i + 1 .. Len(u) + 1 /\ e <= Len(u) /\ u[e] = s[e] /\ e \in i + 1 .. Len(s) + 1
    BY <1>1, <2>1
  <2>3. IsPrimitive(u, i, e)
    BY <2>1, <2>2 DEF IsPrimitive
  <2> QED
    BY <1>1, <2>2, <2>3, PrimitiveFound
<1>4. e = INVAL => PrimitiveAt(u, i) = Unreadable
  <2> SUFFICES ASSUME e = INVAL, NEW j \in i + 1 .. Len(u) + 1, IsPrimitive(u, i, j) PROVE FALSE
    BY NoPrimitive
  <2> QED
    BY <1>1, <1>2 DEF INVAL, PART
<1>5. e = PART /\ u = s => PrimitiveAt(u, i) = Unreadable
  <2> SUFFICES ASSUME e = PART, u = s, NEW j \in i + 1 .. Len(u) + 1, IsPrimitive(u, i, j) PROVE FALSE
    BY NoPrimitive
  <2> QED
    BY <1>1, <1>2 DEF PART
<1> QED
  BY <1>3, <1>4, <1>5 DEF PrimitivesAgree

LEMMA PrimitivesAgreeAlways ==
  ASSUME NEW s \in Seq(STRING), NEW u \in Seq(STRING), Begins(s, u), NEW i \in 1 .. Len(s)
  PROVE  PrimitivesAgree(s, u, i, PrimitiveEnd(s, i))
<1>1. CASE \E lit \in Literals : s[i] = lit[1]
  <2> DEFINE lit == CHOOSE l \in Literals : s[i] = l[1]
  <2>1. lit \in Literals /\ s[i] = lit[1]
    BY <1>1
  <2>2. PrimitiveEnd(s, i) = LiteralEnd(s, i, lit)
    BY <1>1 DEF PrimitiveEnd
  <2> HIDE DEF lit
  <2> QED
    BY <2>1, <2>2, LiteralsAgree
<1>2. CASE ~\E lit \in Literals : s[i] = lit[1]
  <2>1. PrimitiveEnd(s, i) = NumberEnd(s, i)
    BY <1>2 DEF PrimitiveEnd
  <2> QED
    BY <1>2, <2>1, NumbersAgree
<1> QED
  BY <1>1, <1>2

-----------------------------------------------------------------------------
(* What stands at a place of a text, character by character.               *)

LEMMA Marked ==
  /\ "}" \notin Spaces /\ "]" \notin Spaces /\ ":" \notin Spaces /\ "," \notin Spaces
  /\ Quote \notin Spaces /\ "{" \notin Spaces /\ "[" \notin Spaces
  BY DEF Spaces, Space, Newline, Quote

LEMMA CloserIs ==
  ASSUME NEW place, NEW c \in Closer(place)
  PROVE  c \in {"}", "]"} /\ c \notin Spaces
  BY Marked DEF Closer

LEMMA SeparatorIs ==
  ASSUME NEW place, NEW c, Separates(place, c)
  PROVE  c \in {":", ","} /\ c \notin Spaces /\ c \notin Closer(place)
<1>1. c \in {":", ","}
  BY DEF Separates
<1>2. c \notin Spaces
  BY <1>1, Marked
<1> QED
  BY <1>1, <1>2 DEF Closer

LEMMA AtEnd ==
  ASSUME NEW u \in Seq(STRING), NEW place \in TextPlaces, NEW i \in Positions, i > Len(u)
  PROVE  Rest(place, u, i) = IF place = TopLevel THEN Empty(i) ELSE Unreadable
  BY RestIs DEF RestStep

LEMMA AtSpace ==
  ASSUME NEW u \in Seq(STRING), NEW place \in TextPlaces, NEW i \in Positions, i <= Len(u), u[i] \in Spaces
  PROVE  Rest(place, u, i) = Rest(place, u, i + 1)
<1>1. ~(i > Len(u))
  BY DEF Positions
<1> QED
  BY <1>1, RestIs DEF RestStep, Rest

LEMMA AtCloser ==
  ASSUME NEW u \in Seq(STRING), NEW place \in TextPlaces, NEW i \in Positions, i <= Len(u), u[i] \in Closer(place)
  PROVE  Rest(place, u, i) = Empty(i + 1)
<1>1. ~(i > Len(u))
  BY DEF Positions
<1>2. u[i] \notin Spaces
  BY CloserIs
<1> QED
  BY <1>1, <1>2, RestIs DEF RestStep

LEMMA AtSeparator ==
  ASSUME NEW u \in Seq(STRING), NEW place \in TextPlaces, NEW i \in Positions, i <= Len(u), Separates(place, u[i])
  PROVE  Rest(place, u, i) = Rest(AfterSeparator(place), u, i + 1)
<1>1. ~(i > Len(u))
  BY DEF Positions
<1>2. u[i] \notin Spaces /\ u[i] \notin Closer(place)
  BY SeparatorIs
<1> QED
  BY <1>1, <1>2, RestIs DEF RestStep, Rest

(* What follows the bracket at i, if one is there.                         *)
Inside(u, i) == Rest(FirstPlace(u[i]), u, i + 1)

AtItemOf(place, u, i, item) ==
  Rest(place, u, i) = IF item.end = 0 THEN Unreadable ELSE Followed(item, Rest(AfterItem(place), u, item.end))

LEMMA AtItem ==
  ASSUME NEW u \in Seq(STRING), NEW place \in TextPlaces, NEW i \in Positions, i <= Len(u),
         u[i] \notin Spaces, u[i] \notin Closer(place), ~Separates(place, u[i])
  PROVE  AtItemOf(place, u, i, ItemAt(place, u, i, Inside(u, i)))
<1>1. ~(i > Len(u))
  BY DEF Positions
<1> QED
  BY <1>1, RestIs DEF RestStep, Rest, Inside, AtItemOf

Misplaced(place, c) ==
  \/ c \in {"}", "]"} /\ c \notin Closer(place)
  \/ c \in {":", ","} /\ ~Separates(place, c)
  \/ /\ c \notin Spaces \cup Marks
     /\ place \notin ValuePlaces
     /\ ~(c = Quote /\ place \in KeyPlaces)

LEMMA KeysAreNoValues == KeyPlaces \cap ValuePlaces = {}
  BY DEF KeyPlaces, ValuePlaces, TopLevel

LEMMA NoItem ==
  ASSUME NEW u \in Seq(STRING), NEW place, NEW i \in Positions, NEW inside,
         u[i] \in Marks \/ (place \notin ValuePlaces /\ ~(u[i] = Quote /\ place \in KeyPlaces))
  PROVE  ItemAt(place, u, i, inside) = Unreadable
<1>1. CASE u[i] \in Marks
  <2>1. u[i] # "{" /\ u[i] # "[" /\ u[i] # Quote
    BY <1>1 DEF Marks, Quote
  <2>2. PrimitiveAt(u, i) = Unreadable
    BY <1>1, NotPrimitive
  <2> QED
    BY <2>1, <2>2 DEF ItemAt
<1>2. CASE place \notin ValuePlaces /\ ~(u[i] = Quote /\ place \in KeyPlaces)
  BY <1>2 DEF ItemAt
<1> QED
  BY <1>1, <1>2

LEMMA AtMisplaced ==
  ASSUME NEW u \in Seq(STRING), NEW place \in TextPlaces, NEW i \in Positions, i <= Len(u), Misplaced(place, u[i])
  PROVE  Rest(place, u, i).end = 0
<1>1. u[i] \notin Spaces
  BY Marked DEF Misplaced
<1>2. u[i] \notin Closer(place)
  BY CloserIs DEF Misplaced, Marks
<1>3. ~Separates(place, u[i])
  BY SeparatorIs DEF Misplaced, Marks
<1>4. u[i] \in Marks \/ (place \notin ValuePlaces /\ ~(u[i] = Quote /\ place \in KeyPlaces))
  BY DEF Misplaced, Marks
<1>5. ItemAt(place, u, i, Inside(u, i)) = Unreadable
  BY <1>4, NoItem
<1>6. Unreadable.end = 0
  BY DEF Unreadable
<1> QED
  BY <1>1, <1>2, <1>3, <1>5, <1>6, AtItem DEF AtItemOf

(* A value, or a key, where one may stand.                                 *)
LEMMA AtFit ==
  ASSUME NEW u \in Seq(STRING), NEW place \in TextPlaces, NEW i \in Positions, i <= Len(u),
         u[i] \notin Spaces \cup Marks
  PROVE  AtItemOf(place, u, i, ItemAt(place, u, i, Inside(u, i)))
<1>1. u[i] \notin Closer(place)
  BY CloserIs DEF Marks
<1>2. ~Separates(place, u[i])
  BY SeparatorIs DEF Marks
<1> QED
  BY <1>1, <1>2, AtItem

LEMMA AtKey ==
  ASSUME NEW u \in Seq(STRING), NEW place \in KeyPlaces, NEW i \in Positions, i <= Len(u), u[i] = Quote
  PROVE  AtItemOf(place, u, i, StringAt(u, i, 0))
<1>1. place \in TextPlaces
  BY DEF KeyPlaces, TextPlaces, ObjectStates
<1>2. u[i] \notin Spaces \cup Marks
  BY Marked DEF Marks, Quote
<1>3. ItemAt(place, u, i, Inside(u, i)) = StringAt(u, i, 0)
  BY DEF ItemAt
<1> QED
  BY <1>1, <1>2, <1>3, AtFit

LEMMA ValuePlacesArePlaces == ValuePlaces \subseteq TextPlaces
  BY DEF ValuePlaces, TextPlaces, ObjectStates, ArrayStates

LEMMA AtString ==
  ASSUME NEW u \in Seq(STRING), NEW place \in ValuePlaces, NEW i \in Positions, i <= Len(u), u[i] = Quote
  PROVE  AtItemOf(place, u, i, StringAt(u, i, 1))
<1>1. place \in TextPlaces /\ place \notin KeyPlaces
  BY KeysAreNoValues, ValuePlacesArePlaces
<1>2. u[i] \notin Spaces \cup Marks
  BY Marked DEF Marks, Quote
<1>3. ItemAt(place, u, i, Inside(u, i)) = StringAt(u, i, 1)
  BY <1>1 DEF ItemAt, Quote
<1> QED
  BY <1>1, <1>2, <1>3, AtFit

LEMMA AtPrimitive ==
  ASSUME NEW u \in Seq(STRING), NEW place \in ValuePlaces, NEW i \in Positions, i <= Len(u),
         u[i] \notin Spaces \cup Marks, u[i] \notin {"{", "[", Quote}
  PROVE  AtItemOf(place, u, i, PrimitiveAt(u, i))
<1>1. place \in TextPlaces /\ place \notin KeyPlaces
  BY KeysAreNoValues, ValuePlacesArePlaces
<1>3. ItemAt(place, u, i, Inside(u, i)) = PrimitiveAt(u, i)
  BY <1>1 DEF ItemAt
<1> QED
  BY <1>1, <1>3, AtFit

LEMMA AtOpener ==
  ASSUME NEW u \in Seq(STRING), NEW place \in ValuePlaces, NEW i \in Positions, i <= Len(u)
  PROVE  /\ u[i] = "{" => AtItemOf(place, u, i, ContainerOf(JSTOK_OBJECT, i, Rest("KEY_OR_END", u, i + 1)))
         /\ u[i] = "[" => AtItemOf(place, u, i, ContainerOf(JSTOK_ARRAY, i, Rest("VALUE_OR_END", u, i + 1)))
<1>1. place \in TextPlaces /\ place \notin KeyPlaces
  BY KeysAreNoValues, ValuePlacesArePlaces
<1>2. u[i] \in {"{", "["} => u[i] \notin Spaces \cup Marks
  BY Marked DEF Marks
<1>3. u[i] = "{" => ItemAt(place, u, i, Inside(u, i)) = ContainerOf(JSTOK_OBJECT, i, Rest("KEY_OR_END", u, i + 1))
  BY <1>1 DEF ItemAt, Inside, FirstPlace
<1>4. u[i] = "[" => ItemAt(place, u, i, Inside(u, i)) = ContainerOf(JSTOK_ARRAY, i, Rest("VALUE_OR_END", u, i + 1))
  BY <1>1 DEF ItemAt, Inside, FirstPlace
<1> QED
  BY <1>1, <1>2, <1>3, <1>4, AtFit

(* A literal that goes on where it should end: nothing can follow it in    *)
(* its container.                                                          *)
LEMMA AtTail ==
  ASSUME NEW u \in Seq(STRING), NEW place \in ValuePlaces, place # TopLevel,
         NEW i \in Positions, i <= Len(u), ~IsDelim(u[i])
  PROVE  Rest(AfterItem(place), u, i).end = 0
<1>1. AfterItem(place) \in {"ARR_COMMA_OR_END", "OBJ_COMMA_OR_END"}
  BY DEF AfterItem, ValuePlaces, KeyPlaces, TopLevel
<1>2. AfterItem(place) \in TextPlaces /\ AfterItem(place) \notin ValuePlaces /\ AfterItem(place) \notin KeyPlaces
  BY <1>1 DEF TextPlaces, ObjectStates, ArrayStates, ValuePlaces, KeyPlaces, TopLevel
<1>3. u[i] \notin Spaces /\ u[i] # "," /\ u[i] # "}" /\ u[i] # "]"
  BY DEF IsDelim
<1>4. u[i] = ":" => ~Separates(AfterItem(place), u[i])
  BY <1>1 DEF Separates
<1>5. Misplaced(AfterItem(place), u[i])
  BY <1>2, <1>3, <1>4 DEF Misplaced, Marks
<1> QED
  BY <1>2, <1>5, AtMisplaced

-----------------------------------------------------------------------------
(* A scalar, and what the turn of the loop that scans it found: the same   *)
(* end, or none in either.                                                 *)

Text(s, u) == s \in Seq(STRING) /\ u \in Seq(STRING) /\ Begins(s, u)

(* What comes after what ends before j cannot be read, or what is shown    *)
(* ends there, outside all containers.                                     *)
Astray(s, u, place, j) ==
  \/ Rest(AfterItem(place), u, j).end = 0
  \/ place = TopLevel /\ j = Len(s) + 1 /\ Len(u) > Len(s)

ScalarRead(s, u, place, i, end, next, t, count) ==
  LET rest == Rest(place, u, i)
  IN /\ end >= 0 => \/ rest = Followed(ItemOf(next, t, count), Rest(AfterItem(place), u, next))
                    \/ rest.end = 0 /\ Astray(s, u, place, next)
     /\ end = INVAL => rest.end = 0
     /\ end = PART /\ u = s => rest.end = 0

LEMMA ItemRead ==
  ASSUME NEW u, NEW place, NEW i, NEW item, AtItemOf(place, u, i, item)
  PROVE  /\ item.end = 0 => Rest(place, u, i).end = 0
         /\ item.end # 0 => Rest(place, u, i) = Followed(item, Rest(AfterItem(place), u, item.end))
<1>1. Unreadable.end = 0
  BY DEF Unreadable
<1> QED
  BY <1>1 DEF AtItemOf

LEMMA StringRead ==
  ASSUME NEW s, NEW u, Text(s, u), NEW place, NEW i \in 1 .. Len(s), NEW count,
         AtItemOf(place, u, i, StringAt(u, i, count))
  PROVE  LET end == StringEnd(s, i + 1)
         IN ScalarRead(s, u, place, i, end, end + 1, TokenOf(JSTOK_STRING, i + 1, end, 0), count)
<1> DEFINE end == StringEnd(s, i + 1)
           close == StringClose(u, i + 1)
           t(e) == TokenOf(JSTOK_STRING, i + 1, e, 0)
           rest == Rest(place, u, i)
<1>1. s \in Seq(STRING) /\ u \in Seq(STRING) /\ Begins(s, u)
  BY DEF Text
<1>2. i + 1 \in Positions /\ i + 1 <= Len(s) + 1
  <2>1. Len(s) \in Nat
    BY <1>1
  <2> QED
    BY <2>1 DEF Positions
<1>3. Agrees(s, u, end, close)
  BY <1>1, <1>2, StringsAgree
<1>4. close \in Nat /\ (close # 0 => close \in i + 1 .. Len(u))
  BY <1>1, <1>2, CloseType
<1>5. close = 0 => rest.end = 0
  <2>1. close = 0 => StringAt(u, i, count).end = 0
    BY DEF StringAt, Unreadable
  <2> QED
    BY <2>1, ItemRead
<1>6. close # 0 => rest = Followed(ItemOf(close + 1, t(close), count), Rest(AfterItem(place), u, close + 1))
  <2> SUFFICES ASSUME close # 0
               PROVE  rest = Followed(ItemOf(close + 1, t(close), count), Rest(AfterItem(place), u, close + 1))
    OBVIOUS
  <2>1. StringAt(u, i, count) = ItemOf(close + 1, t(close), count)
    BY DEF StringAt, ItemOf
  <2>2. StringAt(u, i, count).end = close + 1
    BY <2>1 DEF ItemOf
  <2>3. close + 1 # 0
    BY <1>4
  <2>4. rest = Followed(StringAt(u, i, count), Rest(AfterItem(place), u, StringAt(u, i, count).end))
    <3>1. StringAt(u, i, count).end # 0
      BY <2>2, <2>3
    <3> HIDE DEF close
    <3> QED
      BY <3>1, ItemRead
  <2> QED
    BY <2>1, <2>2, <2>4
<1>7. end # INVAL => Rest(AfterItem(place), u, end + 1) = Rest(AfterItem(place), u, end + 1)
  OBVIOUS
<1>8. end \in ScanErrors \cup i + 1 .. Len(s)
  BY <1>1, <1>2, StringEnds DEF Positions
<1> HIDE DEF end, close, rest, t
<1>9. end >= 0 => close = end /\ close # 0
  <2>1. end >= 0 => end \in i + 1 .. Len(s)
    BY <1>8 DEF ScanErrors, PART, INVAL
  <2>2. i \in Nat
    BY <1>1
  <2> QED
    BY <1>3, <2>1, <2>2 DEF Agrees
<1>10. ScalarRead(s, u, place, i, end, end + 1, t(end), count)
  BY <1>3, <1>5, <1>6, <1>9 DEF ScalarRead, Agrees, rest
<1> QED
  BY <1>10 DEF end, t

LEMMA PrimitiveRead ==
  ASSUME NEW s, NEW u, Text(s, u), NEW place \in ValuePlaces, NEW i \in 1 .. Len(s),
         AtItemOf(place, u, i, PrimitiveAt(u, i))
  PROVE  LET end == PrimitiveEnd(s, i)
         IN ScalarRead(s, u, place, i, end, end, TokenOf(JSTOK_PRIMITIVE, i, end, 0), 1)
<1> DEFINE end == PrimitiveEnd(s, i)
           rest == Rest(place, u, i)
           after(e) == Rest(AfterItem(place), u, e)
           t(e) == TokenOf(JSTOK_PRIMITIVE, i, e, 0)
<1>1. s \in Seq(STRING) /\ u \in Seq(STRING) /\ Begins(s, u) /\ Len(s) \in Nat /\ Len(u) \in Nat
  BY DEF Text
<1>2. PrimitivesAgree(s, u, i, end)
  BY <1>1, PrimitivesAgreeAlways
<1>3. PrimitiveAt(u, i) = Unreadable => rest.end = 0
  BY ItemRead DEF Unreadable
<1> HIDE DEF end
<1>4. ASSUME end >= 0, PrimitiveAt(u, i) = PrimitiveOf(i, end), end \in i + 1 .. Len(s) + 1
      PROVE  rest = Followed(ItemOf(end, t(end), 1), after(end))
  <2>1. PrimitiveAt(u, i) = ItemOf(end, t(end), 1)
    BY <1>4 DEF PrimitiveOf
  <2>2. PrimitiveAt(u, i).end = end
    BY <2>1 DEF ItemOf
  <2>3. end # 0
    BY <1>1, <1>4
  <2>4. rest = Followed(PrimitiveAt(u, i), after(PrimitiveAt(u, i).end))
    BY <2>2, <2>3, ItemRead
  <2> QED
    BY <2>1, <2>2, <2>4
<1>5. ASSUME end >= 0, PrimitiveAt(u, i) = Unreadable, end = Len(s) + 1, end <= Len(u), ~IsDelim(u[end])
      PROVE  rest.end = 0 /\ Astray(s, u, place, end)
  <2>1. rest.end = 0
    BY <1>3, <1>5
  <2>2. end \in Positions /\ Len(u) > Len(s)
    BY <1>1, <1>5 DEF Positions
  <2>3. CASE place = TopLevel
    BY <1>5, <2>1, <2>2, <2>3 DEF Astray
  <2>4. CASE place # TopLevel
    BY <1>1, <1>5, <2>1, <2>2, <2>4, AtTail DEF Astray
  <2> QED
    BY <2>3, <2>4
<1> HIDE DEF rest, after, t
<1>6. end >= 0 => \/ rest = Followed(ItemOf(end, t(end), 1), after(end))
                  \/ rest.end = 0 /\ Astray(s, u, place, end)
  BY <1>2, <1>4, <1>5 DEF PrimitivesAgree
<1>7. (end = INVAL => rest.end = 0) /\ (end = PART /\ u = s => rest.end = 0)
  BY <1>2, <1>3 DEF PrimitivesAgree
<1>8. ScalarRead(s, u, place, i, end, end, t(end), 1)
  BY <1>6, <1>7 DEF ScalarRead, rest, after
<1> QED
  BY <1>8 DEF end, t

(* The turn does not change what will have been read.                      *)
LEMMA ScalarFinishes ==
  ASSUME NEW s, NEW u, Text(s, u), NEW k \in Nat, NEW f \in OpenFrame, NEW i \in Positions,
         NEW T \in Seq(Token), NEW d \in Nat, f.tok <= Len(T),
         NEW end, end >= 0, NEW j \in Positions, NEW t \in Token, NEW count \in Nat,
         ScalarRead(s, u, f.st, i, end, j, t, count),
         f.st = TopLevel /\ j = Len(s) + 1 => Len(u) = Len(s)
  PROVE  Finish(u, k, f, ConfigOf(i, T, d))
           = Finish(u, k, [st |-> AfterItem(f.st), tok |-> f.tok], ConfigOf(j, Append(Grown(T, f.tok, count), t), d))
<1> DEFINE g == [st |-> AfterItem(f.st), tok |-> f.tok]
           L == Append(Grown(T, f.tok, count), t)
<1>1. f.st \in TextPlaces /\ f.tok \in Nat /\ u \in Seq(STRING) /\ s \in Seq(STRING)
  BY DEF OpenFrame, Text
<1>2. AfterItem(f.st) \in TextPlaces
  BY <1>1, NextPlaces
<1>3. CASE Rest(f.st, u, i) = Followed(ItemOf(j, t, count), Rest(AfterItem(f.st), u, j))
  BY <1>1, <1>2, <1>3, Took
<1>4. CASE Rest(f.st, u, i).end = 0 /\ Astray(s, u, f.st, j)
  <2>1. Len(s) \in Nat /\ Len(u) \in Nat
    BY <1>1
  <2>2. Rest(AfterItem(f.st), u, j).end = 0
    BY <1>4, <2>1 DEF Astray
  <2>3. g \in OpenFrame /\ g.st = AfterItem(f.st)
    BY <1>1, <1>2 DEF OpenFrame
  <2>4. L \in Seq(Token)
    BY <1>1, GrownType
  <2> HIDE DEF g, L
  <2>5. Finish(u, k, g, ConfigOf(j, L, d)) = Lost
    BY <2>2, <2>3, <2>4, Lose
  <2>6. Finish(u, k, f, ConfigOf(i, T, d)) = Lost
    BY <1>4, Lose
  <2> QED
    BY <2>5, <2>6 DEF g, L
<1> QED
  BY <1>3, <1>4 DEF ScalarRead

-----------------------------------------------------------------------------
(* What a reading has at least.                                            *)

LEMMA ItemAdds ==
  ASSUME NEW u \in Seq(STRING), NEW place \in TextPlaces, NEW i \in Positions, NEW item \in Stretch,
         AtItemOf(place, u, i, item), Rest(place, u, i).end # 0
  PROVE  Len(Rest(place, u, i).tokens) >= Len(item.tokens) /\ Rest(place, u, i).depth >= item.depth
<1> DEFINE r == Rest(AfterItem(place), u, item.end)
           a == Rest(place, u, i)
<1>1. item.end # 0 /\ a = Followed(item, r)
  BY ItemRead
<1>2. item.end \in Positions
  BY <1>1 DEF Stretch, Positions
<1>3. r \in Stretch
  BY <1>2, NextPlaces, RestType DEF Behind
<1>4. PICK e \in Nat, q \in Seq(Token), c \in Nat, m \in Nat :
         r.end = e /\ r.tokens = q /\ r.count = c /\ r.depth = m
  BY <1>3, Parts
<1>5. PICK ie \in Nat, iq \in Seq(Token), ic \in Nat, im \in Nat :
         item.end = ie /\ item.tokens = iq /\ item.count = ic /\ item.depth = im
  BY Parts
<1> HIDE DEF r, a
<1>6. a.tokens = iq \o q /\ a.depth = Larger(im, m)
  <2>1. a.end # 0
    BY DEF a
  <2>2. r.end # 0
    BY <1>1, <2>1 DEF Followed, Unreadable
  <2> QED
    BY <1>1, <1>4, <1>5, <2>2 DEF Followed
<1>7. Len(iq \o q) >= Len(iq)
  OBVIOUS
<1>8. Larger(im, m) >= im
  BY DEF Larger
<1> QED
  BY <1>5, <1>6, <1>7, <1>8 DEF a

LEMMA ItemHasToken ==
  ASSUME NEW u \in Seq(STRING), NEW place \in TextPlaces, NEW i \in Positions, NEW inside,
         Behind(inside, i + 1), ItemAt(place, u, i, inside).end # 0
  PROVE  Len(ItemAt(place, u, i, inside).tokens) >= 1
<1> DEFINE item == ItemAt(place, u, i, inside)
<1>1. \A count : StringAt(u, i, count).end # 0 => Len(StringAt(u, i, count).tokens) >= 1
  <2>1. \A count : StringAt(u, i, count).end # 0 => Len(StringAt(u, i, count).tokens) = 1
    BY DEF StringAt, Unreadable
  <2> QED
    BY <2>1
<1>2. PrimitiveAt(u, i).end # 0 => Len(PrimitiveAt(u, i).tokens) >= 1
  <2> DEFINE p == PrimitiveAt(u, i)
  <2>1. p.end # 0 => Len(p.tokens) = 1
    BY DEF PrimitiveAt, Unreadable
  <2> HIDE DEF p
  <2>2. ASSUME p.end # 0 PROVE Len(p.tokens) >= 1
    <3>1. Len(p.tokens) = 1
      BY <2>1, <2>2
    <3> QED
      BY <3>1
  <2> QED
    BY <2>2 DEF p
<1>3. \A type \in Types : ContainerOf(type, i, inside).end # 0 => Len(ContainerOf(type, i, inside).tokens) >= 1
  <2> SUFFICES ASSUME NEW type \in Types, ContainerOf(type, i, inside).end # 0
               PROVE  Len(ContainerOf(type, i, inside).tokens) >= 1
    OBVIOUS
  <2> DEFINE t == TokenOf(type, i, inside.end, inside.count)
             q == inside.tokens
  <2>1. q \in Seq(Token)
    BY DEF Behind, Stretch
  <2>2. ContainerOf(type, i, inside).tokens = << t >> \o q
    BY DEF ContainerOf, Unreadable
  <2> HIDE DEF q
  <2>3. t \in Token
    BY DEF Behind, Stretch, TokenOf, Token, Positions
  <2> HIDE DEF t
  <2>4. Len(<< t >> \o q) = 1 + Len(q) /\ Len(q) \in Nat
    BY <2>1, <2>3
  <2> QED
    BY <2>2, <2>4
<1>4. JSTOK_OBJECT \in Types /\ JSTOK_ARRAY \in Types
  BY DEF Types
<1>5. Unreadable.end = 0
  BY DEF Unreadable
<1>6. \/ item = Unreadable
      \/ \E count : item = StringAt(u, i, count)
      \/ item = PrimitiveAt(u, i)
      \/ \E type \in Types : item = ContainerOf(type, i, inside)
  BY <1>4 DEF ItemAt
<1> HIDE DEF item
<1>7. item.end # 0
  BY DEF item
<1>8. Len(item.tokens) >= 1
  BY <1>1, <1>2, <1>3, <1>5, <1>6, <1>7
<1> QED
  BY <1>8 DEF item

LEMMA FitAdds ==
  ASSUME NEW u \in Seq(STRING), NEW place \in TextPlaces, NEW i \in Positions, i <= Len(u),
         u[i] \notin Spaces \cup Marks, Rest(place, u, i).end # 0
  PROVE  Len(Rest(place, u, i).tokens) >= 1
<1> DEFINE inside == Inside(u, i)
           item == ItemAt(place, u, i, inside)
<1>1. AtItemOf(place, u, i, item)
  BY AtFit
<1>2. Behind(inside, i + 1)
  <2>1. i + 1 \in Positions
    BY DEF Positions
  <2> QED
    BY <2>1, NextPlaces, RestType DEF Inside
<1> HIDE DEF inside
<1>3. item \in Stretch
  BY <1>2, ItemType DEF Behind
<1>4. item.end # 0
  BY <1>1, ItemRead
<1>5. Len(item.tokens) >= 1
  BY <1>2, <1>4, ItemHasToken
<1>6. Len(Rest(place, u, i).tokens) >= Len(item.tokens)
  <2> HIDE DEF item
  <2> QED
    BY <1>1, <1>3, ItemAdds
<1>7. Rest(place, u, i).tokens \in Seq(Token) /\ item.tokens \in Seq(Token)
  <2>1. Rest(place, u, i) \in Stretch
    BY RestType DEF Behind
  <2> HIDE DEF item
  <2> QED
    BY <1>3, <2>1 DEF Stretch
<1> HIDE DEF item
<1> QED
  BY <1>5, <1>6, <1>7

Openers == {"{", "["}

LEMMA OpenerAdds ==
  ASSUME NEW u \in Seq(STRING), NEW place \in ValuePlaces, NEW i \in Positions, i <= Len(u),
         u[i] \in Openers, Rest(place, u, i).end # 0
  PROVE  Rest(place, u, i).depth >= 1
<1> DEFINE first == FirstPlace(u[i])
           type == IF u[i] = "{" THEN JSTOK_OBJECT ELSE JSTOK_ARRAY
           inside == Rest(first, u, i + 1)
           item == ContainerOf(type, i, inside)
<1>1. AtItemOf(place, u, i, item)
  BY AtOpener DEF FirstPlace, Openers
<1>2. Behind(inside, i + 1) /\ type \in Types
  <2>1. i + 1 \in Positions
    BY DEF Positions
  <2>2. first \in TextPlaces
    BY NextPlaces, ValuePlacesArePlaces
  <2> QED
    BY <2>1, <2>2, RestType DEF Types
<1> HIDE DEF inside, type
<1>3. item \in Stretch
  BY <1>2, ContainerType DEF Behind
<1>4. item.end # 0
  BY <1>1, ItemRead
<1>5. item.depth = 1 + inside.depth /\ inside.depth \in Nat
  BY <1>2, <1>4 DEF ContainerOf, Unreadable, Behind, Stretch
<1>6. Rest(place, u, i).depth >= item.depth
  <2> HIDE DEF item
  <2> QED
    BY <1>1, <1>3, ItemAdds, ValuePlacesArePlaces
<1>7. Rest(place, u, i).depth \in Nat
  BY RestType, ValuePlacesArePlaces DEF Behind, Stretch
<1> QED
  BY <1>5, <1>6, <1>7

-----------------------------------------------------------------------------
(* What the parser has come to tells what it will have read.  The frames   *)
(* are those of its stack, with the text itself around them, and the       *)
(* tokens its own; a parser that only counts has neither the tokens nor    *)
(* their places, but there are some that it counted.                       *)

Cut(txt, n) == SubSeq(txt, 1, n)
PlaceOf(stk) == IF stk = << >> THEN TopLevel ELSE stk[Len(stk)].st
TokOf(stk) == IF stk = << >> THEN 0 ELSE stk[Len(stk)].tok

Mirrors(G, T, stk, toks, n, counting) ==
  /\ G \in Seq(OpenFrame) /\ Len(G) = Len(stk) + 1 /\ G[1] = Root
  /\ \A k \in 1 .. Len(stk) : /\ G[k + 1].st = stk[k].st /\ G[k + 1].tok \in 1 .. Len(T)
                              /\ ~counting => G[k + 1].tok = stk[k].tok
  /\ T \in Seq(Token) /\ Len(T) = n
  /\ ~counting => T = toks

(* However far the text goes on; but a literal that ends what is shown of  *)
(* a text outside all containers may not end there.                        *)
Covered(txt, n0, stk, p) == {m \in n0 .. Len(txt) : m = n0 \/ stk # << >> \/ p <= n0}

Tells(F, X, txt, N) == \A m \in N : Completes(Cut(txt, m), F, X, Whole(Cut(txt, m)))

Told(stk, toks, n, p, txt, n0, counting) ==
  \E G, T, d : /\ d \in Nat /\ d <= MaxDepth
               /\ Mirrors(G, T, stk, toks, n, counting)
               /\ Tells(G, ConfigOf(p, T, d), txt, Covered(txt, n0, stk, p))

(* The innermost frame on its own.                                         *)
Innermost(B, f, T, stk, counting) ==
  /\ B \in Seq(OpenFrame) /\ Len(B) = Len(stk) /\ f \in OpenFrame /\ T \in Seq(Token)
  /\ f.st = PlaceOf(stk) /\ f.tok \in 0 .. Len(T)
  /\ stk = << >> => f = Root
  /\ ~counting => f.tok = TokOf(stk)

LEMMA TopOfFrames ==
  ASSUME NEW stk \in Seq(Frame), NEW G, NEW T, NEW toks, NEW n, NEW counting, Mirrors(G, T, stk, toks, n, counting)
  PROVE  \E B, f : G = Append(B, f) /\ Innermost(B, f, T, stk, counting)
<1> DEFINE k == Len(stk)
           B == SubSeq(G, 1, k)
           f == G[k + 1]
<1>1. k \in Nat /\ G \in Seq(OpenFrame) /\ Len(G) = k + 1 /\ T \in Seq(Token)
  BY DEF Mirrors
<1>2. \A j \in 1 .. k : /\ G[j + 1].st = stk[j].st /\ G[j + 1].tok \in 1 .. Len(T)
                        /\ ~counting => G[j + 1].tok = stk[j].tok
  BY DEF Mirrors
<1>3. G[1] = Root
  BY DEF Mirrors
<1>4. stk = << >> <=> k = 0
  OBVIOUS
<1>k. k = Len(stk)
  OBVIOUS
<1> HIDE DEF k
<1>5. B \in Seq(OpenFrame) /\ Len(B) = k /\ f \in OpenFrame /\ G = Append(B, f)
  BY <1>1
<1> HIDE DEF B
<1>6. f.st = PlaceOf(stk) /\ f.tok \in 0 .. Len(T) /\ (stk = << >> => f = Root) /\ (~counting => f.tok = TokOf(stk))
  <2>1. CASE k = 0
    <3>1. f = Root /\ stk = << >>
      BY <1>3, <1>4, <2>1
    <3>2. f.st = TopLevel /\ f.tok = 0
      BY <3>1 DEF Root
    <3>3. Len(T) \in Nat
      BY <1>1
    <3> QED
      BY <3>1, <3>2, <3>3 DEF PlaceOf, TokOf
  <2>2. CASE k # 0
    <3>1. k \in 1 .. k /\ stk # << >>
      BY <1>1, <1>4, <2>2
    <3>2. f.st = stk[k].st /\ f.tok \in 1 .. Len(T) /\ (~counting => f.tok = stk[k].tok)
      BY <1>2, <3>1
    <3>3. Len(T) \in Nat
      BY <1>1
    <3> HIDE DEF f
    <3> QED
      BY <1>k, <3>1, <3>2, <3>3 DEF PlaceOf, TokOf
  <2> QED
    BY <2>1, <2>2
<1> HIDE DEF f
<1>7. Innermost(B, f, T, stk, counting)
  BY <1>1, <1>k, <1>5, <1>6 DEF Innermost
<1> QED
  BY <1>5, <1>7

(* The same frames, the innermost at another place.                        *)
Retopped(stk, stk2, place) ==
  /\ Len(stk2) = Len(stk)
  /\ \A k \in 1 .. Len(stk) - 1 : stk2[k] = stk[k]
  /\ IF stk = << >> THEN place = TopLevel
     ELSE stk2[Len(stk)].st = place /\ stk2[Len(stk)].tok = stk[Len(stk)].tok

Tokened(T2, toks2, n2, counting) == T2 \in Seq(Token) /\ Len(T2) = n2 /\ (~counting => T2 = toks2)

LEMMA MirrorsRetopped ==
  ASSUME NEW stk \in Seq(Frame), NEW B, NEW f, NEW T, NEW toks, NEW n, NEW counting,
         Mirrors(Append(B, f), T, stk, toks, n, counting), Innermost(B, f, T, stk, counting),
         NEW stk2, NEW place \in TextPlaces, Retopped(stk, stk2, place),
         NEW T2, NEW toks2, NEW n2, Tokened(T2, toks2, n2, counting), Len(T2) >= Len(T)
  PROVE  Mirrors(Append(B, [st |-> place, tok |-> f.tok]), T2, stk2, toks2, n2, counting)
<1> DEFINE k == Len(stk)
           g == [st |-> place, tok |-> f.tok]
           G == Append(B, f)
           H == Append(B, g)
<1>1. k \in Nat /\ B \in Seq(OpenFrame) /\ Len(B) = k /\ f \in OpenFrame /\ T \in Seq(Token) /\ T2 \in Seq(Token)
      /\ Len(stk2) = k
  BY DEF Innermost, Tokened, Retopped
<1>2. g \in OpenFrame /\ g.st = place /\ g.tok = f.tok
  BY <1>1 DEF OpenFrame
<1>3. /\ G[k + 1] = f /\ Len(G) = k + 1
      /\ \A j \in 1 .. k : G[j] = B[j]
  <2>1. B \in Seq(OpenFrame) /\ Len(B) = k /\ f \in OpenFrame /\ k \in Nat
    BY <1>1
  <2> HIDE DEF k
  <2> QED
    BY <2>1
<1>4. H \in Seq(OpenFrame) /\ H[k + 1] = g /\ Len(H) = k + 1 /\ \A j \in 1 .. k : H[j] = B[j]
  <2> HIDE DEF g
  <2> QED
    BY <1>1, <1>2
<1>5. G[1] = Root /\ \A j \in 1 .. k : /\ G[j + 1].st = stk[j].st /\ G[j + 1].tok \in 1 .. Len(T)
                                       /\ ~counting => G[j + 1].tok = stk[j].tok
  BY DEF Mirrors
<1>6. stk = << >> <=> k = 0
  OBVIOUS
<1>k. k = Len(stk)
  OBVIOUS
<1> HIDE DEF k, G, H
<1>7. H[1] = Root
  <2>1. CASE k = 0
    <3>1. f = Root /\ place = TopLevel
      BY <1>6, <2>1 DEF Innermost, Retopped
    <3>2. g = Root
      BY <3>1 DEF Root
    <3> QED
      BY <1>4, <2>1, <3>2
  <2>2. CASE k # 0
    <3>1. 1 \in 1 .. k
      BY <1>1, <2>2
    <3> QED
      BY <1>3, <1>4, <1>5, <3>1
  <2> QED
    BY <2>1, <2>2
<1> HIDE DEF g
<1>8. Len(T) \in Nat /\ Len(T2) \in Nat
  BY <1>1
<1>9. ASSUME NEW j \in 1 .. k
      PROVE  /\ H[j + 1].st = stk2[j].st /\ H[j + 1].tok \in 1 .. Len(T2)
             /\ ~counting => H[j + 1].tok = stk2[j].tok
  <2>1. CASE j = k
    <3>1. stk # << >> /\ stk2[k].st = place /\ stk2[k].tok = stk[k].tok
      BY <1>1, <1>6, <1>k, <2>1 DEF Retopped
    <3>2. f.tok \in 1 .. Len(T) /\ (~counting => f.tok = stk[k].tok)
      BY <1>3, <1>5, <2>1
    <3> QED
      BY <1>2, <1>4, <1>8, <2>1, <3>1, <3>2
  <2>2. CASE j # k
    <3>1. j + 1 \in 1 .. k /\ j \in 1 .. k - 1
      BY <1>1, <2>2
    <3>2. H[j + 1] = G[j + 1] /\ stk2[j] = stk[j]
      BY <1>3, <1>4, <1>k, <3>1 DEF Retopped
    <3> QED
      BY <1>5, <1>8, <3>2
  <2> QED
    BY <2>1, <2>2
<1>10. Mirrors(H, T2, stk2, toks2, n2, counting)
  <2>1. H \in Seq(OpenFrame) /\ Len(H) = Len(stk2) + 1 /\ H[1] = Root
    BY <1>1, <1>4, <1>7
  <2>2. \A j \in 1 .. Len(stk2) : /\ H[j + 1].st = stk2[j].st /\ H[j + 1].tok \in 1 .. Len(T2)
                                  /\ ~counting => H[j + 1].tok = stk2[j].tok
    BY <1>1, <1>9
  <2>3. T2 \in Seq(Token) /\ Len(T2) = n2 /\ (~counting => T2 = toks2)
    BY DEF Tokened
  <2> QED
    BY <2>1, <2>2, <2>3 DEF Mirrors
<1> QED
  BY <1>10 DEF H, g

LEMMA MirrorsPushed ==
  ASSUME NEW stk, NEW k \in Nat, Len(stk) = k, NEW G, NEW T, NEW toks, NEW n, NEW counting,
         Mirrors(G, T, stk, toks, n, counting),
         NEW h \in OpenFrame, NEW stk2, Len(stk2) = k + 1,
         \A j \in 1 .. k : stk2[j] = stk[j],
         h.st = stk2[k + 1].st, h.tok \in 1 .. Len(T), ~counting => h.tok = stk2[k + 1].tok
  PROVE  Mirrors(Append(G, h), T, stk2, toks, n, counting)
<1> DEFINE H == Append(G, h)
<1>1. G \in Seq(OpenFrame) /\ Len(G) = k + 1 /\ G[1] = Root
  BY DEF Mirrors
<1>2. \A j \in 1 .. k : /\ G[j + 1].st = stk[j].st /\ G[j + 1].tok \in 1 .. Len(T)
                        /\ ~counting => G[j + 1].tok = stk[j].tok
  BY DEF Mirrors
<1>3. H \in Seq(OpenFrame) /\ Len(H) = k + 2 /\ H[k + 2] = h /\ \A j \in 1 .. k + 1 : H[j] = G[j]
  BY <1>1
<1> HIDE DEF H
<1>4. ASSUME NEW j \in 1 .. k + 1
      PROVE  /\ H[j + 1].st = stk2[j].st /\ H[j + 1].tok \in 1 .. Len(T)
             /\ ~counting => H[j + 1].tok = stk2[j].tok
  <2>1. CASE j = k + 1
    <3>1. j + 1 = k + 2
      BY <2>1
    <3> QED
      BY <1>3, <2>1, <3>1
  <2>2. CASE j # k + 1
    <3>1. j \in 1 .. k /\ j + 1 \in 1 .. k + 1
      BY <2>2
    <3> QED
      BY <1>2, <1>3, <3>1
  <2> QED
    BY <2>1, <2>2
<1>5. H[1] = Root
  BY <1>1, <1>3
<1>6. Mirrors(H, T, stk2, toks, n, counting)
  <2>1. H \in Seq(OpenFrame) /\ Len(H) = Len(stk2) + 1 /\ H[1] = Root
    BY <1>3, <1>5
  <2>2. \A j \in 1 .. Len(stk2) : /\ H[j + 1].st = stk2[j].st /\ H[j + 1].tok \in 1 .. Len(T)
                                  /\ ~counting => H[j + 1].tok = stk2[j].tok
    BY <1>4
  <2>3. T \in Seq(Token) /\ Len(T) = n /\ (~counting => T = toks)
    BY DEF Mirrors
  <2> QED
    BY <2>1, <2>2, <2>3 DEF Mirrors
<1> QED
  BY <1>6 DEF H

LEMMA MirrorsPopped ==
  ASSUME NEW stk \in Seq(Frame), stk # << >>, NEW B, NEW f, NEW T, NEW toks, NEW n, NEW counting,
         Mirrors(Append(B, f), T, stk, toks, n, counting), Innermost(B, f, T, stk, counting),
         NEW T2, NEW toks2, NEW n2, Tokened(T2, toks2, n2, counting), Len(T2) = Len(T)
  PROVE  Mirrors(B, T2, SubSeq(stk, 1, Len(stk) - 1), toks2, n2, counting)
<1> DEFINE k == Len(stk)
           G == Append(B, f)
           stk2 == SubSeq(stk, 1, Len(stk) - 1)
<1>1. k \in Nat /\ k >= 1 /\ B \in Seq(OpenFrame) /\ Len(B) = k /\ f \in OpenFrame /\ T2 \in Seq(Token)
  BY DEF Innermost, Tokened
<1>2. \A j \in 1 .. k : G[j] = B[j]
  BY <1>1
<1>3. Len(stk2) = k - 1 /\ \A j \in 1 .. k - 1 : stk2[j] = stk[j]
  BY <1>1
<1>4. G[1] = Root /\ \A j \in 1 .. k : /\ G[j + 1].st = stk[j].st /\ G[j + 1].tok \in 1 .. Len(T)
                                       /\ ~counting => G[j + 1].tok = stk[j].tok
  BY DEF Mirrors
<1> HIDE DEF k, G, stk2
<1>5. \A j \in 1 .. Len(stk2) : /\ B[j + 1].st = stk2[j].st /\ B[j + 1].tok \in 1 .. Len(T2)
                                /\ ~counting => B[j + 1].tok = stk2[j].tok
  <2> SUFFICES ASSUME NEW j \in 1 .. Len(stk2)
               PROVE  /\ B[j + 1].st = stk2[j].st /\ B[j + 1].tok \in 1 .. Len(T2)
                      /\ ~counting => B[j + 1].tok = stk2[j].tok
    OBVIOUS
  <2>1. j \in 1 .. k /\ j + 1 \in 1 .. k /\ j \in 1 .. k - 1
    BY <1>1, <1>3
  <2> QED
    BY <1>2, <1>3, <1>4, <2>1
<1>6. B[1] = Root /\ Len(B) = Len(stk2) + 1
  BY <1>1, <1>2, <1>3, <1>4
<1>7. Mirrors(B, T2, stk2, toks2, n2, counting)
  BY <1>1, <1>5, <1>6 DEF Mirrors, Tokened
<1> QED
  BY <1>7 DEF stk2

-----------------------------------------------------------------------------
(* The turns of the loop.                                                  *)

LEMMA CutIs ==
  ASSUME NEW txt \in Seq(STRING), NEW n \in 0 .. Len(txt), NEW m \in n .. Len(txt)
  PROVE  /\ Cut(txt, m) \in Seq(STRING) /\ Len(Cut(txt, m)) = m
         /\ \A i \in 1 .. m : Cut(txt, m)[i] = txt[i]
         /\ Text(Cut(txt, n), Cut(txt, m))
<1>1. Len(txt) \in Nat
  OBVIOUS
<1>2. /\ Cut(txt, m) \in Seq(STRING) /\ Len(Cut(txt, m)) = m
      /\ \A i \in 1 .. m : Cut(txt, m)[i] = txt[i]
  BY <1>1 DEF Cut
<1>3. /\ Cut(txt, n) \in Seq(STRING) /\ Len(Cut(txt, n)) = n
      /\ \A i \in 1 .. n : Cut(txt, n)[i] = txt[i]
  BY <1>1 DEF Cut
<1>4. Begins(Cut(txt, n), Cut(txt, m))
  BY <1>1, <1>2, <1>3 DEF Begins
<1> QED
  BY <1>2, <1>3, <1>4 DEF Text

Before(B, f, T, d, stk, toks, n, p, txt, n0, counting) ==
  /\ d \in Nat /\ d <= MaxDepth
  /\ Mirrors(Append(B, f), T, stk, toks, n, counting)
  /\ Innermost(B, f, T, stk, counting)
  /\ Tells(Append(B, f), ConfigOf(p, T, d), txt, Covered(txt, n0, stk, p))

LEMMA ToldBefore ==
  ASSUME NEW stk \in Seq(Frame), NEW toks, NEW n, NEW p, NEW txt, NEW n0, NEW counting,
         Told(stk, toks, n, p, txt, n0, counting)
  PROVE  \E B, f, T, d : Before(B, f, T, d, stk, toks, n, p, txt, n0, counting)
<1>1. PICK G, T, d : /\ d \in Nat /\ d <= MaxDepth
                     /\ Mirrors(G, T, stk, toks, n, counting)
                     /\ Tells(G, ConfigOf(p, T, d), txt, Covered(txt, n0, stk, p))
  BY DEF Told
<1>2. PICK B, f : G = Append(B, f) /\ Innermost(B, f, T, stk, counting)
  BY <1>1, TopOfFrames
<1> QED
  BY <1>1, <1>2 DEF Before

LEMMA CoveredLess ==
  ASSUME NEW txt \in Seq(STRING), NEW n0 \in 0 .. Len(txt), NEW stk, NEW p, p <= n0
  PROVE  /\ Covered(txt, n0, stk, p) = n0 .. Len(txt)
         /\ \A stk2, p2 : Covered(txt, n0, stk2, p2) \subseteq n0 .. Len(txt)
  BY DEF Covered

(* One frame finished: the others are as they were.                        *)
LEMMA FrameFinished ==
  ASSUME NEW u \in Seq(STRING), NEW B \in Seq(OpenFrame), NEW f \in OpenFrame, NEW g \in OpenFrame,
         NEW X \in Config, NEW Y \in Config, NEW r,
         Completes(u, Append(B, f), X, r), Finish(u, Len(B), f, X) = Finish(u, Len(B), g, Y)
  PROVE  Completes(u, Append(B, g), Y, r)
<1>1. Completes(u, B, Finish(u, Len(B), f, X), r)
  BY ChainTop
<1>2. Completes(u, B, Finish(u, Len(B), g, Y), r)
  BY <1>1
<1> QED
  BY <1>2, ChainTop

LEMMA ConfigOfBefore ==
  ASSUME NEW stk, NEW B, NEW f, NEW T, NEW counting, Innermost(B, f, T, stk, counting),
         NEW d \in Nat, NEW p \in Positions
  PROVE  /\ B \in Seq(OpenFrame) /\ f \in OpenFrame /\ T \in Seq(Token) /\ Len(B) = Len(stk) /\ Len(stk) \in Nat
         /\ f.tok \in Nat /\ f.tok <= Len(T) /\ f.tok \in 0 .. Len(T) /\ Len(T) \in Nat
         /\ f.st \in TextPlaces /\ f.st = PlaceOf(stk)
         /\ ConfigOf(p, T, d) \in Config
<1>1. B \in Seq(OpenFrame) /\ f \in OpenFrame /\ T \in Seq(Token) /\ Len(B) = Len(stk) /\ f.tok \in 0 .. Len(T)
      /\ f.st = PlaceOf(stk)
  BY DEF Innermost
<1>2. ConfigOf(p, T, d) \in Config
  BY <1>1, ConfigType DEF Positions
<1>3. Len(T) \in Nat /\ Len(B) \in Nat
  BY <1>1
<1>4. f.st \in TextPlaces
  BY <1>1 DEF OpenFrame
<1> QED
  BY <1>1, <1>2, <1>3, <1>4

LEMMA ToldRetopped ==
  ASSUME NEW stk \in Seq(Frame), NEW toks, NEW n, NEW txt \in Seq(STRING), NEW n0 \in 0 .. Len(txt),
         NEW p \in Positions, p <= n0, NEW counting,
         NEW B, NEW f, NEW T, NEW d, Before(B, f, T, d, stk, toks, n, p, txt, n0, counting),
         NEW stk2, NEW place \in TextPlaces, Retopped(stk, stk2, place),
         NEW T2, NEW toks2, NEW n2, Tokened(T2, toks2, n2, counting), Len(T2) >= Len(T),
         NEW p2 \in Positions,
         \A m \in Covered(txt, n0, stk2, p2) :
           Finish(Cut(txt, m), Len(stk), f, ConfigOf(p, T, d))
             = Finish(Cut(txt, m), Len(stk), [st |-> place, tok |-> f.tok], ConfigOf(p2, T2, d))
  PROVE  Told(stk2, toks2, n2, p2, txt, n0, counting)
<1> DEFINE g == [st |-> place, tok |-> f.tok]
           X == ConfigOf(p, T, d)
           Y == ConfigOf(p2, T2, d)
<1>1. Innermost(B, f, T, stk, counting) /\ d \in Nat /\ d <= MaxDepth
      /\ Mirrors(Append(B, f), T, stk, toks, n, counting)
  BY DEF Before
<1>2. B \in Seq(OpenFrame) /\ f \in OpenFrame /\ T \in Seq(Token) /\ Len(B) = Len(stk) /\ f.tok \in Nat /\ X \in Config
  BY <1>1, ConfigOfBefore
<1>3. g \in OpenFrame
  BY <1>2 DEF OpenFrame
<1>4. Y \in Config
  BY <1>1, ConfigType DEF Tokened, Positions
<1>5. Tells(Append(B, f), X, txt, n0 .. Len(txt))
  BY CoveredLess DEF Before
<1>6. \A m \in Covered(txt, n0, stk2, p2) : Finish(Cut(txt, m), Len(B), f, X) = Finish(Cut(txt, m), Len(B), g, Y)
  BY <1>2
<1>7. Mirrors(Append(B, g), T2, stk2, toks2, n2, counting)
  BY <1>1, MirrorsRetopped
<1> HIDE DEF g, X, Y
<1>8. ASSUME NEW m \in Covered(txt, n0, stk2, p2) PROVE Completes(Cut(txt, m), Append(B, g), Y, Whole(Cut(txt, m)))
  <2>1. m \in n0 .. Len(txt)
    BY CoveredLess
  <2>2. Cut(txt, m) \in Seq(STRING)
    BY <2>1, CutIs
  <2>3. Completes(Cut(txt, m), Append(B, f), X, Whole(Cut(txt, m)))
    BY <1>5, <2>1 DEF Tells
  <2> QED
    BY <1>2, <1>3, <1>4, <1>6, <2>2, <2>3, FrameFinished
<1>9. Tells(Append(B, g), Y, txt, Covered(txt, n0, stk2, p2))
  BY <1>8 DEF Tells
<1> QED
  BY <1>1, <1>7, <1>9 DEF Told, Y

(* The frame h is put on the others.                                       *)
Pushed(h, stk2, stk3, T2, counting) ==
  /\ h \in OpenFrame /\ h.tok = Len(T2)
  /\ Len(stk3) = Len(stk2) + 1
  /\ \A j \in 1 .. Len(stk2) : stk3[j] = stk2[j]
  /\ h.st = stk3[Len(stk2) + 1].st
  /\ ~counting => h.tok = stk3[Len(stk2) + 1].tok

LEMMA ToldPushed ==
  ASSUME NEW stk \in Seq(Frame), NEW toks, NEW n, NEW txt \in Seq(STRING), NEW n0 \in 0 .. Len(txt),
         NEW p \in Positions, p <= n0, NEW counting,
         NEW B, NEW f, NEW T, NEW d, Before(B, f, T, d, stk, toks, n, p, txt, n0, counting),
         NEW stk2, NEW place \in TextPlaces, Retopped(stk, stk2, place),
         NEW T2, NEW toks2, NEW n2, Tokened(T2, toks2, n2, counting), Len(T2) = Len(T) + 1,
         NEW h, NEW stk3, Pushed(h, stk2, stk3, T2, counting),
         \A m \in n0 .. Len(txt) :
           Finish(Cut(txt, m), Len(stk), f, ConfigOf(p, T, d))
             = Finish(Cut(txt, m), Len(stk), [st |-> place, tok |-> f.tok],
                 Finish(Cut(txt, m), Len(stk) + 1, h, ConfigOf(p + 1, T2, d)))
  PROVE  Told(stk3, toks2, n2, p + 1, txt, n0, counting)
<1> DEFINE g == [st |-> place, tok |-> f.tok]
           X == ConfigOf(p, T, d)
           Y == ConfigOf(p + 1, T2, d)
           F == Append(B, g)
<1>h. /\ h \in OpenFrame /\ h.tok = Len(T2)
      /\ Len(stk3) = Len(stk2) + 1
      /\ \A j \in 1 .. Len(stk2) : stk3[j] = stk2[j]
      /\ h.st = stk3[Len(stk2) + 1].st
      /\ ~counting => h.tok = stk3[Len(stk2) + 1].tok
  BY DEF Pushed
<1>k. h \in OpenFrame
  BY <1>h
<1>1. Innermost(B, f, T, stk, counting) /\ d \in Nat /\ d <= MaxDepth
      /\ Mirrors(Append(B, f), T, stk, toks, n, counting)
  BY DEF Before
<1>2. B \in Seq(OpenFrame) /\ f \in OpenFrame /\ T \in Seq(Token) /\ Len(B) = Len(stk) /\ f.tok \in Nat /\ X \in Config
      /\ Len(T) \in Nat /\ Len(stk) \in Nat
  BY <1>1, ConfigOfBefore
<1>3. g \in OpenFrame
  BY <1>2 DEF OpenFrame
<1>4. Y \in Config /\ p + 1 \in Positions
  <2>1. p + 1 \in Positions /\ p + 1 \in Nat
    BY DEF Positions
  <2> QED
    BY <1>1, <2>1, ConfigType DEF Tokened
<1>5. Tells(Append(B, f), X, txt, n0 .. Len(txt))
  BY CoveredLess DEF Before
<1>6. \A m \in n0 .. Len(txt) :
        Finish(Cut(txt, m), Len(B), f, X) = Finish(Cut(txt, m), Len(B), g, Finish(Cut(txt, m), Len(B) + 1, h, Y))
  BY <1>2
<1>7. Mirrors(F, T2, stk2, toks2, n2, counting)
  <2>1. Len(T2) >= Len(T)
    BY <1>2
  <2> QED
    BY <1>1, <2>1, MirrorsRetopped
<1>8. F \in Seq(OpenFrame) /\ Len(F) = Len(B) + 1
  <2> HIDE DEF g
  <2> QED
    BY <1>2, <1>3
<1>9. Mirrors(Append(F, h), T2, stk3, toks2, n2, counting)
  <2>1. Len(stk2) = Len(stk)
    BY DEF Retopped
  <2>2. h.tok \in 1 .. Len(T2)
    BY <1>h, <1>2
  <2> HIDE DEF F
  <2> QED
    BY <1>h, <1>2, <1>7, <2>1, <2>2, MirrorsPushed
<1> HIDE DEF g, X, Y
<1>10. ASSUME NEW m \in n0 .. Len(txt) PROVE Completes(Cut(txt, m), Append(F, h), Y, Whole(Cut(txt, m)))
  <2> DEFINE u == Cut(txt, m)
             Z == Finish(u, Len(B) + 1, h, Y)
  <2>1. u \in Seq(STRING)
    BY CutIs
  <2>2. Completes(u, Append(B, f), X, Whole(u))
    BY <1>5 DEF Tells
  <2>3. Finish(u, Len(B), f, X) = Finish(u, Len(B), g, Z)
    BY <1>6
  <2> HIDE DEF u
  <2>4. Z \in Config
    <3>1. Len(B) + 1 \in Nat
      BY <1>2
    <3> QED
      BY <1>k, <1>4, <2>1, <3>1, FinishType
  <2> HIDE DEF Z
  <2>5. Completes(u, F, Z, Whole(u))
    BY <1>2, <1>3, <2>1, <2>2, <2>3, <2>4, FrameFinished
  <2> HIDE DEF F
  <2>6. Completes(u, F, Finish(u, Len(F), h, Y), Whole(u))
    BY <1>8, <2>5 DEF Z
  <2>7. Completes(u, Append(F, h), Y, Whole(u))
    BY <1>k, <1>4, <1>8, <2>1, <2>6, ChainTop
  <2> QED
    BY <2>7 DEF u
<1>11. Tells(Append(F, h), Y, txt, Covered(txt, n0, stk3, p + 1))
  <2> HIDE DEF F
  <2> QED
    BY <1>10, CoveredLess DEF Tells
<1> HIDE DEF F
<1> QED
  BY <1>1, <1>9, <1>11 DEF Told, Y

LEMMA ToldPopped ==
  ASSUME NEW stk \in Seq(Frame), stk # << >>, NEW toks, NEW n, NEW txt \in Seq(STRING), NEW n0 \in 0 .. Len(txt),
         NEW p \in Positions, p <= n0, NEW counting,
         NEW B, NEW f, NEW T, NEW d, Before(B, f, T, d, stk, toks, n, p, txt, n0, counting),
         NEW T2, NEW toks2, NEW n2, Tokened(T2, toks2, n2, counting), Len(T2) = Len(T),
         NEW p2, NEW d2 \in Nat, d2 <= MaxDepth,
         \A m \in n0 .. Len(txt) : Finish(Cut(txt, m), Len(stk), f, ConfigOf(p, T, d)) = ConfigOf(p2, T2, d2)
  PROVE  Told(SubSeq(stk, 1, Len(stk) - 1), toks2, n2, p2, txt, n0, counting)
<1> DEFINE X == ConfigOf(p, T, d)
           stk2 == SubSeq(stk, 1, Len(stk) - 1)
<1>1. Innermost(B, f, T, stk, counting) /\ d \in Nat
      /\ Mirrors(Append(B, f), T, stk, toks, n, counting)
  BY DEF Before
<1>2. B \in Seq(OpenFrame) /\ f \in OpenFrame /\ T \in Seq(Token) /\ Len(B) = Len(stk) /\ X \in Config
  BY <1>1, ConfigOfBefore
<1>3. Tells(Append(B, f), X, txt, n0 .. Len(txt))
  BY CoveredLess DEF Before
<1>4. \A m \in n0 .. Len(txt) : Finish(Cut(txt, m), Len(B), f, X) = ConfigOf(p2, T2, d2)
  BY <1>2
<1>5. Mirrors(B, T2, stk2, toks2, n2, counting)
  BY <1>1, MirrorsPopped
<1> HIDE DEF X, stk2
<1>6. ASSUME NEW m \in n0 .. Len(txt) PROVE Completes(Cut(txt, m), B, ConfigOf(p2, T2, d2), Whole(Cut(txt, m)))
  <2>1. Cut(txt, m) \in Seq(STRING)
    BY CutIs
  <2>2. Completes(Cut(txt, m), Append(B, f), X, Whole(Cut(txt, m)))
    BY <1>3 DEF Tells
  <2>3. Completes(Cut(txt, m), B, Finish(Cut(txt, m), Len(B), f, X), Whole(Cut(txt, m)))
    BY <1>2, <2>1, <2>2, ChainTop
  <2> QED
    BY <1>4, <2>3
<1>7. Tells(B, ConfigOf(p2, T2, d2), txt, Covered(txt, n0, stk2, p2))
  BY <1>6, CoveredLess DEF Tells
<1>8. Told(stk2, toks2, n2, p2, txt, n0, counting)
  BY <1>5, <1>7 DEF Told
<1> QED
  BY <1>8 DEF stk2

-----------------------------------------------------------------------------
(* What cannot be read, and what a reading needs.                          *)

LEMMA WholeIs ==
  ASSUME NEW u \in Seq(STRING)
  PROVE  /\ ReadingOf(u) \in Stretch
         /\ Whole(u).at # 0 <=> ReadingOf(u).end # 0
         /\ Whole(u).at # 0 => /\ Whole(u).tokens = ReadingOf(u).tokens
                               /\ Whole(u).depth = ReadingOf(u).depth
<1> DEFINE r == ReadingOf(u)
<1>1. r \in Stretch
  <2>1. TopLevel \in TextPlaces /\ 1 \in Positions
    BY DEF TextPlaces, Positions
  <2>2. Behind(Rest(TopLevel, u, 1), 1)
    BY <2>1, RestType
  <2> QED
    BY <2>2 DEF Rest, ReadingOf, Behind
<1>2. Whole(u) = IF r.end = 0 THEN Lost ELSE ConfigOf(r.end, r.tokens, r.depth)
  BY DEF Whole
<1> HIDE DEF r
<1>3. ConfigOf(r.end, r.tokens, r.depth).at = r.end
      /\ ConfigOf(r.end, r.tokens, r.depth).tokens = r.tokens
      /\ ConfigOf(r.end, r.tokens, r.depth).depth = r.depth
  BY DEF ConfigOf
<1>4. Lost.at = 0
  BY LostType
<1>5. r \in Stretch /\ (Whole(u).at # 0 <=> r.end # 0)
      /\ (Whole(u).at # 0 => Whole(u).tokens = r.tokens /\ Whole(u).depth = r.depth)
  BY <1>1, <1>2, <1>3, <1>4
<1> QED
  BY <1>5 DEF r

LEMMA ReadingNeeds ==
  ASSUME NEW stk \in Seq(Frame), NEW toks, NEW n, NEW txt \in Seq(STRING), NEW n0 \in 0 .. Len(txt),
         NEW p \in Positions, NEW counting,
         NEW B, NEW f, NEW T, NEW d, Before(B, f, T, d, stk, toks, n, p, txt, n0, counting),
         NEW m \in Covered(txt, n0, stk, p), ReadingOf(Cut(txt, m)).end # 0
  PROVE  LET rest == Rest(PlaceOf(stk), Cut(txt, m), p)
         IN /\ rest.end # 0
            /\ Len(ReadingOf(Cut(txt, m)).tokens) >= n + Len(rest.tokens)
            /\ ReadingOf(Cut(txt, m)).depth >= Len(stk) + rest.depth
<1> DEFINE u == Cut(txt, m)
           X == ConfigOf(p, T, d)
           k == Len(stk)
           Y == Finish(u, k, f, X)
           rest == Rest(f.st, u, p)
           r == Whole(u)
<1>1. Innermost(B, f, T, stk, counting) /\ d \in Nat
      /\ Mirrors(Append(B, f), T, stk, toks, n, counting)
      /\ Tells(Append(B, f), X, txt, Covered(txt, n0, stk, p))
  BY DEF Before
<1>2. B \in Seq(OpenFrame) /\ f \in OpenFrame /\ T \in Seq(Token) /\ Len(B) = k /\ X \in Config /\ f.st = PlaceOf(stk)
      /\ k \in Nat /\ Len(T) \in Nat
  BY <1>1, ConfigOfBefore
<1>3. u \in Seq(STRING)
  BY CutIs DEF Covered
<1>4. Completes(u, Append(B, f), X, r)
  BY <1>1 DEF Tells
<1>5. Len(T) = n /\ X.at = p /\ X.tokens = T
  BY <1>1 DEF Mirrors, ConfigOf
<1>6. r.at # 0 /\ r.tokens = ReadingOf(u).tokens /\ r.depth = ReadingOf(u).depth
  BY <1>3, WholeIs
<1> HIDE DEF u, X, k, r
<1>7. /\ Y \in Config
      /\ Y.at # 0 => Y.depth >= k + rest.depth /\ Len(Y.tokens) = Len(X.tokens) + Len(rest.tokens)
  BY <1>2, <1>3, <1>5, FinishType
<1>8. rest.end = 0 => Y.at = 0
  BY LostType DEF Finish, X, ConfigOf
<1>9. Completes(u, B, Y, r)
  BY <1>2, <1>3, <1>4, ChainTop
<1> HIDE DEF Y
<1>10. Y.at # 0 /\ Len(Y.tokens) <= Len(r.tokens) /\ Y.depth <= r.depth
  BY <1>2, <1>3, <1>6, <1>7, <1>9, ChainWithin DEF Within
<1>11. rest \in Stretch
  BY <1>2, <1>3, RestType DEF Behind, OpenFrame
<1> HIDE DEF rest
<1>12. rest.end # 0 /\ Len(r.tokens) >= n + Len(rest.tokens) /\ r.depth >= k + rest.depth
  <2>1. Len(rest.tokens) \in Nat /\ rest.depth \in Nat /\ Len(Y.tokens) \in Nat /\ Y.depth \in Nat
    BY <1>7, <1>11 DEF Stretch, Config
  <2>2. r \in Config
    BY <1>2, <1>3, <1>7, <1>9, ChainWithin
  <2>3. Len(r.tokens) \in Nat /\ r.depth \in Nat
    BY <2>2 DEF Config
  <2>4. rest.end # 0
    BY <1>8, <1>10
  <2>5. Y.depth >= k + rest.depth /\ Len(Y.tokens) = Len(X.tokens) + Len(rest.tokens)
    BY <1>7, <1>10
  <2>6. Len(X.tokens) = n /\ n \in Nat
    BY <1>2, <1>5
  <2>7. Len(Y.tokens) <= Len(r.tokens) /\ Y.depth <= r.depth
    BY <1>10
  <2>8. Len(r.tokens) >= n + Len(rest.tokens)
    BY <2>1, <2>3, <2>5, <2>6, <2>7
  <2>9. k \in Nat
    BY <1>2
  <2>10. r.depth >= k + rest.depth
    BY <2>1, <2>3, <2>5, <2>7, <2>9
  <2> QED
    BY <2>4, <2>8, <2>10
<1> QED
  BY <1>2, <1>6, <1>12 DEF rest, u, k

-----------------------------------------------------------------------------
(* The tokenizer's own tokens and frames.                                  *)

LEMMA Changed ==
  ASSUME NEW t \in Token
  PROVE  /\ \A n : [t EXCEPT !.size = n] = TokenOf(t.type, t.start, t.end, n)
         /\ \A e : [t EXCEPT !.end = e] = TokenOf(t.type, t.start, e, t.size)
<1>1. PICK a \in Types, b \in Nat, c \in Nat \cup {-1}, d \in Nat :
         t = [type |-> a, start |-> b, end |-> c, size |-> d]
  BY DEF Token
<1>2. \A n : [t EXCEPT !.size = n] = [type |-> a, start |-> b, end |-> c, size |-> n]
  BY <1>1
<1>3. \A e : [t EXCEPT !.end = e] = [type |-> a, start |-> b, end |-> e, size |-> d]
  BY <1>1
<1>4. t.type = a /\ t.start = b /\ t.end = c /\ t.size = d
  BY <1>1
<1> QED
  BY <1>2, <1>3, <1>4 DEF TokenOf

LEMMA Sized ==
  ASSUME NEW toks \in Seq(Token), NEW x \in 1 .. Len(toks)
  PROVE  [toks EXCEPT ![x].size = @ + 1] = Grown(toks, x, 1)
<1> DEFINE A == [toks EXCEPT ![x].size = @ + 1]
           B == Grown(toks, x, 1)
<1>1. DOMAIN toks = 1 .. Len(toks)
  OBVIOUS
<1>2. ASSUME NEW k \in DOMAIN toks PROVE A[k] = B[k]
  <2>1. toks[k] \in Token
    OBVIOUS
  <2>2. B[k] = IF k = x THEN TokenOf(toks[k].type, toks[k].start, toks[k].end, toks[k].size + 1) ELSE toks[k]
    BY DEF Grown
  <2>3. A[k] = IF k = x THEN [toks[k] EXCEPT !.size = toks[k].size + 1] ELSE toks[k]
    OBVIOUS
  <2> HIDE DEF A, B
  <2>4. [toks[k] EXCEPT !.size = toks[k].size + 1]
          = TokenOf(toks[k].type, toks[k].start, toks[k].end, toks[k].size + 1)
    BY <2>1, Changed
  <2> QED
    BY <2>2, <2>3, <2>4
<1>3. A = [k \in DOMAIN toks |-> A[k]] /\ B = [k \in DOMAIN toks |-> B[k]]
  BY DEF Grown
<1> HIDE DEF A, B
<1>4. A = B
  BY <1>2, <1>3
<1> QED
  BY <1>4 DEF A, B

LEMMA EndedIs ==
  ASSUME NEW toks \in Seq(Token), NEW x \in 1 .. Len(toks), NEW end \in Nat
  PROVE  [toks EXCEPT ![x].end = end] = Retold(toks, x, end, 0)
<1> DEFINE A == [toks EXCEPT ![x].end = end]
           B == Retold(toks, x, end, 0)
<1>1. DOMAIN toks = 1 .. Len(toks)
  OBVIOUS
<1>2. ASSUME NEW k \in DOMAIN toks PROVE A[k] = B[k]
  <2>1. toks[k] \in Token
    OBVIOUS
  <2>2. B[k] = IF k = x THEN TokenOf(toks[k].type, toks[k].start, end, toks[k].size + 0) ELSE toks[k]
    BY DEF Retold
  <2>3. A[k] = IF k = x THEN [toks[k] EXCEPT !.end = end] ELSE toks[k]
    OBVIOUS
  <2> HIDE DEF A, B
  <2>4. toks[k].size + 0 = toks[k].size
    BY <2>1 DEF Token
  <2>5. [toks[k] EXCEPT !.end = end] = TokenOf(toks[k].type, toks[k].start, end, toks[k].size)
    BY <2>1, Changed
  <2> QED
    BY <2>2, <2>3, <2>4, <2>5
<1>3. A = [k \in DOMAIN toks |-> A[k]] /\ B = [k \in DOMAIN toks |-> B[k]]
  BY DEF Retold
<1> HIDE DEF A, B
<1>4. A = B
  BY <1>2, <1>3
<1> QED
  BY <1>4 DEF A, B

LEMMA NotGrown ==
  ASSUME NEW toks \in Seq(Token), NEW x \in Nat
  PROVE  /\ Grown(toks, x, 0) = toks
         /\ \A n : Grown(toks, 0, n) = toks
         /\ \A n, end : Retold(toks, 0, end, n) = toks
<1>1. DOMAIN toks = 1 .. Len(toks) /\ Len(toks) \in Nat /\ toks = [k \in DOMAIN toks |-> toks[k]]
  OBVIOUS
<1>2. \A k \in DOMAIN toks : TokenOf(toks[k].type, toks[k].start, toks[k].end, toks[k].size + 0) = toks[k]
  <2> SUFFICES ASSUME NEW k \in DOMAIN toks
               PROVE  TokenOf(toks[k].type, toks[k].start, toks[k].end, toks[k].size + 0) = toks[k]
    OBVIOUS
  <2>1. toks[k] \in Token
    OBVIOUS
  <2>2. toks[k].size + 0 = toks[k].size
    BY <2>1 DEF Token
  <2> QED
    BY <2>1, <2>2 DEF Token, TokenOf
<1>3. \A k \in DOMAIN toks : k # 0
  BY <1>1
<1>4. Grown(toks, x, 0) = [k \in DOMAIN toks |-> toks[k]]
  BY <1>2 DEF Grown
<1>5. \A n : Grown(toks, 0, n) = [k \in DOMAIN toks |-> toks[k]]
  BY <1>3 DEF Grown
<1>6. \A n, end : Retold(toks, 0, end, n) = [k \in DOMAIN toks |-> toks[k]]
  BY <1>3 DEF Retold
<1> QED
  BY <1>1, <1>4, <1>5, <1>6

LEMMA MachineTokens ==
  ASSUME Inv
  PROVE  /\ tokens \in Seq(Token) /\ stack \in Seq(Frame)
         /\ Grown(tokens, TokOf(stack), 0) = tokens
         /\ room # CountOnly => Grown(tokens, TokOf(stack), 1) = TokensWithValue
         /\ stack # << >> /\ room # CountOnly =>
              /\ Top.tok = TokOf(stack) /\ TokOf(stack) # 0 /\ TokOf(stack) \in 1 .. Len(tokens)
<1>1. tokens \in Seq(Token) /\ stack \in Seq(Frame)
  BY DEF Inv, TypeOK
<1>2. TokOf(stack) \in Nat
  <2>1. CASE stack = << >>
    BY <2>1 DEF TokOf
  <2>2. CASE stack # << >>
    BY <2>2, TopFrame DEF TokOf, Top, Frame
  <2> QED
    BY <2>1, <2>2
<1>3. ASSUME stack # << >>, room # CountOnly
      PROVE  Top.tok = TokOf(stack) /\ TokOf(stack) # 0 /\ TokOf(stack) \in 1 .. Len(tokens)
  <2>1. Top.tok = TokOf(stack)
    BY <1>3 DEF TokOf, Top
  <2>2. Len(stack) \in DOMAIN stack
    BY <1>1, <1>3, TopFrame
  <2>3. Top.tok \in DOMAIN tokens
    BY <1>3, <2>2 DEF Inv, SpansAreInside, Top
  <2>4. Top.tok \in 1 .. Len(tokens)
    BY <1>1, <2>3
  <2>5. Len(tokens) \in Nat
    BY <1>1
  <2> QED
    BY <2>1, <2>4, <2>5
<1>4. room # CountOnly => Grown(tokens, TokOf(stack), 1) = TokensWithValue
  <2>1. CASE stack = << >>
    <3>1. TokOf(stack) = 0 /\ TokensWithValue = tokens
      BY <2>1 DEF TokOf, TokensWithValue
    <3> QED
      BY <1>1, <3>1, NotGrown
  <2>2. CASE stack # << >> /\ room # CountOnly
    <3>1. Top.tok = TokOf(stack) /\ TokOf(stack) # 0 /\ TokOf(stack) \in 1 .. Len(tokens)
      BY <1>3, <2>2
    <3>2. TokensWithValue = [tokens EXCEPT ![Top.tok].size = @ + 1]
      BY <2>2, <3>1 DEF TokensWithValue
    <3>3. [tokens EXCEPT ![Top.tok].size = @ + 1] = Grown(tokens, Top.tok, 1)
      BY <1>1, <3>1, Sized
    <3> QED
      BY <3>1, <3>2, <3>3
  <2> QED
    BY <2>1, <2>2
<1> QED
  BY <1>1, <1>2, <1>3, <1>4, NotGrown

LEMMA PlaceIs ==
  ASSUME Inv
  PROVE  /\ PlaceOf(stack) \in TextPlaces
         /\ stack = << >> <=> PlaceOf(stack) = TopLevel
         /\ \A states : TopIs(states) => stack # << >> /\ PlaceOf(stack) \in states
         /\ \A states : stack # << >> /\ PlaceOf(stack) \in states => TopIs(states)
         /\ stack # << >> => Top.type = JSTOK_ARRAY <=> PlaceOf(stack) \in ArrayStates
<1>1. stack # << >> => Top \in Frame /\ PlaceOf(stack) = Top.st
  BY TopFrame DEF PlaceOf, Top
<1>2. stack = << >> => PlaceOf(stack) = TopLevel
  BY DEF PlaceOf
<1>3. stack # << >> => PlaceOf(stack) \in ObjectStates \cup ArrayStates
                       /\ (Top.type = JSTOK_ARRAY <=> PlaceOf(stack) \in ArrayStates)
  BY <1>1 DEF Frame, ObjectStates, ArrayStates, JSTOK_OBJECT, JSTOK_ARRAY
<1>4. TopLevel \notin ObjectStates \cup ArrayStates
  BY DEF TopLevel, ObjectStates, ArrayStates
<1> QED
  BY <1>1, <1>2, <1>3, <1>4 DEF TextPlaces, TopIs

LEMMA SetTopRetopped ==
  ASSUME Inv, stack # << >>, NEW st
  PROVE  Retopped(stack, SetTop(st), st) /\ SetTop(st) # << >>
<1>1. stack \in Seq(Frame) /\ Len(stack) \in 1 .. Len(stack) /\ Len(stack) \in Nat
  BY TopFrame DEF Inv, TypeOK
<1>2. Top \in Frame
  BY TopFrame
<1>3. SetTop(st) = [stack EXCEPT ![Len(stack)] = [Top EXCEPT !.st = st]]
  BY <1>1 DEF SetTop, Top
<1>4. [Top EXCEPT !.st = st].st = st /\ [Top EXCEPT !.st = st].tok = Top.tok
  BY <1>2 DEF Frame
<1> DEFINE new == [Top EXCEPT !.st = st]
           S == Frame \cup {new}
           s2 == [stack EXCEPT ![Len(stack)] = new]
<1>5. stack \in Seq(S) /\ new \in S
  BY <1>1
<1> HIDE DEF new, S
<1>6. s2 \in Seq(S) /\ Len(s2) = Len(stack) /\ s2[Len(stack)] = new
      /\ \A k \in 1 .. Len(stack) : k # Len(stack) => s2[k] = stack[k]
  BY <1>1, <1>5, Replaced
<1> HIDE DEF s2
<1>7. s2[Len(stack)].st = st /\ s2[Len(stack)].tok = stack[Len(stack)].tok
  BY <1>4, <1>6 DEF new, Top
<1>8. \A k \in 1 .. Len(stack) - 1 : s2[k] = stack[k]
  BY <1>1, <1>6
<1>9. Retopped(stack, s2, st)
  BY <1>6, <1>7, <1>8 DEF Retopped
<1>10. s2 # << >>
  BY <1>1, <1>6
<1> QED
  BY <1>3, <1>9, <1>10 DEF s2, new

LEMMA ValueRetopped ==
  ASSUME Inv
  PROVE  /\ ValueFits <=> PlaceOf(stack) \in ValuePlaces
         /\ ValueFits => Retopped(stack, StackWithValue, AfterItem(PlaceOf(stack)))
         /\ stack = << >> => StackWithValue = << >>
<1>1. ValueFits <=> PlaceOf(stack) \in ValuePlaces
  <2>1. ValueFits <=> stack = << >> \/ PlaceOf(stack) \in {"OBJ_VALUE", "VALUE_OR_END", "ARR_VALUE"}
    BY PlaceIs DEF ValueFits, TopIs
  <2> QED
    BY <2>1, PlaceIs DEF ValuePlaces
<1>2. stack = << >> => StackWithValue = << >>
  BY DEF StackWithValue
<1>3. ASSUME ValueFits PROVE Retopped(stack, StackWithValue, AfterItem(PlaceOf(stack)))
  <2>1. CASE stack = << >>
    <3>1. AfterItem(PlaceOf(stack)) = TopLevel
      BY <2>1 DEF PlaceOf, AfterItem, KeyPlaces, TopLevel
    <3> QED
      BY <1>2, <2>1, <3>1 DEF Retopped
  <2>2. CASE stack # << >>
    <3> DEFINE st == IF Top.type = JSTOK_ARRAY THEN "ARR_COMMA_OR_END" ELSE "OBJ_COMMA_OR_END"
    <3>1. PlaceOf(stack) \notin KeyPlaces /\ PlaceOf(stack) # TopLevel
      BY <1>1, <1>3, <2>2, PlaceIs, KeysAreNoValues
    <3>2. AfterItem(PlaceOf(stack)) = st
      BY <2>2, <3>1, PlaceIs DEF AfterItem
    <3>3. StackWithValue = SetTop(st)
      BY <2>2 DEF StackWithValue
    <3>4. Retopped(stack, SetTop(st), st)
      BY <2>2, SetTopRetopped
    <3> QED
      BY <3>2, <3>3, <3>4
  <2> QED
    BY <2>1, <2>2
<1> QED
  BY <1>1, <1>2, <1>3

-----------------------------------------------------------------------------
(* While a call runs, and when it may be resumed, what it has come to      *)
(* tells what the text is.                                                 *)
Knows ==
  /\ rc \in {Running, PART} => Told(stack, tokens, toknext, pos, text, shown, room = CountOnly)
  /\ rc = PART => stack # << >> \/ pos <= shown
  /\ TokensAreTheTexts

LEMMA Kept ==
  ASSUME rc' = Running, Told(stack', tokens', toknext', pos', text', shown', room' = CountOnly)
  PROVE  Knows'
  BY DEF Knows, TokensAreTheTexts, Running, PART

LEMMA ShownIs ==
  ASSUME Inv
  PROVE  /\ Shown = Cut(text, shown) /\ text = Cut(text, Len(text))
         /\ shown \in shown .. Len(text) /\ Len(text) \in shown .. Len(text)
<1>1. text \in Seq(STRING) /\ shown \in 0 .. Len(text) /\ Len(text) \in Nat
  BY DEF Inv, TypeOK
<1>2. text = SubSeq(text, 1, Len(text))
  BY <1>1
<1> QED
  BY <1>1, <1>2 DEF Shown, Cut

LEMMA At ==
  ASSUME Inv, pos <= shown, NEW m \in shown .. Len(text)
  PROVE  /\ text \in Seq(STRING) /\ shown \in 0 .. Len(text) /\ pos \in Positions
         /\ Cut(text, m) \in Seq(STRING) /\ pos <= Len(Cut(text, m)) /\ Cut(text, m)[pos] = text[pos]
         /\ Text(Shown, Cut(text, m)) /\ pos \in 1 .. Len(Shown) /\ Len(Shown) = shown /\ Len(Cut(text, m)) = m
         /\ m \in Covered(text, shown, stack, pos)
<1>1. text \in Seq(STRING) /\ shown \in 0 .. Len(text) /\ pos \in 1 .. shown + 1 /\ Len(text) \in Nat
  BY DEF Inv, TypeOK
<1>2. pos \in Positions /\ pos \in 1 .. shown /\ pos \in 1 .. m /\ pos <= m
  BY <1>1 DEF Positions
<1>3. /\ Cut(text, m) \in Seq(STRING) /\ Len(Cut(text, m)) = m
      /\ \A i \in 1 .. m : Cut(text, m)[i] = text[i]
      /\ Text(Cut(text, shown), Cut(text, m))
  BY <1>1, CutIs
<1>4. Text(Shown, Cut(text, m)) /\ Len(Shown) = shown
  BY <1>3, ShownIs, ShownPart
<1>5. m \in Covered(text, shown, stack, pos)
  BY <1>1, <1>2, CoveredLess
<1> QED
  BY <1>1, <1>2, <1>3, <1>4, <1>5

(* The turns that fail.                                                    *)
LEMMA Refused ==
  ASSUME Inv, Knows, rc = Running, pos <= shown, UNCHANGED caller, rc' = INVAL,
         \A m \in shown .. Len(text) : Rest(PlaceOf(stack), Cut(text, m), pos).end = 0
  PROVE  Knows'
<1>1. Told(stack, tokens, toknext, pos, text, shown, room = CountOnly)
  BY DEF Knows
<1>2. stack \in Seq(Frame)
  BY DEF Inv, TypeOK
<1>3. PICK B, f, T, d : Before(B, f, T, d, stack, tokens, toknext, pos, text, shown, room = CountOnly)
  BY <1>1, <1>2, ToldBefore
<1>4. ASSUME NEW m \in shown .. Len(text) PROVE ReadingOf(Cut(text, m)).end = 0
  <2>1. text \in Seq(STRING) /\ shown \in 0 .. Len(text) /\ pos \in Positions /\ m \in Covered(text, shown, stack, pos)
    BY At
  <2>2. ReadingOf(Cut(text, m)).end # 0 => Rest(PlaceOf(stack), Cut(text, m), pos).end # 0
    BY <1>2, <1>3, <2>1, ReadingNeeds
  <2> QED
    BY <2>2
<1>5. ReadingOf(Shown).end = 0 /\ ReadingOf(text).end = 0
  BY <1>4, ShownIs
<1>6. Shown' = Shown /\ text' = text
  BY DEF caller, Shown
<1>7. TokensAreTheTexts'
  BY <1>5, <1>6 DEF TokensAreTheTexts, INVAL, PART, NOMEM, DEPTH
<1> QED
  BY <1>7 DEF Knows, INVAL, PART, Running

LEMMA TooLarge ==
  ASSUME Inv, Knows, rc = Running, pos <= shown, UNCHANGED caller,
         \/ /\ rc' = NOMEM /\ IsFull
            /\ \A m \in shown .. Len(text) : LET r == Rest(PlaceOf(stack), Cut(text, m), pos)
                                             IN r.end # 0 => Len(r.tokens) >= 1
         \/ /\ rc' = DEPTH /\ Len(stack) >= MaxDepth
            /\ \A m \in shown .. Len(text) : LET r == Rest(PlaceOf(stack), Cut(text, m), pos)
                                             IN r.end # 0 => r.depth >= 1
  PROVE  Knows'
<1>1. Told(stack, tokens, toknext, pos, text, shown, room = CountOnly)
  BY DEF Knows
<1>2. stack \in Seq(Frame) /\ toknext \in Nat /\ room \in Nat \cup {CountOnly} /\ Len(stack) \in Nat /\ MaxDepth \in Nat
  BY DepthAssumption DEF Inv, TypeOK
<1>3. PICK B, f, T, d : Before(B, f, T, d, stack, tokens, toknext, pos, text, shown, room = CountOnly)
  BY <1>1, <1>2, ToldBefore
<1>4. ASSUME NEW m \in shown .. Len(text), ReadingOf(Cut(text, m)).end # 0
      PROVE  /\ rc' = NOMEM => Len(ReadingOf(Cut(text, m)).tokens) > room
             /\ rc' = DEPTH => ReadingOf(Cut(text, m)).depth > MaxDepth
  <2> DEFINE u == Cut(text, m)
             r == Rest(PlaceOf(stack), u, pos)
  <2>1. /\ text \in Seq(STRING) /\ shown \in 0 .. Len(text) /\ pos \in Positions
        /\ m \in Covered(text, shown, stack, pos) /\ u \in Seq(STRING)
    BY At
  <2>2. r.end # 0 /\ Len(ReadingOf(u).tokens) >= toknext + Len(r.tokens) /\ ReadingOf(u).depth >= Len(stack) + r.depth
    BY <1>2, <1>3, <1>4, <2>1, ReadingNeeds
  <2>3. r \in Stretch
    BY <2>1, PlaceIs, RestType DEF Behind
  <2>4. (rc' = NOMEM => Len(r.tokens) >= 1 /\ IsFull) /\ (rc' = DEPTH => r.depth >= 1 /\ Len(stack) >= MaxDepth)
    BY <2>2 DEF NOMEM, DEPTH
  <2>5. ReadingOf(u) \in Stretch
    BY <2>1, WholeIs
  <2> HIDE DEF r
  <2> DEFINE w == ReadingOf(u)
  <2>6. Len(r.tokens) \in Nat /\ r.depth \in Nat /\ Len(w.tokens) \in Nat /\ w.depth \in Nat
    BY <2>3, <2>5 DEF Stretch
  <2>7. Len(w.tokens) >= toknext + Len(r.tokens) /\ w.depth >= Len(stack) + r.depth
    BY <2>2
  <2> HIDE DEF u, w
  <2>8. rc' = NOMEM => Len(w.tokens) > room
    BY <1>2, <2>4, <2>6, <2>7 DEF IsFull, CountOnly
  <2>9. rc' = DEPTH => w.depth > MaxDepth
    BY <1>2, <2>4, <2>6, <2>7
  <2> QED
    BY <2>8, <2>9 DEF u, w
<1>5. \A r \in {ReadingOf(Shown), ReadingOf(text)} :
        r.end # 0 => (rc' = NOMEM => Len(r.tokens) > room) /\ (rc' = DEPTH => r.depth > MaxDepth)
  BY <1>4, ShownIs
<1>6. Shown' = Shown /\ text' = text /\ room' = room
  BY DEF caller, Shown
<1>7. TokensAreTheTexts'
  BY <1>5, <1>6 DEF TokensAreTheTexts, INVAL, PART, NOMEM, DEPTH
<1> QED
  BY <1>7 DEF Knows, NOMEM, DEPTH, PART, Running

LEMMA CutShort ==
  ASSUME Inv, Knows, rc = Running, rc' = PART, UNCHANGED << caller, pos, stack, tokens, toknext >>,
         stack # << >> \/ pos <= shown,
         Rest(PlaceOf(stack), Shown, pos).end = 0
  PROVE  Knows'
<1>1. Told(stack, tokens, toknext, pos, text, shown, room = CountOnly)
  BY DEF Knows
<1>2. stack \in Seq(Frame) /\ text \in Seq(STRING) /\ shown \in 0 .. Len(text) /\ pos \in Positions
  BY DEF Inv, TypeOK, Positions
<1>3. PICK B, f, T, d : Before(B, f, T, d, stack, tokens, toknext, pos, text, shown, room = CountOnly)
  BY <1>1, <1>2, ToldBefore
<1>4. shown \in Covered(text, shown, stack, pos)
  BY ShownIs DEF Covered
<1>5. ReadingOf(Shown).end = 0
  <2>1. ReadingOf(Cut(text, shown)).end # 0 => Rest(PlaceOf(stack), Cut(text, shown), pos).end # 0
    BY <1>2, <1>3, <1>4, ReadingNeeds
  <2> QED
    BY <2>1, ShownIs
<1>6. Shown' = Shown /\ text' = text /\ room' = room /\ shown' = shown
  BY DEF caller, Shown
<1>7. TokensAreTheTexts'
  BY <1>5, <1>6 DEF TokensAreTheTexts, INVAL, PART, NOMEM, DEPTH
<1>8. Told(stack', tokens', toknext', pos', text', shown', room' = CountOnly)
  BY <1>1, <1>6
<1>9. stack' # << >> \/ pos' <= shown'
  BY <1>6
<1> QED
  BY <1>7, <1>8, <1>9 DEF Knows

-----------------------------------------------------------------------------
(* The turns that go on.                                                   *)

(* Where a turn leads that leaves the frames around the innermost alone.   *)
LEMMA TurnKept ==
  ASSUME Inv, rc = Running, rc' = Running, UNCHANGED caller, pos <= shown,
         NEW B, NEW f, NEW T, NEW d, Before(B, f, T, d, stack, tokens, toknext, pos, text, shown, room = CountOnly),
         NEW place \in TextPlaces, Retopped(stack, stack', place),
         NEW T2, Tokened(T2, tokens', toknext', room = CountOnly), Len(T2) >= Len(T),
         pos' \in Positions,
         \A m \in Covered(text, shown, stack', pos') :
           Finish(Cut(text, m), Len(stack), f, ConfigOf(pos, T, d))
             = Finish(Cut(text, m), Len(stack), [st |-> place, tok |-> f.tok], ConfigOf(pos', T2, d))
  PROVE  Knows'
<1>1. stack \in Seq(Frame) /\ text \in Seq(STRING) /\ shown \in 0 .. Len(text) /\ pos \in Positions
  BY DEF Inv, TypeOK, Positions
<1>2. Told(stack', tokens', toknext', pos', text, shown, room = CountOnly)
  BY <1>1, ToldRetopped
<1>3. Told(stack', tokens', toknext', pos', text', shown', room' = CountOnly)
  BY <1>2 DEF caller
<1> QED
  BY <1>3, Kept

LEMMA KnownBefore ==
  ASSUME Inv, Knows, rc = Running
  PROVE  \E B, f, T, d : Before(B, f, T, d, stack, tokens, toknext, pos, text, shown, room = CountOnly)
<1>1. Told(stack, tokens, toknext, pos, text, shown, room = CountOnly)
  BY DEF Knows
<1>2. stack \in Seq(Frame)
  BY DEF Inv, TypeOK
<1> QED
  BY <1>1, <1>2, ToldBefore

LEMMA BeforeIs ==
  ASSUME Inv, NEW B, NEW f, NEW T, NEW d,
         Before(B, f, T, d, stack, tokens, toknext, pos, text, shown, room = CountOnly)
  PROVE  /\ f \in OpenFrame /\ T \in Seq(Token) /\ d \in Nat /\ d <= MaxDepth /\ f.tok \in Nat /\ f.tok <= Len(T) /\ f.tok \in 0 .. Len(T)
         /\ Len(T) = toknext /\ Len(T) \in Nat /\ Len(stack) \in Nat
         /\ f.st = PlaceOf(stack) /\ f.st \in TextPlaces /\ pos \in Positions
         /\ room # CountOnly => T = tokens /\ f.tok = TokOf(stack)
<1>1. /\ Innermost(B, f, T, stack, room = CountOnly) /\ d \in Nat /\ d <= MaxDepth
      /\ Mirrors(Append(B, f), T, stack, tokens, toknext, room = CountOnly)
  BY DEF Before
<1>2. pos \in Positions
  BY DEF Inv, TypeOK, Positions
<1>3. /\ f \in OpenFrame /\ T \in Seq(Token) /\ f.tok \in Nat /\ f.tok <= Len(T) /\ f.tok \in 0 .. Len(T)
      /\ Len(T) \in Nat /\ Len(stack) \in Nat /\ f.st = PlaceOf(stack) /\ f.st \in TextPlaces
  BY <1>1, <1>2, ConfigOfBefore
<1>4. Len(T) = toknext /\ (room # CountOnly => T = tokens)
  BY <1>1 DEF Mirrors
<1>5. room # CountOnly => f.tok = TokOf(stack)
  BY <1>1 DEF Innermost
<1> QED
  BY <1>1, <1>2, <1>3, <1>4, <1>5

(* A character that moves the innermost frame, or only the parser.         *)
LEMMA MoveKept ==
  ASSUME Inv, Knows, rc = Running, pos <= shown, UNCHANGED << caller, tokens, toknext, rc >>,
         pos' = pos + 1, NEW place \in TextPlaces, Retopped(stack, stack', place),
         \A m \in shown .. Len(text) : Rest(PlaceOf(stack), Cut(text, m), pos) = Rest(place, Cut(text, m), pos + 1)
  PROVE  Knows'
<1>1. PICK B, f, T, d : Before(B, f, T, d, stack, tokens, toknext, pos, text, shown, room = CountOnly)
  BY KnownBefore
<1>2. /\ f \in OpenFrame /\ T \in Seq(Token) /\ d \in Nat /\ f.tok \in Nat
      /\ Len(T) = toknext /\ Len(T) \in Nat /\ Len(stack) \in Nat
      /\ f.st = PlaceOf(stack) /\ pos \in Positions /\ (room # CountOnly => T = tokens)
  BY <1>1, BeforeIs
<1>3. pos' \in Positions
  BY <1>2 DEF Positions
<1>4. Tokened(T, tokens', toknext', room = CountOnly)
  BY <1>2 DEF Tokened
<1>5. ASSUME NEW m \in Covered(text, shown, stack', pos')
      PROVE  Finish(Cut(text, m), Len(stack), f, ConfigOf(pos, T, d))
               = Finish(Cut(text, m), Len(stack), [st |-> place, tok |-> f.tok], ConfigOf(pos', T, d))
  <2>1. m \in shown .. Len(text)
    BY ShownIs DEF Covered
  <2>2. Rest(f.st, Cut(text, m), pos) = Rest(place, Cut(text, m), pos')
    BY <1>2, <2>1
  <2> QED
    BY <1>2, <1>3, <2>2, Moved
<1>6. Len(T) >= Len(T) /\ rc' = Running /\ UNCHANGED caller
  BY <1>2
<1> QED
  BY <1>1, <1>3, <1>4, <1>5, <1>6, TurnKept

LEMMA SkipSpaceKnows ==
  ASSUME Inv, Knows, SkipSpace
  PROVE  Knows'
<1>1. /\ rc = Running /\ pos <= shown /\ text[pos] \in Spaces /\ pos' = pos + 1
      /\ UNCHANGED << caller, stack, tokens, toknext, rc >>
  BY DEF SkipSpace, Turn
<1>2. Retopped(stack, stack', PlaceOf(stack)) /\ PlaceOf(stack) \in TextPlaces
  BY <1>1, PlaceIs DEF Retopped, PlaceOf
<1>3. ASSUME NEW m \in shown .. Len(text)
      PROVE  Rest(PlaceOf(stack), Cut(text, m), pos) = Rest(PlaceOf(stack), Cut(text, m), pos + 1)
  BY <1>1, <1>2, At, AtSpace
<1> QED
  BY <1>1, <1>2, <1>3, MoveKept

LEMMA SeparatorKnows ==
  ASSUME Inv, Knows, NEW char, NEW from \in TextPlaces, NEW to \in TextPlaces, Separator(char, from, to),
         Separates(from, char), AfterSeparator(from) = to
  PROVE  Knows'
<1>1. /\ rc = Running /\ pos <= shown /\ text[pos] = char /\ pos' = pos + 1
      /\ TopIs({from}) /\ stack' = SetTop(to)
      /\ UNCHANGED << caller, tokens, toknext, rc >>
  BY DEF Separator, Turn
<1>2. stack # << >> /\ PlaceOf(stack) = from
  BY <1>1, PlaceIs
<1>3. Retopped(stack, stack', to)
  BY <1>1, <1>2, SetTopRetopped
<1>4. ASSUME NEW m \in shown .. Len(text)
      PROVE  Rest(PlaceOf(stack), Cut(text, m), pos) = Rest(to, Cut(text, m), pos + 1)
  BY <1>1, <1>2, At, AtSeparator
<1> QED
  BY <1>1, <1>3, <1>4, MoveKept

LEMMA MisplacedKnows ==
  ASSUME Inv, Knows, rc = Running, pos <= shown, Fails(INVAL), Misplaced(PlaceOf(stack), text[pos])
  PROVE  Knows'
<1>1. rc' = INVAL /\ UNCHANGED caller
  BY DEF Fails
<1>2. ASSUME NEW m \in shown .. Len(text) PROVE Rest(PlaceOf(stack), Cut(text, m), pos).end = 0
  BY At, PlaceIs, AtMisplaced
<1> QED
  BY <1>1, <1>2, Refused

LEMMA WrongSeparatorKnows ==
  ASSUME Inv, Knows, WrongSeparator
  PROVE  Knows'
<1>1. rc = Running /\ pos <= shown /\ Fails(INVAL)
  BY DEF WrongSeparator, Turn
<1>2. \/ text[pos] = ":" /\ ~TopIs({"COLON"})
      \/ text[pos] = "," /\ ~TopIs({"OBJ_COMMA_OR_END", "ARR_COMMA_OR_END"})
  BY DEF WrongSeparator, Turn
<1>3. TopLevel # "COLON" /\ TopLevel # "OBJ_COMMA_OR_END" /\ TopLevel # "ARR_COMMA_OR_END"
  BY DEF TopLevel
<1>4. \/ text[pos] = ":" /\ PlaceOf(stack) # "COLON"
      \/ text[pos] = "," /\ PlaceOf(stack) \notin {"OBJ_COMMA_OR_END", "ARR_COMMA_OR_END"}
  BY <1>2, <1>3, PlaceIs
<1>5. Misplaced(PlaceOf(stack), text[pos])
  BY <1>4 DEF Misplaced, Separates
<1> QED
  BY <1>1, <1>5, MisplacedKnows

LEMMA SeparatorsKnow ==
  ASSUME Inv, Knows, Colon \/ ObjectComma \/ ArrayComma
  PROVE  Knows'
<1> DEFINE named == {"COLON", "OBJ_VALUE", "OBJ_COMMA_OR_END", "KEY", "ARR_COMMA_OR_END", "ARR_VALUE"}
<1>1. named \subseteq TextPlaces
  BY DEF TextPlaces, ObjectStates, ArrayStates
<1>2. CASE Colon
  BY <1>1, <1>2, SeparatorKnows DEF Colon, Separates, AfterSeparator
<1>3. CASE ObjectComma
  BY <1>1, <1>3, SeparatorKnows DEF ObjectComma, Separates, AfterSeparator
<1>4. CASE ArrayComma
  BY <1>1, <1>4, SeparatorKnows DEF ArrayComma, Separates, AfterSeparator
<1> QED
  BY <1>2, <1>3, <1>4

-----------------------------------------------------------------------------
(* Scalars.                                                                *)

(* The tokens of the code, after one more.                                 *)
LEMMA TokenedNext ==
  ASSUME Inv, NEW B, NEW f, NEW T, NEW d,
         Before(B, f, T, d, stack, tokens, toknext, pos, text, shown, room = CountOnly),
         NEW count \in Nat, NEW grown, room # CountOnly => grown = Grown(tokens, TokOf(stack), count),
         NEW type, NEW start, NEW end, TokenOf(type, start, end, 0) \in Token
  PROVE  LET T2 == Append(Grown(T, f.tok, count), TokenOf(type, start, end, 0))
         IN Tokened(T2, WithToken(grown, type, start, end), toknext + 1, room = CountOnly) /\ Len(T2) = Len(T) + 1
<1> DEFINE t == TokenOf(type, start, end, 0)
           G == Grown(T, f.tok, count)
<1>1. /\ T \in Seq(Token) /\ f.tok \in Nat /\ Len(T) = toknext /\ Len(T) \in Nat
      /\ room # CountOnly => T = tokens /\ f.tok = TokOf(stack)
  BY BeforeIs
<1>2. G \in Seq(Token) /\ Len(G) = Len(T)
  BY <1>1, GrownType
<1>3. room # CountOnly => grown = G
  BY <1>1
<1>4. room # CountOnly => WithToken(grown, type, start, end) = Append(G, t)
  BY <1>3 DEF WithToken, TokenOf
<1> HIDE DEF G, t
<1>5. Append(G, t) \in Seq(Token) /\ Len(Append(G, t)) = Len(G) + 1
  <2>1. t \in Token
    BY DEF t
  <2> QED
    BY <1>2, <2>1
<1>6. Tokened(Append(G, t), WithToken(grown, type, start, end), toknext + 1, room = CountOnly)
  BY <1>1, <1>2, <1>4, <1>5 DEF Tokened
<1> QED
  BY <1>2, <1>5, <1>6 DEF G, t

LEMMA ScalarKnows ==
  ASSUME Inv, Knows, rc = Running, pos <= shown,
         NEW type, NEW start, NEW end \in ScanErrors \cup Nat, NEW next, NEW accepted, NEW grown, NEW count \in Nat,
         Scalar(type, start, end, next, accepted, grown),
         end >= 0 /\ ~IsFull =>
           /\ Retopped(stack, accepted, AfterItem(PlaceOf(stack)))
           /\ stack = << >> => accepted = << >>
           /\ room # CountOnly => grown = Grown(tokens, TokOf(stack), count)
           /\ TokenOf(type, start, end, 0) \in Token /\ next \in Positions,
         \A m \in shown .. Len(text) :
           LET r == Rest(PlaceOf(stack), Cut(text, m), pos)
           IN /\ ScalarRead(Shown, Cut(text, m), PlaceOf(stack), pos, end, next, TokenOf(type, start, end, 0), count)
              /\ r.end # 0 => Len(r.tokens) >= 1
  PROVE  Knows'
<1>1. CASE end = PART /\ Fails(PART)
  <2>1. Cut(text, shown) = Shown /\ shown \in shown .. Len(text)
    BY ShownIs
  <2>2. Rest(PlaceOf(stack), Shown, pos).end = 0
    BY <1>1, <2>1 DEF ScalarRead
  <2>3. rc' = PART /\ UNCHANGED << caller, pos, stack, tokens, toknext >>
    BY <1>1 DEF Fails
  <2> QED
    BY <2>2, <2>3, CutShort
<1>2. CASE end = INVAL /\ rc' = INVAL /\ UNCHANGED caller
  <2>1. \A m \in shown .. Len(text) : Rest(PlaceOf(stack), Cut(text, m), pos).end = 0
    BY <1>2 DEF ScalarRead
  <2> QED
    BY <1>2, <2>1, Refused
<1>3. CASE IsFull /\ rc' = NOMEM /\ UNCHANGED caller
  BY <1>3, TooLarge
<1>4. CASE /\ end >= 0 /\ ~IsFull /\ stack' = accepted
           /\ tokens' = WithToken(grown, type, start, end)
           /\ toknext' = toknext + 1 /\ pos' = next
           /\ UNCHANGED << caller, rc >>
  <2> DEFINE t == TokenOf(type, start, end, 0)
             place == AfterItem(PlaceOf(stack))
  <2>1. /\ Retopped(stack, stack', place) /\ (stack = << >> => stack' = << >>)
        /\ (room # CountOnly => grown = Grown(tokens, TokOf(stack), count))
        /\ t \in Token /\ next \in Positions
    BY <1>4
  <2>2. PICK B, f, T, d : Before(B, f, T, d, stack, tokens, toknext, pos, text, shown, room = CountOnly)
    BY KnownBefore
  <2>3. /\ f \in OpenFrame /\ T \in Seq(Token) /\ d \in Nat /\ f.tok \in Nat /\ f.tok <= Len(T)
        /\ Len(T) = toknext /\ Len(T) \in Nat /\ Len(stack) \in Nat
        /\ f.st = PlaceOf(stack) /\ f.st \in TextPlaces /\ pos \in Positions
    BY <2>2, BeforeIs
  <2> DEFINE T2 == Append(Grown(T, f.tok, count), t)
  <2>4. Tokened(T2, tokens', toknext', room = CountOnly) /\ Len(T2) = Len(T) + 1
    BY <1>4, <2>1, <2>2, TokenedNext
  <2>5. Len(T2) >= Len(T)
    BY <2>3, <2>4
  <2>6. place \in TextPlaces
    BY PlaceIs, NextPlaces
  <2>7. ASSUME NEW m \in Covered(text, shown, stack', pos')
        PROVE  Finish(Cut(text, m), Len(stack), f, ConfigOf(pos, T, d))
                 = Finish(Cut(text, m), Len(stack), [st |-> place, tok |-> f.tok], ConfigOf(pos', T2, d))
    <3>1. m \in shown .. Len(text) /\ (m = shown \/ stack' # << >> \/ pos' <= shown)
      BY ShownIs DEF Covered
    <3> DEFINE u == Cut(text, m)
    <3>2. Text(Shown, u) /\ Len(Shown) = shown /\ Len(u) = m /\ shown \in 0 .. Len(text) /\ Len(text) \in Nat
      BY <3>1, At
    <3>3. ScalarRead(Shown, u, f.st, pos, end, next, t, count)
      BY <2>3, <3>1
    <3> HIDE DEF u
    <3>4. ASSUME f.st = TopLevel, next = Len(Shown) + 1 PROVE Len(u) = Len(Shown)
      <4>1. stack = << >>
        BY <2>3, <3>4, PlaceIs
      <4>2. stack' = << >> /\ pos' = shown + 1
        BY <1>4, <2>1, <3>2, <3>4, <4>1
      <4>3. m = shown
        BY <3>1, <3>2, <4>2
      <4> QED
        BY <3>2, <4>3
    <3> HIDE DEF t
    <3>5. f.st = TopLevel /\ next = Len(Shown) + 1 => Len(u) = Len(Shown)
      BY <3>4
    <3>6. end >= 0 /\ next \in Positions /\ t \in Token /\ Text(Shown, u)
      BY <1>4, <2>1, <3>2
    <3>7. f \in OpenFrame /\ T \in Seq(Token) /\ d \in Nat /\ f.tok <= Len(T) /\ pos \in Positions /\ Len(stack) \in Nat
      BY <2>3
    <3>8. Finish(u, Len(stack), f, ConfigOf(pos, T, d))
            = Finish(u, Len(stack), [st |-> AfterItem(f.st), tok |-> f.tok], ConfigOf(next, T2, d))
      BY <3>3, <3>5, <3>6, <3>7, ScalarFinishes
    <3> QED
      BY <1>4, <2>3, <3>8 DEF u
  <2>8. rc' = Running /\ UNCHANGED caller /\ pos' \in Positions
    BY <1>4, <2>1
  <2> HIDE DEF T2, place
  <2> QED
    BY <2>1, <2>2, <2>4, <2>5, <2>6, <2>7, <2>8, TurnKept
<1> QED
  BY <1>1, <1>2, <1>3, <1>4 DEF Scalar

LEMMA TokenOfScalar ==
  ASSUME NEW type \in Types, NEW start \in Nat, NEW end \in Nat \cup {-1}
  PROVE  TokenOf(type, start, end, 0) \in Token
  BY DEF TokenOf, Token

LEMMA ParseKeyKnows ==
  ASSUME Inv, Knows, ParseKey
  PROVE  Knows'
<1> DEFINE end == StringEnd(Shown, pos + 1)
           accepted == IF end < 0 \/ IsFull THEN stack ELSE SetTop("COLON")
<1>1. /\ rc = Running /\ pos <= shown /\ text[pos] = Quote /\ TopIs({"KEY_OR_END", "KEY"})
      /\ Scalar(JSTOK_STRING, pos + 1, end, end + 1, accepted, tokens)
  BY DEF ParseKey, Turn
<1>2. stack # << >> /\ PlaceOf(stack) \in KeyPlaces
  BY <1>1, PlaceIs DEF KeyPlaces
<1>3. AfterItem(PlaceOf(stack)) = "COLON"
  BY <1>2 DEF AfterItem
<1>4. pos \in Nat \ {0} /\ shown \in Nat
  BY DEF Inv, TypeOK
<1>5. end \in ScanErrors \cup pos + 1 .. shown
  BY <1>4, ShownPart, StringEnds
<1>6. ASSUME NEW m \in shown .. Len(text)
      PROVE  LET r == Rest(PlaceOf(stack), Cut(text, m), pos)
             IN /\ ScalarRead(Shown, Cut(text, m), PlaceOf(stack), pos, end, end + 1,
                              TokenOf(JSTOK_STRING, pos + 1, end, 0), 0)
                /\ r.end # 0 => Len(r.tokens) >= 1
  <2> DEFINE u == Cut(text, m)
  <2>1. /\ u \in Seq(STRING) /\ pos \in Positions /\ pos <= Len(u) /\ u[pos] = Quote
        /\ Text(Shown, u) /\ pos \in 1 .. Len(Shown)
    BY <1>1, At
  <2> HIDE DEF u, end
  <2>2. AtItemOf(PlaceOf(stack), u, pos, StringAt(u, pos, 0))
    BY <1>2, <2>1, AtKey
  <2>3. ScalarRead(Shown, u, PlaceOf(stack), pos, end, end + 1, TokenOf(JSTOK_STRING, pos + 1, end, 0), 0)
    BY <2>1, <2>2, StringRead DEF end
  <2>4. u[pos] \notin Spaces \cup Marks
    BY <2>1, Marked DEF Marks, Quote
  <2>5. Rest(PlaceOf(stack), u, pos).end # 0 => Len(Rest(PlaceOf(stack), u, pos).tokens) >= 1
    BY <2>1, <2>4, PlaceIs, FitAdds
  <2> QED
    BY <2>3, <2>5 DEF u
<1> HIDE DEF end, accepted
<1>7. end \in ScanErrors \cup Nat
  BY <1>4, <1>5
<1>8. ASSUME end >= 0, ~IsFull
      PROVE  /\ Retopped(stack, accepted, AfterItem(PlaceOf(stack)))
             /\ room # CountOnly => tokens = Grown(tokens, TokOf(stack), 0)
             /\ TokenOf(JSTOK_STRING, pos + 1, end, 0) \in Token /\ end + 1 \in Positions
  <2>1. end \in Nat
    BY <1>7, <1>8 DEF ScanErrors, PART, INVAL
  <2>2. accepted = SetTop("COLON")
    BY <1>8, <2>1 DEF accepted
  <2>3. Retopped(stack, accepted, AfterItem(PlaceOf(stack)))
    BY <1>2, <1>3, <2>2, SetTopRetopped
  <2>4. TokenOf(JSTOK_STRING, pos + 1, end, 0) \in Token
    BY <1>4, <2>1, TokenOfScalar DEF Types
  <2>5. end + 1 \in Positions
    BY <2>1 DEF Positions
  <2> QED
    BY <2>3, <2>4, <2>5, MachineTokens
<1> QED
  BY <1>1, <1>2, <1>6, <1>7, <1>8, ScalarKnows

LEMMA ParseStringKnows ==
  ASSUME Inv, Knows, ParseString
  PROVE  Knows'
<1> DEFINE end == StringEnd(Shown, pos + 1)
<1>1. rc = Running /\ pos <= shown /\ text[pos] = Quote /\ ~TopIs({"KEY_OR_END", "KEY"})
  BY DEF ParseString, Turn
<1>2. CASE ~ValueFits /\ Fails(INVAL)
  <2>1. PlaceOf(stack) \notin KeyPlaces
    BY <1>1, PlaceIs DEF KeyPlaces, TopLevel
  <2>2. PlaceOf(stack) \notin ValuePlaces
    BY <1>2, ValueRetopped
  <2>3. Misplaced(PlaceOf(stack), text[pos])
    BY <1>1, <2>1, <2>2, Marked DEF Misplaced, Marks, Quote
  <2> QED
    BY <1>1, <1>2, <2>3, MisplacedKnows
<1>3. CASE ValueFits /\ Scalar(JSTOK_STRING, pos + 1, end, end + 1, StackWithValue, TokensWithValue)
  <2>1. pos \in Nat \ {0} /\ shown \in Nat
    BY DEF Inv, TypeOK
  <2>2. end \in ScanErrors \cup pos + 1 .. shown
    BY <2>1, ShownPart, StringEnds
  <2>3. PlaceOf(stack) \in ValuePlaces
    BY <1>3, ValueRetopped
  <2>4. ASSUME NEW m \in shown .. Len(text)
        PROVE  LET r == Rest(PlaceOf(stack), Cut(text, m), pos)
               IN /\ ScalarRead(Shown, Cut(text, m), PlaceOf(stack), pos, end, end + 1,
                                TokenOf(JSTOK_STRING, pos + 1, end, 0), 1)
                  /\ r.end # 0 => Len(r.tokens) >= 1
    <3> DEFINE u == Cut(text, m)
    <3>1. /\ u \in Seq(STRING) /\ pos \in Positions /\ pos <= Len(u) /\ u[pos] = Quote
          /\ Text(Shown, u) /\ pos \in 1 .. Len(Shown)
      BY <1>1, At
    <3> HIDE DEF u, end
    <3>2. AtItemOf(PlaceOf(stack), u, pos, StringAt(u, pos, 1))
      BY <2>3, <3>1, AtString
    <3>3. ScalarRead(Shown, u, PlaceOf(stack), pos, end, end + 1, TokenOf(JSTOK_STRING, pos + 1, end, 0), 1)
      BY <3>1, <3>2, StringRead DEF end
    <3>4. u[pos] \notin Spaces \cup Marks
      BY <3>1, Marked DEF Marks, Quote
    <3>5. Rest(PlaceOf(stack), u, pos).end # 0 => Len(Rest(PlaceOf(stack), u, pos).tokens) >= 1
      BY <3>1, <3>4, PlaceIs, FitAdds
    <3> QED
      BY <3>3, <3>5 DEF u
  <2> HIDE DEF end
  <2>5. end \in ScanErrors \cup Nat
    BY <2>1, <2>2
  <2>6. ASSUME end >= 0
        PROVE  TokenOf(JSTOK_STRING, pos + 1, end, 0) \in Token /\ end + 1 \in Positions
    <3>1. end \in Nat
      BY <2>5, <2>6 DEF ScanErrors, PART, INVAL
    <3> QED
      BY <2>1, <3>1, TokenOfScalar DEF Types, Positions
  <2>7. Retopped(stack, StackWithValue, AfterItem(PlaceOf(stack))) /\ (stack = << >> => StackWithValue = << >>)
    BY <1>3, ValueRetopped
  <2>8. room # CountOnly => TokensWithValue = Grown(tokens, TokOf(stack), 1)
    BY MachineTokens
  <2> QED
    BY <1>1, <1>3, <2>4, <2>5, <2>6, <2>7, <2>8, ScalarKnows
<1> QED
  BY <1>2, <1>3 DEF ParseString

LEMMA ParsePrimitiveKnows ==
  ASSUME Inv, Knows, ParsePrimitive
  PROVE  Knows'
<1> DEFINE end == PrimitiveEnd(Shown, pos)
<1>1. rc = Running /\ pos <= shown /\ text[pos] \notin Spaces \cup Marks /\ text[pos] \notin {"{", "[", Quote}
  BY DEF ParsePrimitive, Marks
<1>2. CASE ~ValueFits /\ Fails(INVAL)
  <2>1. PlaceOf(stack) \notin ValuePlaces
    BY <1>2, ValueRetopped
  <2>2. Misplaced(PlaceOf(stack), text[pos])
    BY <1>1, <2>1 DEF Misplaced
  <2> QED
    BY <1>1, <1>2, <2>2, MisplacedKnows
<1>3. CASE ValueFits /\ Scalar(JSTOK_PRIMITIVE, pos, end, end, StackWithValue, TokensWithValue)
  <2>0. pos <= shown
    BY <1>1
  <2>1. pos \in Nat \ {0} /\ shown \in Nat /\ pos \in 1 .. shown
    BY <2>0 DEF Inv, TypeOK
  <2>2. end \in ScanErrors \cup pos .. shown + 1
    BY <2>1, ShownPart, PrimitiveEnds
  <2>3. PlaceOf(stack) \in ValuePlaces
    BY <1>3, ValueRetopped
  <2>4. ASSUME NEW m \in shown .. Len(text)
        PROVE  LET r == Rest(PlaceOf(stack), Cut(text, m), pos)
               IN /\ ScalarRead(Shown, Cut(text, m), PlaceOf(stack), pos, end, end,
                                TokenOf(JSTOK_PRIMITIVE, pos, end, 0), 1)
                  /\ r.end # 0 => Len(r.tokens) >= 1
    <3> DEFINE u == Cut(text, m)
    <3>1. /\ u \in Seq(STRING) /\ pos \in Positions /\ pos <= Len(u) /\ u[pos] = text[pos]
          /\ Text(Shown, u) /\ pos \in 1 .. Len(Shown)
      BY <1>1, At
    <3> HIDE DEF u, end
    <3>2. AtItemOf(PlaceOf(stack), u, pos, PrimitiveAt(u, pos))
      BY <1>1, <2>3, <3>1, AtPrimitive
    <3>3. ScalarRead(Shown, u, PlaceOf(stack), pos, end, end, TokenOf(JSTOK_PRIMITIVE, pos, end, 0), 1)
      BY <2>3, <3>1, <3>2, PrimitiveRead DEF end
    <3>5. Rest(PlaceOf(stack), u, pos).end # 0 => Len(Rest(PlaceOf(stack), u, pos).tokens) >= 1
      BY <1>1, <3>1, PlaceIs, FitAdds
    <3> QED
      BY <3>3, <3>5 DEF u
  <2> HIDE DEF end
  <2>5. end \in ScanErrors \cup Nat
    BY <2>1, <2>2
  <2>6. ASSUME end >= 0
        PROVE  TokenOf(JSTOK_PRIMITIVE, pos, end, 0) \in Token /\ end \in Positions
    <3>1. end \in Nat /\ end # 0
      BY <2>1, <2>2, <2>6 DEF ScanErrors, PART, INVAL
    <3> QED
      BY <2>1, <3>1, TokenOfScalar DEF Types, Positions
  <2>7. Retopped(stack, StackWithValue, AfterItem(PlaceOf(stack))) /\ (stack = << >> => StackWithValue = << >>)
    BY <1>3, ValueRetopped
  <2>8. room # CountOnly => TokensWithValue = Grown(tokens, TokOf(stack), 1)
    BY MachineTokens
  <2> QED
    BY <1>1, <1>3, <2>4, <2>5, <2>6, <2>7, <2>8, ScalarKnows
<1> QED
  BY <1>2, <1>3 DEF ParsePrimitive

-----------------------------------------------------------------------------
(* Containers.                                                             *)

Opens(type, opener, st) ==
  \/ type = JSTOK_OBJECT /\ opener = "{" /\ st = "KEY_OR_END"
  \/ type = JSTOK_ARRAY /\ opener = "[" /\ st = "VALUE_OR_END"

LEMMA OpensIs ==
  ASSUME NEW type, NEW opener, NEW st, Opens(type, opener, st)
  PROVE  /\ type \in Types /\ st \in TextPlaces /\ opener \in Openers
         /\ opener \notin Spaces \cup Marks /\ opener # Quote
         /\ \A u \in Seq(STRING) : \A place \in ValuePlaces : \A i \in Positions :
              i <= Len(u) /\ u[i] = opener => AtItemOf(place, u, i, ContainerOf(type, i, Rest(st, u, i + 1)))
<1>1. type \in Types /\ st \in TextPlaces
  BY DEF Opens, Types, TextPlaces, ObjectStates, ArrayStates
<1>2. opener \in Openers
  BY DEF Opens, Openers
<1>3. opener \notin Spaces
  BY Marked DEF Opens
<1>4. opener \notin Marks /\ opener # Quote
  BY DEF Opens, Marks, Quote
<1>5. ASSUME NEW u \in Seq(STRING), NEW place \in ValuePlaces, NEW i \in Positions, i <= Len(u), u[i] = opener
      PROVE  AtItemOf(place, u, i, ContainerOf(type, i, Rest(st, u, i + 1)))
  BY <1>5, AtOpener DEF Opens
<1> QED
  BY <1>1, <1>2, <1>3, <1>4, <1>5

(* What the character at pos, and all after it, hold.                      *)
LEMMA OpenerNeeds ==
  ASSUME Inv, pos <= shown, NEW type, NEW opener, NEW st, Opens(type, opener, st), text[pos] = opener,
         ValueFits, NEW m \in shown .. Len(text), Rest(PlaceOf(stack), Cut(text, m), pos).end # 0
  PROVE  /\ Len(Rest(PlaceOf(stack), Cut(text, m), pos).tokens) >= 1
         /\ Rest(PlaceOf(stack), Cut(text, m), pos).depth >= 1
<1> DEFINE u == Cut(text, m)
<1>1. u \in Seq(STRING) /\ pos \in Positions /\ pos <= Len(u) /\ u[pos] = opener
  BY At
<1>2. PlaceOf(stack) \in TextPlaces /\ PlaceOf(stack) \in ValuePlaces
  BY PlaceIs, ValueRetopped
<1>3. opener \in Openers /\ opener \notin Spaces \cup Marks
  BY OpensIs
<1> HIDE DEF u
<1>4. Rest(PlaceOf(stack), u, pos).end # 0
  BY DEF u
<1>5. Len(Rest(PlaceOf(stack), u, pos).tokens) >= 1
  BY <1>1, <1>2, <1>3, <1>4, FitAdds
<1>6. Rest(PlaceOf(stack), u, pos).depth >= 1
  BY <1>1, <1>2, <1>3, <1>4, OpenerAdds
<1> QED
  BY <1>5, <1>6 DEF u

LEMMA OpenedKnows ==
  ASSUME Inv, Knows, rc = Running, pos <= shown, NEW type, NEW opener, NEW st, Opens(type, opener, st),
         text[pos] = opener, ValueFits,
         tokens' = WithToken(TokensWithValue, type, pos, -1), toknext' = toknext + 1,
         stack' = Append(StackWithValue,
                     [type |-> type, st |-> st, tok |-> IF room = CountOnly THEN 0 ELSE toknext + 1]),
         pos' = pos + 1, UNCHANGED << caller, rc >>
  PROVE  Knows'
<1> DEFINE place == AfterItem(PlaceOf(stack))
           new == [type |-> type, st |-> st, tok |-> IF room = CountOnly THEN 0 ELSE toknext + 1]
           t == TokenOf(type, pos, -1, 0)
<1>1. PICK B, f, T, d : Before(B, f, T, d, stack, tokens, toknext, pos, text, shown, room = CountOnly)
  BY KnownBefore
<1>2. /\ f \in OpenFrame /\ T \in Seq(Token) /\ d \in Nat /\ f.tok \in Nat /\ f.tok <= Len(T)
      /\ Len(T) = toknext /\ Len(T) \in Nat /\ Len(stack) \in Nat
      /\ f.st = PlaceOf(stack) /\ f.st \in TextPlaces /\ pos \in Positions
  BY <1>1, BeforeIs
<1>3. type \in Types /\ st \in TextPlaces
  BY OpensIs
<1>4. f.st \in ValuePlaces /\ Retopped(stack, StackWithValue, place)
  BY <1>2, ValueRetopped
<1>5. place \in TextPlaces
  BY PlaceIs, NextPlaces
<1> DEFINE T2 == Append(Grown(T, f.tok, 1), t)
           h == [st |-> st, tok |-> Len(T) + 1]
<1>6. t \in Token
  BY <1>2, <1>3, TokenOfScalar DEF Positions
<1>7. room # CountOnly => TokensWithValue = Grown(tokens, TokOf(stack), 1)
  BY MachineTokens
<1>8. Tokened(T2, tokens', toknext', room = CountOnly) /\ Len(T2) = Len(T) + 1
  BY <1>1, <1>6, <1>7, TokenedNext
<1>9. h \in OpenFrame /\ h.st = st /\ h.tok = Len(T) + 1
  BY <1>2, <1>3 DEF OpenFrame
<1>10. StackWithValue \in Seq(Frame)
  BY AcceptedSame DEF SameFrames
<1>11. /\ Len(stack') = Len(StackWithValue) + 1
       /\ \A j \in 1 .. Len(StackWithValue) : stack'[j] = StackWithValue[j]
       /\ stack'[Len(StackWithValue) + 1] = new
  <2> DEFINE S == Frame \cup {new}
  <2>1. StackWithValue \in Seq(S) /\ new \in S
    BY <1>10
  <2> HIDE DEF S, new
  <2>2. stack' = Append(StackWithValue, new)
    BY DEF new
  <2> QED
    BY <2>1, <2>2
<1>12. new.st = st /\ (room # CountOnly => new.tok = toknext + 1)
  OBVIOUS
<1> HIDE DEF new, t
<1>18. f \in OpenFrame /\ T \in Seq(Token) /\ d \in Nat /\ f.tok <= Len(T) /\ Len(stack) \in Nat /\ pos \in Positions
  BY <1>2
<1>13. ASSUME NEW m \in shown .. Len(text)
       PROVE  Finish(Cut(text, m), Len(stack), f, ConfigOf(pos, T, d))
                = Finish(Cut(text, m), Len(stack), [st |-> place, tok |-> f.tok],
                    Finish(Cut(text, m), Len(stack) + 1, h, ConfigOf(pos + 1, T2, d)))
  <2> DEFINE u == Cut(text, m)
  <2>1. u \in Seq(STRING) /\ pos <= Len(u) /\ u[pos] = opener
    BY At
  <2> HIDE DEF u
  <2>2. AtItemOf(f.st, u, pos, ContainerOf(type, pos, Rest(st, u, pos + 1)))
    BY <1>2, <1>4, <2>1, OpensIs
  <2>3. LET item == ContainerOf(type, pos, Rest(st, u, pos + 1))
        IN Rest(f.st, u, pos) = IF item.end = 0 THEN Unreadable ELSE Followed(item, Rest(place, u, item.end))
    BY <1>2, <2>2 DEF AtItemOf
  <2> HIDE DEF place
  <2>4. Finish(u, Len(stack), f, ConfigOf(pos, T, d))
          = Finish(u, Len(stack), [st |-> place, tok |-> f.tok],
              Finish(u, Len(stack) + 1, [st |-> st, tok |-> Len(T) + 1],
                ConfigOf(pos + 1, Append(Grown(T, f.tok, 1), TokenOf(type, pos, -1, 0)), d)))
    BY <1>3, <1>5, <1>18, <2>1, <2>3, Entered
  <2> QED
    BY <2>4 DEF u, t
<1>14. stack \in Seq(Frame) /\ text \in Seq(STRING) /\ shown \in 0 .. Len(text)
  BY DEF Inv, TypeOK
<1> HIDE DEF place, T2, h
<1>15. h.tok = Len(T2) /\ h.st = stack'[Len(StackWithValue) + 1].st
       /\ (room # CountOnly => h.tok = stack'[Len(StackWithValue) + 1].tok)
  BY <1>2, <1>8, <1>9, <1>11, <1>12
<1>16. Told(stack', tokens', toknext', pos + 1, text, shown, room = CountOnly)
  <2>1. Retopped(stack, StackWithValue, place)
    BY <1>4
  <2>2. Tokened(T2, tokens', toknext', room = CountOnly) /\ Len(T2) = Len(T) + 1
    BY <1>8
  <2>3. Pushed(h, StackWithValue, stack', T2, room = CountOnly)
    BY <1>9, <1>11, <1>15 DEF Pushed
  <2>7. pos \in Positions /\ pos <= shown
    BY <1>2
  <2> QED
    BY <1>1, <1>5, <1>13, <1>14, <2>1, <2>2, <2>3, <2>7, ToldPushed
<1>17. Told(stack', tokens', toknext', pos', text', shown', room' = CountOnly) /\ rc' = Running
  BY <1>16 DEF caller
<1> QED
  BY <1>17, Kept

LEMMA StartContainerKnows ==
  ASSUME Inv, Knows, NEW type, NEW opener, NEW st, Opens(type, opener, st), StartContainer(type, opener, st)
  PROVE  Knows'
<1>1. rc = Running /\ pos <= shown /\ text[pos] = opener
  BY DEF StartContainer, Turn
<1>2. CASE ~ValueFits /\ Fails(INVAL)
  <2>1. PlaceOf(stack) \notin ValuePlaces
    BY <1>2, ValueRetopped
  <2>2. opener \notin Spaces \cup Marks /\ opener # Quote
    BY OpensIs
  <2>3. Misplaced(PlaceOf(stack), text[pos])
    BY <1>1, <2>1, <2>2 DEF Misplaced
  <2> QED
    BY <1>1, <1>2, <2>3, MisplacedKnows
<1>3. CASE ValueFits /\ IsFull /\ rc' = NOMEM /\ UNCHANGED caller
  <2>1. \A m \in shown .. Len(text) : LET r == Rest(PlaceOf(stack), Cut(text, m), pos)
                                      IN r.end # 0 => Len(r.tokens) >= 1
    BY <1>1, <1>3, OpenerNeeds
  <2> QED
    BY <1>1, <1>3, <2>1, TooLarge
<1>4. CASE ValueFits /\ Len(stack) >= MaxDepth /\ rc' = DEPTH /\ UNCHANGED caller
  <2>1. \A m \in shown .. Len(text) : LET r == Rest(PlaceOf(stack), Cut(text, m), pos)
                                      IN r.end # 0 => r.depth >= 1
    BY <1>1, <1>4, OpenerNeeds
  <2> QED
    BY <1>1, <1>4, <2>1, TooLarge
<1>5. CASE /\ ValueFits
           /\ tokens' = WithToken(TokensWithValue, type, pos, -1) /\ toknext' = toknext + 1
           /\ stack' = Append(StackWithValue,
                         [type |-> type, st |-> st, tok |-> IF room = CountOnly THEN 0 ELSE toknext + 1])
           /\ pos' = pos + 1 /\ UNCHANGED << caller, rc >>
  BY <1>1, <1>5, OpenedKnows
<1> QED
  BY <1>2, <1>3, <1>4, <1>5 DEF StartContainer

Ends(closer, states) ==
  /\ closer \in {"}", "]"}
  /\ \A place \in TextPlaces : place \in states <=> closer \in Closer(place)
  /\ TopLevel \notin states

LEMMA EndsAre ==
  /\ Ends("}", {"KEY_OR_END", "OBJ_COMMA_OR_END"})
  /\ Ends("]", {"VALUE_OR_END", "ARR_COMMA_OR_END"})
  BY DEF Ends, Closer, TopLevel

LEMMA ClosedKnows ==
  ASSUME Inv, Knows, rc = Running, pos <= shown, stack # << >>, text[pos] \in Closer(PlaceOf(stack)),
         tokens' = IF Top.tok = 0 THEN tokens ELSE [tokens EXCEPT ![Top.tok].end = pos + 1],
         stack' = SubSeq(stack, 1, Len(stack) - 1),
         pos' = pos + 1, UNCHANGED << caller, toknext, rc >>
  PROVE  Knows'
<1>1. PICK B, f, T, d : Before(B, f, T, d, stack, tokens, toknext, pos, text, shown, room = CountOnly)
  BY KnownBefore
<1>2. /\ f \in OpenFrame /\ T \in Seq(Token) /\ d \in Nat /\ d <= MaxDepth /\ f.tok \in Nat
      /\ Len(T) = toknext /\ Len(T) \in Nat /\ Len(stack) \in Nat
      /\ f.st = PlaceOf(stack) /\ f.st \in TextPlaces /\ pos \in Positions
      /\ room # CountOnly => T = tokens /\ f.tok = TokOf(stack)
  BY <1>1, BeforeIs
<1>3. pos + 1 \in Positions /\ pos + 1 \in Nat
  BY <1>2 DEF Positions
<1> DEFINE T2 == Retold(T, f.tok, pos + 1, 0)
           d2 == Larger(d, Len(stack))
<1>4. T2 \in Seq(Token) /\ Len(T2) = Len(T)
  <2>1. T \in Seq(Token) /\ f.tok \in Nat /\ pos + 1 \in Nat /\ 0 \in Nat
    BY <1>2, <1>3
  <2> QED
    BY <2>1, RetoldType
<1>5. d2 \in Nat /\ d2 <= MaxDepth
  <2>1. Len(stack) <= MaxDepth
    BY DEF Inv, TypeOK
  <2> QED
    BY <1>2, <2>1 DEF Larger
<1>6. room # CountOnly => tokens' = T2
  <2> SUFFICES ASSUME room # CountOnly PROVE tokens' = T2
    OBVIOUS
  <2>1. Top.tok = TokOf(stack) /\ TokOf(stack) # 0 /\ TokOf(stack) \in 1 .. Len(tokens) /\ tokens \in Seq(Token)
    BY MachineTokens
  <2>2. tokens' = [tokens EXCEPT ![TokOf(stack)].end = pos + 1]
    BY <2>1
  <2>3. [tokens EXCEPT ![TokOf(stack)].end = pos + 1] = Retold(tokens, TokOf(stack), pos + 1, 0)
    BY <1>3, <2>1, EndedIs
  <2> QED
    BY <1>2, <2>2, <2>3
<1>7. Tokened(T2, tokens', toknext', room = CountOnly)
  BY <1>2, <1>4, <1>6 DEF Tokened
<1>8. ASSUME NEW m \in shown .. Len(text)
      PROVE  Finish(Cut(text, m), Len(stack), f, ConfigOf(pos, T, d)) = ConfigOf(pos + 1, T2, d2)
  <2>1. Cut(text, m) \in Seq(STRING) /\ pos <= Len(Cut(text, m)) /\ Cut(text, m)[pos] = text[pos]
    BY At
  <2>2. Rest(f.st, Cut(text, m), pos) = Empty(pos + 1)
    BY <1>2, <2>1, AtCloser
  <2> QED
    BY <1>2, <1>3, <2>2, Close
<1>9. stack \in Seq(Frame) /\ text \in Seq(STRING) /\ shown \in 0 .. Len(text)
  BY DEF Inv, TypeOK
<1> HIDE DEF T2, d2
<1>10. Told(SubSeq(stack, 1, Len(stack) - 1), tokens', toknext', pos + 1, text, shown, room = CountOnly)
  <2>1. pos \in Positions /\ pos <= shown
    BY <1>2
  <2>2. Len(T2) = Len(T)
    BY <1>4
  <2> QED
    BY <1>1, <1>5, <1>7, <1>8, <1>9, <2>1, <2>2, ToldPopped
<1>11. Told(stack', tokens', toknext', pos', text', shown', room' = CountOnly) /\ rc' = Running
  BY <1>10 DEF caller
<1> QED
  BY <1>11, Kept

LEMMA EndContainerKnows ==
  ASSUME Inv, Knows, NEW closer, NEW states, Ends(closer, states), EndContainer(closer, states)
  PROVE  Knows'
<1>1. rc = Running /\ pos <= shown /\ text[pos] = closer
  BY DEF EndContainer, Turn
<1>2. PlaceOf(stack) \in TextPlaces /\ closer \in {"}", "]"}
      /\ (PlaceOf(stack) \in states <=> closer \in Closer(PlaceOf(stack)))
      /\ (PlaceOf(stack) \in states => stack # << >>)
  BY PlaceIs DEF Ends
<1>3. TopIs(states) <=> PlaceOf(stack) \in states
  BY <1>2, PlaceIs
<1>4. CASE ~TopIs(states) /\ Fails(INVAL)
  <2>1. Misplaced(PlaceOf(stack), text[pos])
    BY <1>1, <1>2, <1>3, <1>4 DEF Misplaced
  <2> QED
    BY <1>1, <1>4, <2>1, MisplacedKnows
<1>5. CASE /\ TopIs(states)
           /\ tokens' = IF Top.tok = 0 THEN tokens ELSE [tokens EXCEPT ![Top.tok].end = pos + 1]
           /\ stack' = SubSeq(stack, 1, Len(stack) - 1)
           /\ pos' = pos + 1 /\ UNCHANGED << caller, toknext, rc >>
  <2>1. stack # << >> /\ text[pos] \in Closer(PlaceOf(stack))
    BY <1>1, <1>2, <1>3, <1>5
  <2> QED
    BY <1>1, <1>5, <2>1, ClosedKnows
<1> QED
  BY <1>4, <1>5 DEF EndContainer

-----------------------------------------------------------------------------
(* Where nothing more is shown, and the calls.                             *)

LEMMA ReadThrough ==
  ASSUME Inv, Knows, rc = Running, pos > shown, stack = << >>
  PROVE  /\ ReadingOf(Shown).end # 0 /\ Len(ReadingOf(Shown).tokens) = toknext /\ ReadingOf(Shown).depth <= MaxDepth
         /\ tokens = IF room = CountOnly THEN << >> ELSE ReadingOf(Shown).tokens
<1>1. PICK B, f, T, d : Before(B, f, T, d, stack, tokens, toknext, pos, text, shown, room = CountOnly)
  BY KnownBefore
<1>2. /\ T \in Seq(Token) /\ d \in Nat /\ d <= MaxDepth /\ Len(T) = toknext /\ pos \in Positions
      /\ room # CountOnly => T = tokens
  BY <1>1, BeforeIs
<1> DEFINE X == ConfigOf(pos, T, d)
<1>3. f = Root /\ B \in Seq(OpenFrame) /\ Len(B) = 0
  BY <1>1 DEF Before, Innermost
<1>4. B = << >> /\ Root \in OpenFrame /\ << >> \in Seq(OpenFrame) /\ Len(<< >>) = 0
  BY <1>3 DEF Root, OpenFrame, TextPlaces
<1>5. shown \in Covered(text, shown, stack, pos) /\ Cut(text, shown) = Shown /\ Shown \in Seq(STRING)
      /\ Len(Shown) = shown
  BY ShownIs, ShownPart DEF Covered
<1>6. X \in Config /\ X.at = pos
  BY <1>2, ConfigType DEF Positions
<1>7. Completes(Shown, Append(<< >>, Root), X, Whole(Shown))
  BY <1>1, <1>3, <1>4, <1>5 DEF Before, Tells
<1> HIDE DEF X
<1>8. Completes(Shown, << >>, Finish(Shown, 0, Root, X), Whole(Shown))
  BY <1>4, <1>5, <1>6, <1>7, ChainTop
<1>9. Finish(Shown, 0, Root, X) = Whole(Shown)
  <2>1. Finish(Shown, 0, Root, X) \in Config
    BY <1>4, <1>5, <1>6, FinishType
  <2> QED
    BY <1>5, <1>8, <2>1, ChainEnd
<1>10. Rest(TopLevel, Shown, pos) = Empty(pos)
  <2>1. TopLevel \in TextPlaces /\ pos > Len(Shown)
    BY <1>5 DEF TextPlaces
  <2> QED
    BY <1>2, <1>5, <2>1, AtEnd
<1>11. Finish(Shown, 0, Root, X) = ConfigOf(pos, T, Larger(d, 0))
  <2>1. Rest(Root.st, Shown, pos) = Empty(pos) /\ Root.tok = 0
    BY <1>10 DEF Root
  <2>2. Finish(Shown, 0, Root, X) = ConfigOf(pos, Retold(T, Root.tok, pos, 0), Larger(d, 0))
    BY <1>2, <1>4, <2>1, Close DEF X
  <2> QED
    BY <1>2, <2>1, <2>2, NotGrown
<1>12. Whole(Shown).at # 0 /\ Whole(Shown).tokens = T /\ Whole(Shown).depth <= MaxDepth
  <2>1. Larger(d, 0) <= MaxDepth
    BY <1>2 DEF Larger
  <2> QED
    BY <1>2, <1>9, <1>11, <2>1 DEF ConfigOf, Positions
<1>13. ReadingOf(Shown).end # 0 /\ ReadingOf(Shown).tokens = T /\ ReadingOf(Shown).depth <= MaxDepth
  <2> DEFINE w == Whole(Shown)
             r == ReadingOf(Shown)
  <2>1. (w.at # 0 <=> r.end # 0) /\ (w.at # 0 => w.tokens = r.tokens /\ w.depth = r.depth)
    BY <1>5, WholeIs
  <2> HIDE DEF w, r
  <2>2. r.end # 0 /\ r.tokens = T /\ r.depth <= MaxDepth
    BY <1>12, <2>1 DEF w
  <2> QED
    BY <2>2 DEF r
<1>14. tokens = IF room = CountOnly THEN << >> ELSE T
  <2>1. CASE room = CountOnly
    <3>1. tokens \in Seq(Token) /\ Len(tokens) = 0
      BY <2>1 DEF Inv, TypeOK
    <3> QED
      BY <2>1, <3>1
  <2>2. CASE room # CountOnly
    BY <1>2, <2>2
  <2> QED
    BY <2>1, <2>2
<1> QED
  BY <1>2, <1>13, <1>14

LEMMA EndOfInputKnows ==
  ASSUME Inv, Knows, EndOfInput
  PROVE  Knows'
<1>1. /\ rc = Running /\ pos > shown /\ UNCHANGED << caller, pos, stack, tokens, toknext >>
      /\ rc' = IF stack # << >> THEN PART ELSE toknext
  BY DEF EndOfInput
<1>2. CASE stack # << >>
  <2>1. Rest(PlaceOf(stack), Shown, pos) = Unreadable
    <3>1. PlaceOf(stack) \in TextPlaces /\ PlaceOf(stack) # TopLevel
      BY <1>2, PlaceIs
    <3>2. Shown \in Seq(STRING) /\ pos > Len(Shown) /\ pos \in Positions
      BY <1>1, ShownPart DEF Inv, TypeOK, Positions
    <3> QED
      BY <3>1, <3>2, AtEnd
  <2>2. Rest(PlaceOf(stack), Shown, pos).end = 0
    BY <2>1 DEF Unreadable
  <2>3. rc' = PART
    BY <1>1, <1>2
  <2> QED
    BY <1>1, <1>2, <2>2, <2>3, CutShort
<1>3. CASE stack = << >>
  <2>1. /\ ReadingOf(Shown).end # 0 /\ Len(ReadingOf(Shown).tokens) = toknext /\ ReadingOf(Shown).depth <= MaxDepth
        /\ tokens = IF room = CountOnly THEN << >> ELSE ReadingOf(Shown).tokens
    BY <1>1, <1>3, ReadThrough
  <2>2. rc' = toknext /\ toknext \in Nat /\ Shown' = Shown /\ text' = text /\ room' = room /\ tokens' = tokens
    BY <1>1, <1>3 DEF caller, Shown, Inv, TypeOK
  <2>3. rc' \notin {Running, PART, INVAL, NOMEM, DEPTH}
    BY <2>2 DEF Running, PART, INVAL, NOMEM, DEPTH
  <2>4. TokensAreTheTexts'
    BY <2>1, <2>2, <2>3 DEF TokensAreTheTexts
  <2> QED
    BY <2>3, <2>4 DEF Knows
<1> QED
  BY <1>2, <1>3

LEMMA ToldFirst ==
  ASSUME NEW txt \in Seq(STRING), NEW n \in 0 .. Len(txt), NEW counting
  PROVE  Told(<< >>, << >>, 0, 1, txt, n, counting)
<1> DEFINE G == << Root >>
           T == << >>
<1>1. Root \in OpenFrame
  BY DEF Root, OpenFrame, TextPlaces
<1>2. G \in Seq(OpenFrame) /\ Len(G) = 1 /\ G[1] = Root
  BY <1>1
<1>3. T \in Seq(Token) /\ Len(T) = 0 /\ Len(<< >>) = 0
  OBVIOUS
<1>d. 0 \in Nat /\ 0 <= MaxDepth
  BY DepthAssumption
<1>4. Mirrors(G, T, << >>, << >>, 0, counting)
  <2> HIDE DEF G
  <2> QED
    BY <1>2, <1>3 DEF Mirrors
<1>5. ASSUME NEW m \in Covered(txt, n, << >>, 1) PROVE Completes(Cut(txt, m), G, ConfigOf(1, T, 0), Whole(Cut(txt, m)))
  <2>1. m \in n .. Len(txt)
    BY DEF Covered
  <2>2. Cut(txt, m) \in Seq(STRING)
    BY <2>1, CutIs
  <2> QED
    BY <2>2, FromTheStart
<1>6. Tells(G, ConfigOf(1, T, 0), txt, Covered(txt, n, << >>, 1))
  BY <1>5 DEF Tells
<1> HIDE DEF G, T
<1>7. Told(<< >>, << >>, 0, 1, txt, n, counting)
  BY <1>d, <1>4, <1>6 DEF Told
<1> QED
  BY <1>7

LEMMA BeginKnows ==
  ASSUME NEW t \in Texts, NEW n \in 0 .. Len(t), NEW max, Begin(t, n, max)
  PROVE  Knows'
<1>1. t \in Seq(STRING)
  BY TextsAssumption
<1>2. Told(<< >>, << >>, 0, 1, t, n, max = CountOnly)
  BY <1>1, ToldFirst
<1>3. /\ rc' = Running /\ text' = t /\ shown' = n /\ room' = max
      /\ pos' = 1 /\ stack' = << >> /\ tokens' = << >> /\ toknext' = 0
  BY DEF Begin
<1>4. Told(stack', tokens', toknext', pos', text', shown', room' = CountOnly)
  BY <1>2, <1>3
<1> QED
  BY <1>3, <1>4, Kept

LEMMA MoreKnows ==
  ASSUME Inv, Knows, NEW n, More(n)
  PROVE  Knows'
<1>1. /\ rc = PART /\ n \in shown + 1 .. Len(text) /\ shown' = n /\ rc' = Running
      /\ UNCHANGED << text, room, pos, stack, tokens, toknext >>
  BY DEF More
<1>2. /\ Told(stack, tokens, toknext, pos, text, shown, room = CountOnly)
      /\ stack # << >> \/ pos <= shown
  BY <1>1 DEF Knows
<1>3. shown \in Nat /\ Len(text) \in Nat
  BY DEF Inv, TypeOK
<1>4. Covered(text, n, stack, pos) \subseteq Covered(text, shown, stack, pos)
  BY <1>1, <1>2, <1>3 DEF Covered
<1>5. Told(stack, tokens, toknext, pos, text, n, room = CountOnly)
  BY <1>2, <1>4 DEF Told, Tells
<1>6. Told(stack', tokens', toknext', pos', text', shown', room' = CountOnly)
  BY <1>1, <1>5
<1> QED
  BY <1>1, <1>6, Kept

LEMMA InitKnows == Init => Knows
<1> SUFFICES ASSUME Init PROVE Knows
  OBVIOUS
<1>1. text = << >> /\ shown = 0 /\ room = CountOnly /\ tokens = << >> /\ rc = 0
  BY DEF Init
<1>2. Shown = << >> /\ << >> \in Seq(STRING) /\ Len(<< >>) = 0
  BY <1>1 DEF Shown
<1>3. ReadingOf(<< >>) = Empty(1)
  <2>1. TopLevel \in TextPlaces /\ 1 \in Positions /\ 1 > Len(<< >>)
    BY DEF TextPlaces, Positions
  <2>2. Rest(TopLevel, << >>, 1) = Empty(1)
    BY <1>2, <2>1, AtEnd
  <2> QED
    BY <2>2 DEF Rest, ReadingOf
<1>4. ReadingOf(Shown).end = 1 /\ ReadingOf(Shown).tokens = << >> /\ ReadingOf(Shown).depth <= MaxDepth
  BY <1>2, <1>3, DepthAssumption DEF Empty
<1> QED
  BY <1>1, <1>2, <1>4 DEF Knows, TokensAreTheTexts, Running, PART, INVAL, NOMEM, DEPTH

LEMMA TurnKnows ==
  ASSUME Inv, Knows, jstok_parse
  PROVE  Knows'
<1>1. CASE SkipSpace
  BY <1>1, SkipSpaceKnows
<1>2. CASE StartObject
  BY <1>2, StartContainerKnows DEF StartObject, Opens
<1>3. CASE StartArray
  BY <1>3, StartContainerKnows DEF StartArray, Opens
<1>4. CASE EndObject
  BY <1>4, EndsAre, EndContainerKnows DEF EndObject
<1>5. CASE EndArray
  BY <1>5, EndsAre, EndContainerKnows DEF EndArray
<1>6. CASE Colon \/ ObjectComma \/ ArrayComma
  BY <1>6, SeparatorsKnow
<1>7. CASE WrongSeparator
  BY <1>7, WrongSeparatorKnows
<1>8. CASE ParseKey
  BY <1>8, ParseKeyKnows
<1>9. CASE ParseString
  BY <1>9, ParseStringKnows
<1>10. CASE ParsePrimitive
  BY <1>10, ParsePrimitiveKnows
<1>11. CASE EndOfInput
  BY <1>11, EndOfInputKnows
<1> QED
  BY <1>1, <1>2, <1>3, <1>4, <1>5, <1>6, <1>7, <1>8, <1>9, <1>10, <1>11 DEF jstok_parse

LEMMA NextKnows == Inv /\ Knows /\ [Next]_vars => Knows'
<1> SUFFICES ASSUME Inv, Knows, [Next]_vars PROVE Knows'
  OBVIOUS
<1>1. CASE jstok_parse
  BY <1>1, TurnKnows
<1>2. CASE \E t \in Texts : \E n \in 0..Len(t), max \in {CountOnly} \cup Rooms : Begin(t, n, max)
  BY <1>2, BeginKnows
<1>3. CASE \E n \in 1..Len(text) : More(n)
  BY <1>3, MoreKnows
<1>4. CASE UNCHANGED vars
  BY <1>4 DEF vars, Knows, TokensAreTheTexts, Shown
<1> QED
  BY <1>1, <1>2, <1>3, <1>4 DEF Next

-----------------------------------------------------------------------------
(* What a call of jstok_parse returned is what the text is, wherever the   *)
(* text was cut and resumed: a number of tokens only for a text of the     *)
(* grammar, and then exactly its tokens; a text is refused only if neither *)
(* what was shown of it nor all of it can be read, and is too long for the *)
(* room or too deep for the stack only if its reading is.                  *)
THEOREM TokensAreRight == Spec => []TokensAreTheTexts
<1>1. Spec => []Knows
  BY Invariant, InitKnows, NextKnows, PTL DEF Spec
<1>2. Knows => TokensAreTheTexts
  BY DEF Knows
<1> QED
  BY <1>1, <1>2, PTL

-----------------------------------------------------------------------------
(* The helpers that find what a key or a number names.                     *)

(* A function that goes on from one argument to the next until it stops:   *)
(* there is one, whether it comes to a stop or not.                        *)
Arrives(S, stop, next, x) ==
  {y \in S : \E n \in Nat : \E c \in [Nat -> S] :
               /\ c[0] = x /\ c[n] = y /\ y \in stop
               /\ \A k \in 0 .. n - 1 : c[k] \notin stop /\ c[k + 1] = next[c[k]]}

LEMMA ArrivesNow ==
  ASSUME NEW S, NEW stop, NEW next, NEW x \in S, x \in stop
  PROVE  Arrives(S, stop, next, x) = {x}
<1>1. ASSUME NEW y \in Arrives(S, stop, next, x) PROVE y = x
  <2>1. PICK n \in Nat, c \in [Nat -> S] : c[0] = x /\ c[n] = y /\ \A k \in 0 .. n - 1 : c[k] \notin stop
    BY DEF Arrives
  <2>2. n = 0
    <3>1. n # 0 => 0 \in 0 .. n - 1
      OBVIOUS
    <3> QED
      BY <2>1, <3>1
  <2> QED
    BY <2>1, <2>2
<1>2. x \in Arrives(S, stop, next, x)
  <2> DEFINE c == [k \in Nat |-> x]
  <2>1. c \in [Nat -> S] /\ c[0] = x
    OBVIOUS
  <2>2. \A k \in 0 .. 0 - 1 : FALSE
    OBVIOUS
  <2> HIDE DEF c
  <2>3. c[0] = x /\ c[0] = x /\ x \in stop /\ \A k \in 0 .. 0 - 1 : c[k] \notin stop /\ c[k + 1] = next[c[k]]
    BY <2>1, <2>2
  <2>4. 0 \in Nat
    OBVIOUS
  <2> QED
    BY <2>1, <2>3, <2>4 DEF Arrives
<1> QED
  BY <1>1, <1>2

LEMMA ArrivesNext ==
  ASSUME NEW S, NEW stop, NEW next, NEW x \in S, x \notin stop, next[x] \in S
  PROVE  Arrives(S, stop, next, x) = Arrives(S, stop, next, next[x])
<1>1. ASSUME NEW y \in Arrives(S, stop, next, x) PROVE y \in Arrives(S, stop, next, next[x])
  <2>1. PICK n \in Nat, c \in [Nat -> S] : /\ c[0] = x /\ c[n] = y /\ y \in stop
                                           /\ \A k \in 0 .. n - 1 : c[k] \notin stop /\ c[k + 1] = next[c[k]]
    BY DEF Arrives
  <2>2. y \in S
    BY DEF Arrives
  <2>3. n # 0
    BY <2>1
  <2> DEFINE m == n - 1
             e == [k \in Nat |-> c[k + 1]]
  <2>4. m \in Nat /\ m + 1 = n
    BY <2>3
  <2>5. e \in [Nat -> S] /\ \A k \in Nat : e[k] = c[k + 1]
    OBVIOUS
  <2> HIDE DEF e, m
  <2>6. e[0] = next[x]
    <3>1. 0 \in 0 .. n - 1
      BY <2>3
    <3> QED
      BY <2>1, <2>5, <3>1
  <2>7. e[m] = y
    BY <2>1, <2>4, <2>5
  <2>8. ASSUME NEW k \in 0 .. m - 1 PROVE e[k] \notin stop /\ e[k + 1] = next[e[k]]
    <3>1. k \in Nat /\ k + 1 \in Nat /\ k + 1 \in 0 .. n - 1
      BY <2>4
    <3>2. c[k + 1] \notin stop /\ c[k + 1 + 1] = next[c[k + 1]]
      BY <2>1, <3>1
    <3> QED
      BY <2>5, <3>1, <3>2
  <2> QED
    BY <2>1, <2>2, <2>4, <2>5, <2>6, <2>7, <2>8 DEF Arrives
<1>2. ASSUME NEW y \in Arrives(S, stop, next, next[x]) PROVE y \in Arrives(S, stop, next, x)
  <2>1. PICK n \in Nat, c \in [Nat -> S] : /\ c[0] = next[x] /\ c[n] = y /\ y \in stop
                                           /\ \A k \in 0 .. n - 1 : c[k] \notin stop /\ c[k + 1] = next[c[k]]
    BY DEF Arrives
  <2>2. y \in S
    BY DEF Arrives
  <2> DEFINE m == n + 1
             e == [k \in Nat |-> IF k = 0 THEN x ELSE c[k - 1]]
  <2>3. m \in Nat /\ m - 1 = n /\ m # 0
    OBVIOUS
  <2>4. e \in [Nat -> S] /\ e[0] = x /\ \A k \in Nat : k # 0 => e[k] = c[k - 1]
    OBVIOUS
  <2> HIDE DEF e, m
  <2>5. e[m] = y
    BY <2>1, <2>3, <2>4
  <2>6. ASSUME NEW k \in 0 .. m - 1 PROVE e[k] \notin stop /\ e[k + 1] = next[e[k]]
    <3>1. k \in Nat /\ k + 1 \in Nat /\ k + 1 # 0 /\ k + 1 - 1 = k
      BY <2>3
    <3>2. e[k + 1] = c[k]
      BY <2>4, <3>1
    <3>3. CASE k = 0
      BY <2>1, <2>4, <3>2, <3>3
    <3>4. CASE k # 0
      <4>1. k - 1 \in Nat /\ k - 1 \in 0 .. n - 1 /\ k - 1 + 1 = k
        BY <2>3, <3>1, <3>4
      <4>2. c[k - 1] \notin stop /\ c[k] = next[c[k - 1]]
        BY <2>1, <4>1
      <4>3. e[k] = c[k - 1]
        BY <2>4, <3>1, <3>4
      <4> QED
        BY <3>2, <4>2, <4>3
    <3> QED
      BY <3>3, <3>4
  <2> QED
    BY <2>1, <2>2, <2>3, <2>4, <2>5, <2>6 DEF Arrives
<1> QED
  BY <1>1, <1>2

GoesOn(f, S, stop, out, next) == f = [x \in S |-> IF x \in stop THEN out[x] ELSE f[next[x]]]

LEMMA TailRecursion ==
  ASSUME NEW S, NEW stop, NEW out, NEW next, \A x \in S : x \notin stop => next[x] \in S
  PROVE  \E f : GoesOn(f, S, stop, out, next)
<1> DEFINE End(x) == CHOOSE y : y \in Arrives(S, stop, next, x)
           f == [x \in S |-> out[End(x)]]
<1>0. f = [x \in S |-> f[x]] /\ \A x \in S : f[x] = out[End(x)]
  OBVIOUS
<1> HIDE DEF f
<1>1. ASSUME NEW x \in S PROVE f[x] = IF x \in stop THEN out[x] ELSE f[next[x]]
  <2>1. CASE x \in stop
    <3>1. Arrives(S, stop, next, x) = {x}
      BY <2>1, ArrivesNow
    <3>2. End(x) = x
      BY <3>1
    <3> QED
      BY <1>0, <2>1, <3>2
  <2>2. CASE x \notin stop
    <3>1. next[x] \in S
      BY <2>2
    <3>2. Arrives(S, stop, next, x) = Arrives(S, stop, next, next[x])
      BY <2>2, <3>1, ArrivesNext
    <3>3. End(x) = End(next[x])
      BY <3>2
    <3> QED
      BY <1>0, <2>2, <3>1, <3>3
  <2> QED
    BY <2>1, <2>2
<1>3. f = [x \in S |-> IF x \in stop THEN out[x] ELSE f[next[x]]]
  BY <1>0, <1>1
<1> QED
  BY <1>3 DEF GoesOn

-----------------------------------------------------------------------------
(* What begins behind a token.                                             *)
LEMMA BeyondIs ==
  ASSUME NEW T \in Seq(Token), NEW i \in 1 .. Len(T)
  PROVE  /\ Beyond(T, i) \in i + 1 .. Len(T) + 1
         /\ \A j \in i + 1 .. Beyond(T, i) - 1 : T[j].start < T[i].end
         /\ Beyond(T, i) <= Len(T) => T[Beyond(T, i)].start >= T[i].end
<1> DEFINE places == {j \in i + 1 .. Len(T) : T[j].start >= T[i].end} \cup {Len(T) + 1}
           b == CHOOSE j \in places : \A k \in places : j <= k
<1>1. Len(T) \in Nat
  OBVIOUS
<1>2. places \in SUBSET Nat /\ places # {}
  BY <1>1
<1>3. \E j \in places : \A k \in places : j <= k
  BY <1>2, LeastOf
<1>4. b \in places /\ \A k \in places : b <= k
  BY <1>3
<1>5. Beyond(T, i) = b
  BY DEF Beyond
<1> HIDE DEF b
<1>6. b \in i + 1 .. Len(T) + 1 /\ (b <= Len(T) => T[b].start >= T[i].end)
  BY <1>1, <1>4
<1>7. ASSUME NEW j \in i + 1 .. b - 1 PROVE T[j].start < T[i].end
  <2>1. j \in i + 1 .. Len(T) /\ j < b
    BY <1>1, <1>6
  <2>2. ~ (T[j].start >= T[i].end)
    BY <1>4, <2>1
  <2>3. T[j] \in Token /\ T[i] \in Token
    BY <1>1, <2>1
  <2>4. T[j].start \in Nat /\ T[i].end \in Int
    BY <2>3 DEF Token
  <2> QED
    BY <2>2, <2>4
<1> QED
  BY <1>5, <1>6, <1>7

(* That a place is the first behind a token.                               *)
LEMMA BeyondAt ==
  ASSUME NEW T \in Seq(Token), NEW i \in 1 .. Len(T), NEW b \in i + 1 .. Len(T) + 1,
         \A j \in i + 1 .. b - 1 : T[j].start < T[i].end,
         b <= Len(T) => T[b].start >= T[i].end
  PROVE  Beyond(T, i) = b
<1> DEFINE c == Beyond(T, i)
<1>1. /\ c \in i + 1 .. Len(T) + 1
      /\ \A j \in i + 1 .. c - 1 : T[j].start < T[i].end
      /\ c <= Len(T) => T[c].start >= T[i].end
  BY BeyondIs
<1>2. Len(T) \in Nat
  OBVIOUS
<1>3. \A j \in 1 .. Len(T) : T[j].start \in Int /\ T[j].end \in Int
  <2> SUFFICES ASSUME NEW j \in 1 .. Len(T) PROVE T[j].start \in Int /\ T[j].end \in Int
    OBVIOUS
  <2>1. T[j] \in Token
    OBVIOUS
  <2> QED
    BY <2>1 DEF Token
<1> HIDE DEF c
<1>4. ~ (c < b)
  <2> SUFFICES ASSUME c < b PROVE FALSE
    OBVIOUS
  <2>1. c \in i + 1 .. b - 1 /\ c <= Len(T) /\ c \in 1 .. Len(T)
    BY <1>1, <1>2
  <2>2. T[c].start < T[i].end /\ T[c].start >= T[i].end
    BY <1>1, <2>1
  <2> QED
    BY <1>3, <2>1, <2>2
<1>5. ~ (b < c)
  <2> SUFFICES ASSUME b < c PROVE FALSE
    OBVIOUS
  <2>1. b \in i + 1 .. c - 1 /\ b <= Len(T) /\ b \in 1 .. Len(T)
    BY <1>1, <1>2
  <2>2. T[b].start < T[i].end /\ T[b].start >= T[i].end
    BY <1>1, <2>1
  <2> QED
    BY <1>3, <2>1, <2>2
<1>6. c = b
  BY <1>1, <1>2, <1>4, <1>5
<1> QED
  BY <1>6 DEF c

-----------------------------------------------------------------------------
(* The recursive functions of the helpers are what their definitions say.  *)

Counted == Positions \X Nat

LEMMA FurtherIs ==
  ASSUME NEW T \in Seq(Token), NEW i \in Positions, NEW n \in Nat
  PROVE  Further(T)[<< i, n >>] = IF n = 0 \/ i > Len(T) THEN i ELSE Further(T)[<< Beyond(T, i), n - 1 >>]
<1> DEFINE stop == {at \in Counted : at[2] = 0 \/ at[1] > Len(T)}
           out == [at \in Counted |-> at[1]]
           next == [at \in Counted |-> << Beyond(T, at[1]), at[2] - 1 >>]
           f == CHOOSE g : g = [at \in Counted |-> IF at[2] = 0 \/ at[1] > Len(T) THEN at[1]
                                                   ELSE g[<< Beyond(T, at[1]), at[2] - 1 >>]]
<1>1. Len(T) \in Nat
  OBVIOUS
<1>2. ASSUME NEW at \in Counted, at \notin stop PROVE next[at] \in Counted
  <2>1. at[1] \in Positions /\ at[2] \in Nat /\ at[2] # 0 /\ ~ (at[1] > Len(T))
    BY <1>2 DEF Counted
  <2>2. at[1] \in 1 .. Len(T) /\ at[2] - 1 \in Nat
    BY <1>1, <2>1 DEF Positions
  <2>3. Beyond(T, at[1]) \in Positions
    BY <1>1, <2>2, BeyondIs DEF Positions
  <2> QED
    BY <2>2, <2>3 DEF Counted
<1>3. \E g : GoesOn(g, Counted, stop, out, next)
  <2> HIDE DEF stop, out, next
  <2>1. \A at \in Counted : at \notin stop => next[at] \in Counted
    BY <1>2
  <2> QED
    BY <2>1, TailRecursion
<1>4. \E g : g = [at \in Counted |-> IF at[2] = 0 \/ at[1] > Len(T) THEN at[1]
                                      ELSE g[<< Beyond(T, at[1]), at[2] - 1 >>]]
  BY <1>3 DEF GoesOn
<1>5. f = [at \in Counted |-> IF at[2] = 0 \/ at[1] > Len(T) THEN at[1]
                              ELSE f[<< Beyond(T, at[1]), at[2] - 1 >>]]
  BY <1>4
<1>6. Further(T) = f
  BY DEF Further, Counted, Positions
<1> HIDE DEF f
<1>7. << i, n >> \in Counted
  BY DEF Counted
<1>8. f[<< i, n >>] = IF n = 0 \/ i > Len(T) THEN i ELSE f[<< Beyond(T, i), n - 1 >>]
  BY <1>5, <1>7
<1> QED
  BY <1>6, <1>8

LEMMA ChildrenType ==
  ASSUME NEW t \in Token
  PROVE  Children(t) \in Nat
  BY DEF Token, Children

Levels == Positions \X Seq(Nat)

SkipStep(g, T, idx, rem) ==
  LET top == Len(rem)
      less == [rem EXCEPT ![top] = @ - 1]
  IN IF rem = << >> THEN idx
     ELSE IF rem[top] = 0 THEN g[<< idx, SubSeq(rem, 1, top - 1) >>]
     ELSE IF idx > Len(T) THEN Len(T) + 1
     ELSE IF IsLeaf(T[idx]) THEN g[<< idx + 1, less >>]
     ELSE IF top >= MaxDepth THEN Len(T) + 1
     ELSE g[<< idx + 1, Append(less, Children(T[idx])) >>]

LEMMA Lessened ==
  ASSUME NEW rem \in Seq(Nat), rem # << >>, rem[Len(rem)] # 0
  PROVE  [rem EXCEPT ![Len(rem)] = @ - 1] \in Seq(Nat)
<1>1. Len(rem) \in Nat /\ Len(rem) \in DOMAIN rem
  OBVIOUS
<1>2. rem[Len(rem)] \in Nat
  BY <1>1
<1>3. rem[Len(rem)] - 1 \in Nat
  BY <1>2
<1> QED
  BY <1>1, <1>3

LEMMA SkipIs ==
  ASSUME NEW T \in Seq(Token), NEW idx \in Positions, NEW rem \in Seq(Nat)
  PROVE  SkipRest(T)[<< idx, rem >>] = SkipStep(SkipRest(T), T, idx, rem)
<1> DEFINE LessAt(r) == [r EXCEPT ![Len(r)] = @ - 1]
           Last(r) == r[Len(r)]
           Halts(i, r) == r = << >> \/ (Last(r) # 0 /\ (i > Len(T) \/ (~IsLeaf(T[i]) /\ Len(r) >= MaxDepth)))
           After(i, r) == IF Last(r) = 0 THEN << i, SubSeq(r, 1, Len(r) - 1) >>
                          ELSE IF IsLeaf(T[i]) THEN << i + 1, LessAt(r) >>
                          ELSE << i + 1, Append(LessAt(r), Children(T[i])) >>
           stop == {at \in Levels : Halts(at[1], at[2])}
           out == [at \in Levels |-> IF at[2] = << >> THEN at[1] ELSE Len(T) + 1]
           next == [at \in Levels |-> After(at[1], at[2])]
           f == CHOOSE g : g = [at \in Levels |-> SkipStep(g, T, at[1], at[2])]
<1>1. Len(T) \in Nat
  OBVIOUS
<1>2. ASSUME NEW i \in Positions, NEW r \in Seq(Nat), ~Halts(i, r) PROVE After(i, r) \in Levels
  <2>1. r # << >>
    BY <1>2
  <2>2. CASE Last(r) = 0
    <3>1. SubSeq(r, 1, Len(r) - 1) \in Seq(Nat)
      BY <2>1
    <3> QED
      BY <2>2, <3>1 DEF Levels
  <2>3. CASE Last(r) # 0
    <3>1. i \in 1 .. Len(T)
      BY <1>1, <1>2, <2>3 DEF Positions
    <3>2. LessAt(r) \in Seq(Nat)
      BY <2>1, <2>3, Lessened
    <3>3. T[i] \in Token
      BY <3>1
    <3>4. Children(T[i]) \in Nat
      BY <3>3, ChildrenType
    <3>5. i + 1 \in Positions
      BY DEF Positions
    <3> HIDE DEF LessAt
    <3>6. Append(LessAt(r), Children(T[i])) \in Seq(Nat)
      BY <3>2, <3>4
    <3> QED
      BY <2>3, <3>2, <3>5, <3>6 DEF Levels
  <2> QED
    BY <2>2, <2>3
<1>3. ASSUME NEW at \in Levels, at \notin stop PROVE next[at] \in Levels
  <2>1. at[1] \in Positions /\ at[2] \in Seq(Nat) /\ ~Halts(at[1], at[2]) /\ next[at] = After(at[1], at[2])
    BY <1>3 DEF Levels
  <2> HIDE DEF Halts, After, next
  <2> QED
    BY <1>2, <2>1
<1>4. \E g : GoesOn(g, Levels, stop, out, next)
  <2> HIDE DEF stop, out, next
  <2>1. \A at \in Levels : at \notin stop => next[at] \in Levels
    BY <1>3
  <2> QED
    BY <2>1, TailRecursion
<1>5. PICK g : GoesOn(g, Levels, stop, out, next)
  BY <1>4
<1>6. ASSUME NEW at \in Levels PROVE (IF at \in stop THEN out[at] ELSE g[next[at]]) = SkipStep(g, T, at[1], at[2])
  <2> DEFINE i == at[1]
             r == at[2]
  <2>1. (at \in stop <=> Halts(i, r)) /\ out[at] = (IF r = << >> THEN i ELSE Len(T) + 1) /\ next[at] = After(i, r)
    OBVIOUS
  <2> HIDE DEF stop, out, next, i, r
  <2>2. (IF Halts(i, r) THEN (IF r = << >> THEN i ELSE Len(T) + 1) ELSE g[After(i, r)]) = SkipStep(g, T, i, r)
    BY DEF SkipStep
  <2>3. (IF at \in stop THEN out[at] ELSE g[next[at]]) = SkipStep(g, T, i, r)
    BY <2>1, <2>2
  <2> QED
    BY <2>3 DEF i, r
<1>7. g = [at \in Levels |-> SkipStep(g, T, at[1], at[2])]
  <2> HIDE DEF stop, out, next
  <2>1. g = [at \in Levels |-> IF at \in stop THEN out[at] ELSE g[next[at]]]
    BY <1>5 DEF GoesOn
  <2> QED
    BY <1>6, <2>1
<1>8. f = [at \in Levels |-> SkipStep(f, T, at[1], at[2])]
  BY <1>7
<1>9. SkipRest(T) = f
  BY DEF SkipRest, SkipStep, Levels, Positions
<1> HIDE DEF f
<1>10. << idx, rem >> \in Levels
  BY DEF Levels
<1>11. f[<< idx, rem >>] = SkipStep(f, T, idx, rem)
  BY <1>8, <1>10
<1> QED
  BY <1>9, <1>11

(* The four ways on.                                                       *)
LEMMA Pushes ==
  ASSUME NEW base \in Seq(Nat), NEW m \in Nat
  PROVE  /\ Append(base, m) \in Seq(Nat) /\ Append(base, m) # << >>
         /\ Len(Append(base, m)) = Len(base) + 1 /\ Append(base, m)[Len(base) + 1] = m
         /\ SubSeq(Append(base, m), 1, Len(base)) = base
         /\ m # 0 => [Append(base, m) EXCEPT ![Len(base) + 1] = @ - 1] = Append(base, m - 1)
<1> DEFINE rem == Append(base, m)
           k == Len(base) + 1
           less == [rem EXCEPT ![k] = @ - 1]
<1>1. Len(base) \in Nat /\ rem \in Seq(Nat) /\ Len(rem) = k /\ rem[k] = m
      /\ \A j \in 1 .. Len(base) : rem[j] = base[j]
  OBVIOUS
<1>2. rem # << >>
  OBVIOUS
<1>3. SubSeq(rem, 1, Len(base)) = base
  OBVIOUS
<1>4. m # 0 => less = Append(base, m - 1)
  <2> SUFFICES ASSUME m # 0 PROVE less = Append(base, m - 1)
    OBVIOUS
  <2> DEFINE other == Append(base, m - 1)
  <2>1. m - 1 \in Nat /\ DOMAIN rem = 1 .. k /\ k \in 1 .. k
    BY <1>1
  <2>2. other \in Seq(Nat) /\ Len(other) = k /\ other[k] = m - 1 /\ \A j \in 1 .. Len(base) : other[j] = base[j]
    BY <2>1
  <2> HIDE DEF rem, other
  <2>3. less = [j \in 1 .. k |-> IF j = k THEN m - 1 ELSE rem[j]]
    BY <1>1, <2>1
  <2> HIDE DEF less
  <2>4. less \in Seq(Nat) /\ Len(less) = k /\ \A j \in 1 .. k : less[j] = other[j]
    <3>1. \A j \in 1 .. k : j # k => j \in 1 .. Len(base)
      BY <1>1
    <3>2. \A j \in 1 .. k : less[j] = other[j]
      BY <1>1, <2>2, <2>3, <3>1
    <3>3. \A j \in 1 .. k : less[j] \in Nat
      BY <2>2, <3>2
    <3> QED
      BY <1>1, <2>3, <3>2, <3>3
  <2>5. less = other
    BY <2>2, <2>4
  <2> QED
    BY <2>5 DEF other
<1> HIDE DEF rem, less
<1> QED
  BY <1>1, <1>2, <1>3, <1>4 DEF rem, less

Enters(T, idx, base, m) ==
  m # 0 /\ idx <= Len(T) /\ ~IsLeaf(T[idx]) /\ Len(base) + 1 < MaxDepth =>
    SkipRest(T)[<< idx, Append(base, m) >>]
      = SkipRest(T)[<< idx + 1, Append(Append(base, m - 1), Children(T[idx])) >>]

LEMMA SkipsOn ==
  ASSUME NEW T \in Seq(Token), NEW idx \in Positions, NEW base \in Seq(Nat)
  PROVE  /\ SkipRest(T)[<< idx, << >> >>] = idx
         /\ SkipRest(T)[<< idx, Append(base, 0) >>] = SkipRest(T)[<< idx, base >>]
         /\ \A m \in Nat : m # 0 /\ idx <= Len(T) /\ IsLeaf(T[idx]) =>
              SkipRest(T)[<< idx, Append(base, m) >>] = SkipRest(T)[<< idx + 1, Append(base, m - 1) >>]
         /\ \A m \in Nat : Enters(T, idx, base, m)
<1> DEFINE g == SkipRest(T)
<1>1. \A rem \in Seq(Nat) : g[<< idx, rem >>] = SkipStep(g, T, idx, rem)
  BY SkipIs
<1> HIDE DEF g
<1>2. g[<< idx, << >> >>] = idx
  <2>1. << >> \in Seq(Nat)
    OBVIOUS
  <2> QED
    BY <1>1, <2>1 DEF SkipStep
<1>3. ASSUME NEW m \in Nat
      PROVE  /\ m = 0 => g[<< idx, Append(base, m) >>] = g[<< idx, base >>]
             /\ m # 0 /\ idx <= Len(T) /\ IsLeaf(T[idx]) =>
                  g[<< idx, Append(base, m) >>] = g[<< idx + 1, Append(base, m - 1) >>]
             /\ m # 0 /\ idx <= Len(T) /\ ~IsLeaf(T[idx]) /\ Len(base) + 1 < MaxDepth =>
                  g[<< idx, Append(base, m) >>] = g[<< idx + 1, Append(Append(base, m - 1), Children(T[idx])) >>]
  <2> DEFINE rem == Append(base, m)
             top == Len(rem)
             less == [rem EXCEPT ![top] = @ - 1]
  <2>1. rem \in Seq(Nat) /\ rem # << >> /\ top = Len(base) + 1 /\ rem[top] = m
        /\ SubSeq(rem, 1, top - 1) = base /\ (m # 0 => less = Append(base, m - 1))
    <3>1. Len(base) \in Nat /\ Len(base) + 1 - 1 = Len(base)
      OBVIOUS
    <3>2. rem \in Seq(Nat) /\ rem # << >> /\ top = Len(base) + 1 /\ rem[Len(base) + 1] = m
          /\ SubSeq(rem, 1, Len(base)) = base
          /\ (m # 0 => [rem EXCEPT ![Len(base) + 1] = @ - 1] = Append(base, m - 1))
      BY Pushes
    <3> HIDE DEF rem
    <3> QED
      BY <3>1, <3>2
  <2>2. g[<< idx, rem >>] = SkipStep(g, T, idx, rem)
    BY <1>1, <2>1
  <2>3. SkipStep(g, T, idx, rem) =
          IF rem = << >> THEN idx
          ELSE IF rem[top] = 0 THEN g[<< idx, SubSeq(rem, 1, top - 1) >>]
          ELSE IF idx > Len(T) THEN Len(T) + 1
          ELSE IF IsLeaf(T[idx]) THEN g[<< idx + 1, less >>]
          ELSE IF top >= MaxDepth THEN Len(T) + 1
          ELSE g[<< idx + 1, Append(less, Children(T[idx])) >>]
    BY DEF SkipStep
  <2> HIDE DEF rem, top, less
  <2>4. idx \in Nat /\ Len(T) \in Nat /\ Len(base) \in Nat /\ MaxDepth \in Nat
    BY DepthAssumption DEF Positions
  <2>5. m = 0 => g[<< idx, rem >>] = g[<< idx, base >>]
    BY <2>1, <2>2, <2>3
  <2>6. ASSUME m # 0, idx <= Len(T)
        PROVE  SkipStep(g, T, idx, rem) =
                 IF IsLeaf(T[idx]) THEN g[<< idx + 1, Append(base, m - 1) >>]
                 ELSE IF top >= MaxDepth THEN Len(T) + 1
                 ELSE g[<< idx + 1, Append(Append(base, m - 1), Children(T[idx])) >>]
    <3>1. rem # << >> /\ rem[top] # 0 /\ ~ (idx > Len(T)) /\ less = Append(base, m - 1)
      BY <2>1, <2>4, <2>6
    <3> QED
      BY <2>3, <3>1
  <2>7. Len(base) + 1 < MaxDepth => ~ (top >= MaxDepth)
    BY <2>1, <2>4
  <2> QED
    BY <2>2, <2>5, <2>6, <2>7 DEF rem
<1>4. 0 \in Nat
  OBVIOUS
<1>5. \A m \in Nat : Enters(T, idx, base, m)
  BY <1>3 DEF g, Enters
<1> QED
  BY <1>2, <1>3, <1>4, <1>5 DEF g

LEMMA Fewer ==
  ASSUME NEW r \in Seq(Nat), r # << >>
  PROVE  /\ SubSeq(r, 1, Len(r) - 1) \in Seq(Nat)
         /\ Len(SubSeq(r, 1, Len(r) - 1)) = Len(r) - 1
<1>1. Len(r) \in Nat /\ Len(r) # 0
  OBVIOUS
<1>2. PICK n \in Nat : n = Len(r) - 1
  BY <1>1
<1>3. \A k \in 1 .. n : r[k] \in Nat
  BY <1>1, <1>2
<1>4. SubSeq(r, 1, n) \in Seq(Nat) /\ Len(SubSeq(r, 1, n)) = n
  BY <1>1, <1>2, <1>3
<1> QED
  BY <1>2, <1>4

(* Skipping comes to an end: each turn reads a token or leaves a level.    *)
LEMMA SkipType ==
  ASSUME NEW T \in Seq(Token), NEW idx \in 1 .. Len(T) + 1, NEW rem \in Seq(Nat)
  PROVE  SkipRest(T)[<< idx, rem >>] \in Positions
<1> DEFINE g == SkipRest(T)
           Weight(i, r) == 2 * (Len(T) + 1 - i) + Len(r)
           N == Weight(idx, rem)
           M == {m \in 0 .. N : \A i \in 1 .. Len(T) + 1 : \A r \in Seq(Nat) :
                                  Weight(i, r) <= m => g[<< i, r >>] \in Positions}
<1>1. Len(T) \in Nat /\ \A r \in Seq(Nat) : Len(r) \in Nat
  OBVIOUS
<1>2. \A i \in 1 .. Len(T) + 1 : \A r \in Seq(Nat) : Weight(i, r) \in Nat
  BY <1>1
<1>3. N \in Nat
  BY <1>2
<1>p. \A i \in 1 .. Len(T) + 1 : i \in Positions /\ i \in Nat
  BY <1>1 DEF Positions
<1>4. \A i \in 1 .. Len(T) + 1 : \A r \in Seq(Nat) : g[<< i, r >>] = SkipStep(g, T, i, r)
  BY <1>p, SkipIs
<1> HIDE DEF g
<1>5. \A i \in 1 .. Len(T) + 1 : g[<< i, << >> >>] \in Positions
  <2>1. << >> \in Seq(Nat)
    OBVIOUS
  <2>2. ASSUME NEW i \in 1 .. Len(T) + 1 PROVE g[<< i, << >> >>] = i
    BY <1>4, <2>1 DEF SkipStep
  <2> QED
    BY <1>p, <2>2
<1>6. 0 \in M
  <2> SUFFICES ASSUME NEW i \in 1 .. Len(T) + 1, NEW r \in Seq(Nat), Weight(i, r) <= 0 PROVE g[<< i, r >>] \in Positions
    BY <1>3
  <2>1. Len(r) = 0
    BY <1>1
  <2>2. r = << >>
    BY <2>1
  <2> QED
    BY <1>5, <2>2
<1>7. ASSUME NEW m \in M, m < N PROVE m + 1 \in M
  <2>1. m \in Nat /\ m + 1 \in 0 .. N
    BY <1>3, <1>7
  <2>2. \A i \in 1 .. Len(T) + 1 : \A r \in Seq(Nat) : Weight(i, r) <= m => g[<< i, r >>] \in Positions
    OBVIOUS
  <2>3. ASSUME NEW i \in 1 .. Len(T) + 1, NEW r \in Seq(Nat), Weight(i, r) <= m + 1 PROVE g[<< i, r >>] \in Positions
    <3> DEFINE top == Len(r)
               less == [r EXCEPT ![top] = @ - 1]
    <3>1. g[<< i, r >>] = SkipStep(g, T, i, r)
      BY <1>4
    <3>2. CASE r = << >>
      BY <1>5, <3>2
    <3>3. CASE r # << >> /\ r[top] = 0
      <4> DEFINE fewer == SubSeq(r, 1, top - 1)
      <4>k. top \in Nat /\ top # 0
        BY <3>3
      <4>1. fewer \in Seq(Nat) /\ Len(fewer) = top - 1
        BY <3>3, Fewer
      <4> HIDE DEF fewer
      <4>2. Weight(i, fewer) <= m
        BY <1>1, <2>1, <2>3, <4>1, <4>k
      <4>3. g[<< i, fewer >>] \in Positions
        BY <2>2, <4>1, <4>2
      <4> QED
        BY <3>1, <3>3, <4>3 DEF SkipStep, fewer
    <3>4. CASE r # << >> /\ r[top] # 0
      <4>1. less \in Seq(Nat) /\ Len(less) = top
        <5>1. less \in Seq(Nat)
          BY <3>4, Lessened
        <5> QED
          BY <3>4, <5>1
      <4> HIDE DEF less
      <4>2. Len(T) + 1 \in Positions
        BY <1>1 DEF Positions
      <4>3. CASE i > Len(T)
        BY <3>1, <3>4, <4>2, <4>3 DEF SkipStep
      <4>4. CASE i <= Len(T)
        <5>1. i \in 1 .. Len(T) /\ i + 1 \in 1 .. Len(T) + 1 /\ ~ (i > Len(T))
          BY <1>1, <4>4
        <5>2. T[i] \in Token
          BY <5>1
        <5>3. Children(T[i]) \in Nat
          BY <5>2, ChildrenType
        <5> DEFINE more == Append(less, Children(T[i]))
        <5>4. more \in Seq(Nat) /\ Len(more) = top + 1
          BY <4>1, <5>3
        <5> HIDE DEF more
        <5>5. Weight(i + 1, less) <= m /\ Weight(i + 1, more) <= m
          BY <1>1, <2>1, <2>3, <4>1, <5>1, <5>4
        <5>6. g[<< i + 1, less >>] \in Positions /\ g[<< i + 1, more >>] \in Positions
          BY <2>2, <4>1, <5>1, <5>4, <5>5
        <5>7. SkipStep(g, T, i, r) = IF IsLeaf(T[i]) THEN g[<< i + 1, less >>]
                                     ELSE IF top >= MaxDepth THEN Len(T) + 1 ELSE g[<< i + 1, more >>]
          BY <3>4, <5>1 DEF SkipStep, less, more
        <5> QED
          BY <3>1, <4>2, <5>6, <5>7
      <4> QED
        BY <1>1, <4>3, <4>4
    <3> QED
      BY <3>2, <3>3, <3>4
  <2> QED
    BY <2>1, <2>3
<1>8. N \in M
  <2> HIDE DEF M, N
  <2>1. M \in SUBSET (0 .. N)
    BY DEF M
  <2> QED
    BY <1>3, <1>6, <1>7, <2>1, UpTo
<1>9. Weight(idx, rem) <= N
  BY <1>3
<1>10. g[<< idx, rem >>] \in Positions
  BY <1>8, <1>9
<1> QED
  BY <1>10 DEF g

LEMMA SkippedType ==
  ASSUME NEW T \in Seq(Token), NEW i \in Positions
  PROVE  jstok_skip(T, i) \in Positions
<1>1. Len(T) \in Nat /\ i \in Nat /\ i >= 1
  BY DEF Positions
<1>2. Len(T) + 1 \in Positions /\ i + 1 \in Positions
  BY <1>1 DEF Positions
<1>3. CASE i > Len(T)
  BY <1>2, <1>3 DEF jstok_skip
<1>4. CASE i <= Len(T)
  <2>1. i \in 1 .. Len(T) /\ i + 1 \in 1 .. Len(T) + 1 /\ ~ (i > Len(T))
    BY <1>1, <1>4
  <2>2. T[i] \in Token
    BY <2>1
  <2>3. << Children(T[i]) >> \in Seq(Nat)
    BY <2>2, ChildrenType
  <2>4. SkipRest(T)[<< i + 1, << Children(T[i]) >> >>] \in Positions
    BY <2>1, <2>3, SkipType
  <2> QED
    BY <1>2, <2>1, <2>4 DEF jstok_skip
<1> QED
  BY <1>1, <1>3, <1>4

LEMMA ElementIs ==
  ASSUME NEW T \in Seq(Token), NEW cur \in Positions, NEW n \in Nat
  PROVE  ElementFrom(T)[<< cur, n >>] =
           IF cur > Len(T) THEN 0
           ELSE IF n = 0 THEN cur
           ELSE ElementFrom(T)[<< jstok_skip(T, cur), n - 1 >>]
<1> DEFINE stop == {at \in Counted : at[1] > Len(T) \/ at[2] = 0}
           out == [at \in Counted |-> IF at[1] > Len(T) THEN 0 ELSE at[1]]
           next == [at \in Counted |-> << jstok_skip(T, at[1]), at[2] - 1 >>]
           f == CHOOSE g : g = [at \in Counted |->
                  IF at[1] > Len(T) THEN 0
                  ELSE IF at[2] = 0 THEN at[1]
                  ELSE g[<< jstok_skip(T, at[1]), at[2] - 1 >>]]
<1>1. ASSUME NEW at \in Counted, at \notin stop PROVE next[at] \in Counted
  <2>1. at[1] \in Positions /\ at[2] \in Nat /\ at[2] # 0
    BY <1>1 DEF Counted
  <2>2. jstok_skip(T, at[1]) \in Positions /\ at[2] - 1 \in Nat
    BY <2>1, SkippedType
  <2> QED
    BY <2>2 DEF Counted
<1>2. \E g : GoesOn(g, Counted, stop, out, next)
  <2> HIDE DEF stop, out, next
  <2>1. \A at \in Counted : at \notin stop => next[at] \in Counted
    BY <1>1
  <2> QED
    BY <2>1, TailRecursion
<1>3. \E g : g = [at \in Counted |->
               IF at[1] > Len(T) THEN 0
               ELSE IF at[2] = 0 THEN at[1]
               ELSE g[<< jstok_skip(T, at[1]), at[2] - 1 >>]]
  BY <1>2 DEF GoesOn
<1>4. f = [at \in Counted |->
            IF at[1] > Len(T) THEN 0
            ELSE IF at[2] = 0 THEN at[1]
            ELSE f[<< jstok_skip(T, at[1]), at[2] - 1 >>]]
  BY <1>3
<1>5. ElementFrom(T) = f
  BY DEF ElementFrom, Counted, Positions
<1> HIDE DEF f
<1>6. << cur, n >> \in Counted
  BY DEF Counted
<1>7. f[<< cur, n >>] = IF cur > Len(T) THEN 0 ELSE IF n = 0 THEN cur ELSE f[<< jstok_skip(T, cur), n - 1 >>]
  BY <1>4, <1>6
<1> QED
  BY <1>5, <1>7

MemberStep(g, json, T, key, k, pairs) ==
  IF pairs = 0 \/ k + 1 > Len(T) THEN 0
  ELSE IF T[k].type = JSTOK_STRING /\ jstok_eq(json, T[k], key) THEN k + 1
  ELSE g[<< jstok_skip(T, k + 1), pairs - 1 >>]

LEMMA MemberIs ==
  ASSUME NEW json, NEW T \in Seq(Token), NEW key, NEW k \in Positions, NEW pairs \in Nat
  PROVE  MemberFrom(json, T, key)[<< k, pairs >>] = MemberStep(MemberFrom(json, T, key), json, T, key, k, pairs)
<1> DEFINE Found(i) == T[i].type = JSTOK_STRING /\ jstok_eq(json, T[i], key)
           stop == {at \in Counted : at[2] = 0 \/ at[1] + 1 > Len(T) \/ Found(at[1])}
           out == [at \in Counted |-> IF at[2] = 0 \/ at[1] + 1 > Len(T) THEN 0 ELSE at[1] + 1]
           next == [at \in Counted |-> << jstok_skip(T, at[1] + 1), at[2] - 1 >>]
           f == CHOOSE g : g = [at \in Counted |->
                  IF at[2] = 0 \/ at[1] + 1 > Len(T) THEN 0
                  ELSE IF Found(at[1]) THEN at[1] + 1
                  ELSE g[<< jstok_skip(T, at[1] + 1), at[2] - 1 >>]]
<1>1. ASSUME NEW at \in Counted, at \notin stop PROVE next[at] \in Counted
  <2>1. at[1] \in Positions /\ at[2] \in Nat /\ at[2] # 0
    BY <1>1 DEF Counted
  <2>2. at[1] + 1 \in Positions
    BY <2>1 DEF Positions
  <2>3. jstok_skip(T, at[1] + 1) \in Positions /\ at[2] - 1 \in Nat
    BY <2>1, <2>2, SkippedType
  <2> QED
    BY <2>3 DEF Counted
<1>2. \E g : GoesOn(g, Counted, stop, out, next)
  <2> HIDE DEF stop, out, next
  <2>1. \A at \in Counted : at \notin stop => next[at] \in Counted
    BY <1>1
  <2> QED
    BY <2>1, TailRecursion
<1>3. \E g : g = [at \in Counted |->
               IF at[2] = 0 \/ at[1] + 1 > Len(T) THEN 0
               ELSE IF Found(at[1]) THEN at[1] + 1
               ELSE g[<< jstok_skip(T, at[1] + 1), at[2] - 1 >>]]
  <2> HIDE DEF Found
  <2> QED
    BY <1>2 DEF GoesOn
<1>4. f = [at \in Counted |->
            IF at[2] = 0 \/ at[1] + 1 > Len(T) THEN 0
            ELSE IF Found(at[1]) THEN at[1] + 1
            ELSE f[<< jstok_skip(T, at[1] + 1), at[2] - 1 >>]]
  <2> HIDE DEF Found
  <2> QED
    BY <1>3
<1>5. MemberFrom(json, T, key) = f
  BY DEF MemberFrom, Counted, Positions
<1> HIDE DEF f
<1>6. << k, pairs >> \in Counted
  BY DEF Counted
<1>7. f[<< k, pairs >>] = IF pairs = 0 \/ k + 1 > Len(T) THEN 0
                          ELSE IF Found(k) THEN k + 1
                          ELSE f[<< jstok_skip(T, k + 1), pairs - 1 >>]
  <2> HIDE DEF Found
  <2> QED
    BY <1>4, <1>6
<1> QED
  BY <1>5, <1>7 DEF MemberStep

-----------------------------------------------------------------------------
(* How the tokens of a stretch of the text, those from a to b - 1, are     *)
(* read: c values one behind the other, or keys and values by turns (the   *)
(* first, or the second, is then a key), nested d deep, which begin at     *)
(* position i or later and before e.                                       *)

Clear(T, b, e) == \A j \in b .. Len(T) : T[j].start >= e

Skips(T, a, b, c, d) ==
  \A base \in Seq(Nat) : \A m \in Nat :
    m >= c /\ Len(base) + 1 + d <= MaxDepth =>
      SkipRest(T)[<< a, Append(base, m) >>] = SkipRest(T)[<< b, Append(base, m - c) >>]

Row(T, a, b, c, keys) ==
  /\ \A n \in Nat : n < c => Further(T)[<< a, n >>] \in a .. b - 1
  /\ Further(T)[<< a, c >>] = b
  /\ \A k \in Nat : keys # 2 /\ 2 * k + keys < c => T[Further(T)[<< a, 2 * k + keys >>]].type = JSTOK_STRING

KeyTurn(t) == IF t.type = JSTOK_OBJECT THEN 0 ELSE 2
Right(T, j) ==
  /\ jstok_skip(T, j) = Beyond(T, j)
  /\ ~IsLeaf(T[j]) => Row(T, j + 1, Beyond(T, j), Children(T[j]), KeyTurn(T[j]))

Reads(T, a, b, i, e, c, keys, d) ==
  /\ c \in Nat
  /\ \A j \in a .. b - 1 : i <= T[j].start /\ T[j].start < e
  /\ \A j \in a .. b - 1 : Right(T, j)
  /\ Skips(T, a, b, c, d)
  /\ Row(T, a, b, c, keys)

Turns == {0, 1, 2}

LEMMA SkipsOut ==
  ASSUME NEW T \in Seq(Token), NEW idx \in Positions, NEW base \in Seq(Nat)
  PROVE  /\ SkipRest(T)[<< idx, << >> >>] = idx
         /\ SkipRest(T)[<< idx, Append(base, 0) >>] = SkipRest(T)[<< idx, base >>]
  BY SkipsOn

LEMMA SkipsLeaf ==
  ASSUME NEW T \in Seq(Token), NEW idx \in Positions, NEW base \in Seq(Nat), NEW m \in Nat,
         m # 0, idx <= Len(T), IsLeaf(T[idx])
  PROVE  SkipRest(T)[<< idx, Append(base, m) >>] = SkipRest(T)[<< idx + 1, Append(base, m - 1) >>]
<1>1. \A k \in Nat : k # 0 /\ idx <= Len(T) /\ IsLeaf(T[idx]) =>
        SkipRest(T)[<< idx, Append(base, k) >>] = SkipRest(T)[<< idx + 1, Append(base, k - 1) >>]
  BY SkipsOn
<1> QED
  BY <1>1

LEMMA SkipsInto ==
  ASSUME NEW T \in Seq(Token), NEW idx \in Positions, NEW base \in Seq(Nat), NEW m \in Nat,
         m # 0, idx <= Len(T), ~IsLeaf(T[idx]), Len(base) + 1 < MaxDepth
  PROVE  SkipRest(T)[<< idx, Append(base, m) >>]
           = SkipRest(T)[<< idx + 1, Append(Append(base, m - 1), Children(T[idx])) >>]
<1>1. Enters(T, idx, base, m)
  BY SkipsOn
<1> QED
  BY <1>1 DEF Enters

LEMMA NothingReads ==
  ASSUME NEW T \in Seq(Token), NEW a \in Positions, NEW i, NEW e, NEW keys \in Turns, NEW d \in Nat
  PROVE  Reads(T, a, a, i, e, 0, keys, d)
<1>1. 0 \in Nat /\ a \in Nat
  BY DEF Positions
<1>2. Further(T)[<< a, 0 >>] = a
  BY <1>1, FurtherIs
<1>3. Row(T, a, a, 0, keys)
  <2>1. \A k \in Nat : ~ (2 * k + keys < 0)
    BY DEF Turns
  <2>2. \A n \in Nat : ~ (n < 0)
    OBVIOUS
  <2> QED
    BY <1>2, <2>1, <2>2 DEF Row
<1>4. Skips(T, a, a, 0, d)
  <2>1. \A m \in Nat : m - 0 = m
    OBVIOUS
  <2> QED
    BY <2>1 DEF Skips
<1>5. a .. a - 1 = {}
  BY <1>1
<1> QED
  BY <1>1, <1>3, <1>4, <1>5 DEF Reads

LEMMA ReadsEarlier ==
  ASSUME NEW T \in Seq(Token), NEW a \in Positions, NEW b \in 1 .. Len(T) + 1, NEW i \in Nat, NEW h \in Nat, h <= i,
         NEW e, NEW c, NEW keys, NEW d, Reads(T, a, b, i, e, c, keys, d)
  PROVE  Reads(T, a, b, h, e, c, keys, d)
<1>1. ASSUME NEW j \in a .. b - 1 PROVE h <= T[j].start /\ T[j].start < e
  <2>1. j \in 1 .. Len(T)
    BY DEF Positions
  <2>2. T[j] \in Token
    BY <2>1
  <2>3. T[j].start \in Nat
    BY <2>2 DEF Token
  <2>4. i <= T[j].start /\ T[j].start < e
    BY DEF Reads
  <2> QED
    BY <2>3, <2>4
<1> QED
  BY <1>1 DEF Reads

(* One item is a row of one.                                               *)
LEMMA OneRow ==
  ASSUME NEW T \in Seq(Token), NEW a \in 1 .. Len(T), NEW b, Beyond(T, a) = b,
         NEW keys \in Turns, keys # 0 \/ T[a].type = JSTOK_STRING
  PROVE  Row(T, a, b, 1, keys)
<1>1. a \in Positions /\ a \in Nat /\ Len(T) \in Nat /\ 0 \in Nat /\ 1 \in Nat
  BY DEF Positions
<1>2. b \in a + 1 .. Len(T) + 1
  BY BeyondIs
<1>3. b \in Positions
  BY <1>1, <1>2 DEF Positions
<1>4. Further(T)[<< a, 0 >>] = a
  BY <1>1, FurtherIs
<1>5. Further(T)[<< a, 1 >>] = b
  <2>1. Further(T)[<< b, 0 >>] = b
    BY <1>1, <1>3, FurtherIs
  <2>2. Further(T)[<< a, 1 >>] = IF 1 = 0 \/ a > Len(T) THEN a ELSE Further(T)[<< Beyond(T, a), 1 - 1 >>]
    BY <1>1, FurtherIs
  <2>3. 1 - 1 = 0 /\ 1 # 0 /\ ~ (a > Len(T))
    BY <1>1
  <2> QED
    BY <2>1, <2>2, <2>3
<1>6. \A n \in Nat : n < 1 => n = 0
  OBVIOUS
<1>7. ASSUME NEW k \in Nat, keys # 2, 2 * k + keys < 1 PROVE T[Further(T)[<< a, 2 * k + keys >>]].type = JSTOK_STRING
  <2>1. keys \in Nat
    BY DEF Turns
  <2>2. 2 * k + keys = 0 /\ keys = 0
    BY <1>7, <2>1
  <2> QED
    BY <1>4, <2>2
<1>8. a \in a .. b - 1
  BY <1>1, <1>2
<1> QED
  BY <1>4, <1>5, <1>6, <1>7, <1>8 DEF Row

LEMMA LeafReads ==
  ASSUME NEW T \in Seq(Token), NEW a \in 1 .. Len(T), IsLeaf(T[a]), NEW i \in Nat, NEW e \in Nat,
         i <= T[a].start, T[a].start < e, T[a].end <= e, Clear(T, a + 1, e),
         NEW keys \in Turns, keys # 0 \/ T[a].type = JSTOK_STRING
  PROVE  Reads(T, a, a + 1, i, e, 1, keys, 0)
<1>1. Len(T) \in Nat /\ a \in Positions /\ a + 1 \in Positions /\ a + 1 \in a + 1 .. Len(T) + 1 /\ ~ (a > Len(T))
  BY DEF Positions
<1>2. T[a] \in Token
  OBVIOUS
<1>3. T[a].start \in Nat /\ T[a].end \in Int
  BY <1>2 DEF Token
<1>4. Beyond(T, a) = a + 1
  <2>1. \A j \in a + 1 .. a + 1 - 1 : FALSE
    BY <1>1
  <2>2. a + 1 <= Len(T) => T[a + 1].start >= T[a].end
    <3> SUFFICES ASSUME a + 1 <= Len(T) PROVE T[a + 1].start >= T[a].end
      OBVIOUS
    <3>1. a + 1 \in a + 1 .. Len(T) /\ a + 1 \in 1 .. Len(T)
      BY <1>1
    <3>2. T[a + 1].start >= e
      BY <3>1 DEF Clear
    <3>3. T[a + 1] \in Token
      BY <3>1
    <3>4. T[a + 1].start \in Nat
      BY <3>3 DEF Token
    <3> QED
      BY <1>3, <3>2, <3>4
  <2> QED
    BY <1>1, <2>1, <2>2, BeyondAt
<1>5. jstok_skip(T, a) = a + 1
  BY <1>1 DEF jstok_skip
<1>6. \A j \in a .. a + 1 - 1 : j = a
  BY <1>1
<1>7. Row(T, a, a + 1, 1, keys)
  BY <1>4, OneRow
<1>8. Skips(T, a, a + 1, 1, 0)
  <2> SUFFICES ASSUME NEW base \in Seq(Nat), NEW m \in Nat, m >= 1
               PROVE  SkipRest(T)[<< a, Append(base, m) >>] = SkipRest(T)[<< a + 1, Append(base, m - 1) >>]
    BY DEF Skips
  <2>1. m # 0 /\ a <= Len(T)
    BY <1>1
  <2>2. a \in Positions
    BY <1>1
  <2> QED
    BY <2>1, <2>2, SkipsLeaf
<1>9. Right(T, a)
  BY <1>4, <1>5 DEF Right
<1> QED
  BY <1>6, <1>7, <1>8, <1>9 DEF Reads

LEMMA ContainerReads ==
  ASSUME NEW T \in Seq(Token), NEW a \in 1 .. Len(T), ~IsLeaf(T[a]), NEW b \in a + 1 .. Len(T) + 1,
         NEW i \in Nat, NEW e \in Nat, i < e, T[a].start = i, T[a].end = e, Clear(T, b, e), NEW d \in Nat,
         Reads(T, a + 1, b, i + 1, e, Children(T[a]), KeyTurn(T[a]), d),
         1 + d <= MaxDepth, NEW keys \in {1, 2}
  PROVE  Reads(T, a, b, i, e, 1, keys, 1 + d)
<1>1. /\ Len(T) \in Nat /\ a \in Positions /\ a + 1 \in Positions /\ b \in Positions /\ a \in Nat /\ b \in Nat
      /\ ~ (a > Len(T)) /\ MaxDepth \in Nat
  BY DepthAssumption DEF Positions
<1>2. T[a] \in Token
  OBVIOUS
<1>3. Children(T[a]) \in Nat
  BY <1>2, ChildrenType
<1> DEFINE c == Children(T[a])
<1>i. /\ \A j \in a + 1 .. b - 1 : i + 1 <= T[j].start /\ T[j].start < e
      /\ \A j \in a + 1 .. b - 1 : Right(T, j)
      /\ Skips(T, a + 1, b, c, d)
      /\ Row(T, a + 1, b, c, KeyTurn(T[a]))
  BY DEF Reads
<1>4. Beyond(T, a) = b
  <2>1. b <= Len(T) => T[b].start >= T[a].end
    <3> SUFFICES ASSUME b <= Len(T) PROVE T[b].start >= T[a].end
      OBVIOUS
    <3>1. b \in b .. Len(T)
      BY <1>1
    <3> QED
      BY <3>1 DEF Clear
  <2>2. \A j \in a + 1 .. b - 1 : T[j].start < T[a].end
    BY <1>i
  <2> QED
    BY <2>1, <2>2, BeyondAt
<1> HIDE DEF c
<1>5. jstok_skip(T, a) = b
  <2>1. << >> \in Seq(Nat) /\ Len(<< >>) = 0 /\ Append(<< >>, c) = << c >> /\ 0 + 1 + d <= MaxDepth /\ c >= c /\ c - c = 0
        /\ c \in Nat
    BY <1>1, <1>3 DEF c
  <2>2. SkipRest(T)[<< a + 1, Append(<< >>, c) >>] = SkipRest(T)[<< b, Append(<< >>, 0) >>]
    <3>1. \A base \in Seq(Nat) : c >= c /\ Len(base) + 1 + d <= MaxDepth =>
            SkipRest(T)[<< a + 1, Append(base, c) >>] = SkipRest(T)[<< b, Append(base, c - c) >>]
      BY <1>i, <2>1 DEF Skips
    <3>2. SkipRest(T)[<< a + 1, Append(<< >>, c) >>] = SkipRest(T)[<< b, Append(<< >>, c - c) >>]
      BY <2>1, <3>1
    <3> QED
      BY <2>1, <3>2
  <2>3. SkipRest(T)[<< b, Append(<< >>, 0) >>] = SkipRest(T)[<< b, << >> >>] /\ SkipRest(T)[<< b, << >> >>] = b
    <3>1. b \in Positions /\ << >> \in Seq(Nat)
      BY <1>1
    <3> QED
      BY <3>1, SkipsOut
  <2>4. jstok_skip(T, a) = SkipRest(T)[<< a + 1, << c >> >>]
    BY <1>1 DEF jstok_skip, c
  <2> QED
    BY <2>1, <2>2, <2>3, <2>4
<1>6. Row(T, a, b, 1, keys)
  BY <1>4, OneRow DEF Turns
<1>7. Skips(T, a, b, 1, 1 + d)
  <2> SUFFICES ASSUME NEW base \in Seq(Nat), NEW m \in Nat, m >= 1, Len(base) + 1 + (1 + d) <= MaxDepth
               PROVE  SkipRest(T)[<< a, Append(base, m) >>] = SkipRest(T)[<< b, Append(base, m - 1) >>]
    BY DEF Skips
  <2> DEFINE more == Append(base, m - 1)
  <2>1. m # 0 /\ a <= Len(T) /\ m - 1 \in Nat /\ Len(base) \in Nat /\ Len(base) + 1 < MaxDepth
    BY <1>1
  <2>2. more \in Seq(Nat) /\ Len(more) = Len(base) + 1
    BY <2>1
  <2> HIDE DEF more
  <2>3. SkipRest(T)[<< a, Append(base, m) >>] = SkipRest(T)[<< a + 1, Append(more, c) >>]
    <3>1. a \in Positions
      BY <1>1
    <3>2. SkipRest(T)[<< a, Append(base, m) >>] = SkipRest(T)[<< a + 1, Append(Append(base, m - 1), Children(T[a])) >>]
      BY <2>1, <3>1, SkipsInto
    <3> QED
      BY <3>2 DEF more, c
  <2>4. Len(more) + 1 + d <= MaxDepth /\ c >= c /\ c - c = 0 /\ c \in Nat
    <3>1. c \in Nat
      BY <1>3 DEF c
    <3>2. Len(more) = Len(base) + 1 /\ Len(base) \in Nat
      BY <2>1, <2>2
    <3> QED
      BY <1>1, <3>1, <3>2
  <2>5. SkipRest(T)[<< a + 1, Append(more, c) >>] = SkipRest(T)[<< b, Append(more, 0) >>]
    <3>1. c >= c /\ Len(more) + 1 + d <= MaxDepth =>
            SkipRest(T)[<< a + 1, Append(more, c) >>] = SkipRest(T)[<< b, Append(more, c - c) >>]
      BY <1>i, <2>2, <2>4 DEF Skips
    <3> QED
      BY <2>4, <3>1
  <2>6. SkipRest(T)[<< b, Append(more, 0) >>] = SkipRest(T)[<< b, more >>]
    <3>1. b \in Positions
      BY <1>1
    <3> QED
      BY <2>2, <3>1, SkipsOut
  <2> QED
    BY <2>3, <2>5, <2>6 DEF more
<1>8. Right(T, a)
  BY <1>4, <1>5, <1>i DEF Right, c
<1>9. ASSUME NEW j \in a .. b - 1 PROVE i <= T[j].start /\ T[j].start < e /\ Right(T, j)
  <2>1. CASE j = a
    BY <1>8, <2>1
  <2>2. CASE j # a
    <3>1. j \in a + 1 .. b - 1 /\ j \in 1 .. Len(T)
      BY <1>1, <2>2
    <3>2. T[j] \in Token
      BY <3>1
    <3>3. T[j].start \in Nat
      BY <3>2 DEF Token
    <3> QED
      BY <1>i, <3>1, <3>3
  <2> QED
    BY <2>1, <2>2
<1> QED
  BY <1>6, <1>7, <1>9 DEF Reads

(* One item and what is behind it.                                         *)
NextTurn(keys) == IF keys = 0 THEN 1 ELSE IF keys = 1 THEN 0 ELSE 2

LEMMA RowOn ==
  ASSUME NEW T \in Seq(Token), NEW a \in 1 .. Len(T), NEW b \in a + 1 .. Len(T) + 1, NEW z \in b .. Len(T) + 1,
         Beyond(T, a) = b, NEW c \in Nat, NEW keys \in Turns, keys # 0 \/ T[a].type = JSTOK_STRING,
         Row(T, b, z, c, NextTurn(keys))
  PROVE  Row(T, a, z, 1 + c, keys)
<1> DEFINE f == Further(T)
<1>1. /\ Len(T) \in Nat /\ a \in Positions /\ b \in Positions /\ a \in Nat /\ b \in Nat /\ z \in Nat
      /\ ~ (a > Len(T)) /\ 0 \in Nat /\ a < b /\ b <= z
  BY DEF Positions
<1>2. f[<< a, 0 >>] = a
  BY <1>1, FurtherIs
<1>3. ASSUME NEW n \in Nat PROVE f[<< a, n + 1 >>] = f[<< b, n >>]
  <2>1. n + 1 \in Nat /\ n + 1 # 0 /\ n + 1 - 1 = n
    OBVIOUS
  <2>2. f[<< a, n + 1 >>] = IF n + 1 = 0 \/ a > Len(T) THEN a ELSE f[<< Beyond(T, a), n + 1 - 1 >>]
    BY <1>1, <2>1, FurtherIs
  <2> HIDE DEF f
  <2> QED
    BY <1>1, <2>1, <2>2
<1>r. /\ \A n \in Nat : n < c => f[<< b, n >>] \in b .. z - 1
      /\ f[<< b, c >>] = z
      /\ \A k \in Nat : NextTurn(keys) # 2 /\ 2 * k + NextTurn(keys) < c =>
                          T[f[<< b, 2 * k + NextTurn(keys) >>]].type = JSTOK_STRING
  BY DEF Row
<1> HIDE DEF f
<1>4. ASSUME NEW n \in Nat, n < 1 + c PROVE f[<< a, n >>] \in a .. z - 1
  <2>1. CASE n = 0
    BY <1>1, <1>2, <2>1
  <2>2. CASE n # 0
    <3>1. PICK m \in Nat : m + 1 = n
      BY <2>2
    <3>2. m < c
      BY <1>4, <3>1
    <3>3. f[<< b, m >>] \in b .. z - 1
      BY <1>r, <3>2
    <3>4. f[<< a, n >>] = f[<< b, m >>]
      BY <1>3, <3>1
    <3> QED
      BY <1>1, <3>3, <3>4
  <2> QED
    BY <2>1, <2>2
<1>5. f[<< a, 1 + c >>] = z
  <2>1. c + 1 = 1 + c
    OBVIOUS
  <2>2. f[<< a, c + 1 >>] = f[<< b, c >>]
    BY <1>3
  <2> QED
    BY <1>r, <2>1, <2>2
<1>6. ASSUME NEW k \in Nat, keys # 2, 2 * k + keys < 1 + c PROVE T[f[<< a, 2 * k + keys >>]].type = JSTOK_STRING
  <2>1. CASE keys = 0 /\ k = 0
    <3>1. 2 * k + keys = 0
      BY <2>1
    <3> QED
      BY <1>2, <2>1, <3>1
  <2>2. CASE keys = 0 /\ k # 0
    <3>1. PICK m \in Nat : m + 1 = k
      BY <2>2
    <3>2. NextTurn(keys) = 1
      BY <2>2 DEF NextTurn
    <3>3. 2 * m + 1 \in Nat /\ 2 * m + 1 + 1 = 2 * k + keys /\ 2 * m + 1 < c
      BY <1>6, <2>2, <3>1
    <3>4. T[f[<< b, 2 * m + 1 >>]].type = JSTOK_STRING
      BY <1>r, <3>2, <3>3
    <3>5. f[<< a, 2 * m + 1 + 1 >>] = f[<< b, 2 * m + 1 >>]
      BY <1>3, <3>3
    <3> QED
      BY <3>3, <3>4, <3>5
  <2>3. CASE keys = 1
    <3>1. NextTurn(keys) = 0
      BY <2>3 DEF NextTurn
    <3>2. 2 * k + 0 \in Nat /\ 2 * k + 0 + 1 = 2 * k + keys /\ 2 * k + 0 < c
      BY <1>6, <2>3
    <3>3. T[f[<< b, 2 * k + 0 >>]].type = JSTOK_STRING
      BY <1>r, <3>1, <3>2
    <3>4. f[<< a, 2 * k + 0 + 1 >>] = f[<< b, 2 * k + 0 >>]
      BY <1>3, <3>2
    <3> QED
      BY <3>2, <3>3, <3>4
  <2> QED
    BY <1>6, <2>1, <2>2, <2>3 DEF Turns
<1> QED
  BY <1>4, <1>5, <1>6 DEF Row, f

LEMMA SkipsMore ==
  ASSUME NEW T, NEW a, NEW b, NEW z, NEW c \in Nat, NEW d1 \in Nat, NEW d2 \in Nat,
         Skips(T, a, b, 1, d1), Skips(T, b, z, c, d2)
  PROVE  Skips(T, a, z, 1 + c, Larger(d1, d2))
<1> SUFFICES ASSUME NEW base \in Seq(Nat), NEW m \in Nat, m >= 1 + c, Len(base) + 1 + Larger(d1, d2) <= MaxDepth
             PROVE  SkipRest(T)[<< a, Append(base, m) >>] = SkipRest(T)[<< z, Append(base, m - (1 + c)) >>]
  BY DEF Skips
<1>1. Len(base) \in Nat /\ MaxDepth \in Nat
  BY DepthAssumption
<1>2. Len(base) + 1 + d1 <= MaxDepth /\ Len(base) + 1 + d2 <= MaxDepth
  BY <1>1 DEF Larger
<1>3. m >= 1 /\ m - 1 \in Nat /\ m - 1 >= c /\ m - 1 - c = m - (1 + c)
  OBVIOUS
<1>4. SkipRest(T)[<< a, Append(base, m) >>] = SkipRest(T)[<< b, Append(base, m - 1) >>]
  BY <1>2, <1>3 DEF Skips
<1>5. SkipRest(T)[<< b, Append(base, m - 1) >>] = SkipRest(T)[<< z, Append(base, m - 1 - c) >>]
  BY <1>2, <1>3 DEF Skips
<1> QED
  BY <1>3, <1>4, <1>5

LEMMA ReadsOn ==
  ASSUME NEW T \in Seq(Token), NEW a \in Positions, NEW b \in a .. Len(T) + 1, NEW z \in b .. Len(T) + 1,
         NEW i \in Nat, NEW e \in Nat, NEW y \in Nat, i <= e, e <= y,
         NEW c, NEW keys \in Turns, NEW d1 \in Nat, NEW d2 \in Nat,
         Reads(T, a, b, i, e, 1, keys, d1), Reads(T, b, z, e, y, c, NextTurn(keys), d2)
  PROVE  Reads(T, a, z, i, y, 1 + c, keys, Larger(d1, d2))
<1>1. Len(T) \in Nat /\ a \in Nat /\ a >= 1 /\ b \in Nat /\ z \in Nat /\ 0 \in Nat /\ 1 \in Nat
  BY DEF Positions
<1>i. /\ \A j \in a .. b - 1 : i <= T[j].start /\ T[j].start < e
      /\ \A j \in a .. b - 1 : Right(T, j)
      /\ Skips(T, a, b, 1, d1)
      /\ Row(T, a, b, 1, keys)
  BY DEF Reads
<1>n. /\ c \in Nat
      /\ \A j \in b .. z - 1 : e <= T[j].start /\ T[j].start < y
      /\ \A j \in b .. z - 1 : Right(T, j)
      /\ Skips(T, b, z, c, d2)
      /\ Row(T, b, z, c, NextTurn(keys))
  BY DEF Reads
<1>2. Further(T)[<< a, 0 >>] = a
  BY <1>1, FurtherIs
<1>3. a \in a .. b - 1
  <2>1. \A n \in Nat : n < 1 => Further(T)[<< a, n >>] \in a .. b - 1
    BY <1>i DEF Row
  <2>2. Further(T)[<< a, 0 >>] \in a .. b - 1
    BY <2>1
  <2> QED
    BY <1>2, <2>2
<1>4. a \in 1 .. Len(T) /\ b \in a + 1 .. Len(T) + 1 /\ b \in Positions /\ ~ (a > Len(T))
  BY <1>1, <1>3 DEF Positions
<1>5. Beyond(T, a) = b
  <2>1. Beyond(T, a) \in Positions
    BY <1>1, <1>4, BeyondIs DEF Positions
  <2>2. Further(T)[<< Beyond(T, a), 0 >>] = Beyond(T, a)
    BY <1>1, <2>1, FurtherIs
  <2>3. Further(T)[<< a, 1 >>] = IF 1 = 0 \/ a > Len(T) THEN a ELSE Further(T)[<< Beyond(T, a), 1 - 1 >>]
    BY <1>1, FurtherIs
  <2>4. 1 - 1 = 0 /\ 1 # 0
    OBVIOUS
  <2>5. Further(T)[<< a, 1 >>] = b
    BY <1>i DEF Row
  <2> QED
    BY <1>4, <2>2, <2>3, <2>4, <2>5
<1>6. keys # 0 \/ T[a].type = JSTOK_STRING
  <2> SUFFICES ASSUME keys = 0 PROVE T[a].type = JSTOK_STRING
    OBVIOUS
  <2>1. \A k \in Nat : keys # 2 /\ 2 * k + keys < 1 => T[Further(T)[<< a, 2 * k + keys >>]].type = JSTOK_STRING
    BY <1>i DEF Row
  <2>2. 2 * 0 + keys = 0
    OBVIOUS
  <2>3. T[Further(T)[<< a, 2 * 0 + keys >>]].type = JSTOK_STRING
    BY <2>1, <2>2
  <2> QED
    BY <1>2, <2>2, <2>3
<1>7. Row(T, a, z, 1 + c, keys)
  BY <1>4, <1>5, <1>6, <1>n, RowOn
<1>8. Skips(T, a, z, 1 + c, Larger(d1, d2))
  BY <1>i, <1>n, SkipsMore
<1>9. ASSUME NEW j \in a .. z - 1 PROVE i <= T[j].start /\ T[j].start < y /\ Right(T, j)
  <2>1. j \in 1 .. Len(T)
    BY <1>1
  <2>2. T[j] \in Token
    BY <2>1
  <2>3. T[j].start \in Nat
    BY <2>2 DEF Token
  <2>4. CASE j < b
    <3>1. j \in a .. b - 1
      BY <1>1, <2>4
    <3>2. i <= T[j].start /\ T[j].start < e /\ Right(T, j)
      BY <1>i, <3>1
    <3>3. T[j].start < y
      BY <2>3, <3>2
    <3> QED
      BY <3>2, <3>3
  <2>5. CASE ~ (j < b)
    <3>1. j \in b .. z - 1
      BY <1>1, <2>5
    <3>2. e <= T[j].start /\ T[j].start < y /\ Right(T, j)
      BY <1>n, <3>1
    <3>3. i <= T[j].start
      BY <2>3, <3>2
    <3> QED
      BY <3>2, <3>3
  <2> QED
    BY <2>4, <2>5
<1>10. 1 + c \in Nat
  BY <1>n
<1> QED
  BY <1>7, <1>8, <1>9, <1>10 DEF Reads

Stands(T, a, F) == a + Len(F) <= Len(T) + 1 /\ \A k \in 1 .. Len(F) : T[a + k - 1] = F[k]

(* What was read in a stretch of the text is read back, wherever among the *)
(* tokens those of the stretch stand.                                      *)
Laid(T, i, r, c, keys) ==
  \A a \in Positions :
    r.end # 0 /\ r.depth <= MaxDepth /\ Stands(T, a, r.tokens) /\ Clear(T, a + Len(r.tokens), r.end) =>
      Reads(T, a, a + Len(r.tokens), i, r.end, c, keys, r.depth)

LEMMA StandsApart ==
  ASSUME NEW T \in Seq(Token), NEW a \in Positions, NEW F \in Seq(Token), NEW G \in Seq(Token), Stands(T, a, F \o G)
  PROVE  /\ Stands(T, a, F) /\ Stands(T, a + Len(F), G)
         /\ a + Len(F \o G) = a + Len(F) + Len(G)
<1> DEFINE H == F \o G
<1>1. Len(T) \in Nat /\ Len(F) \in Nat /\ Len(G) \in Nat /\ a \in Nat /\ Len(H) = Len(F) + Len(G)
  BY DEF Positions
<1>2. \A k \in 1 .. Len(F) : H[k] = F[k]
  OBVIOUS
<1>3. \A k \in 1 .. Len(G) : H[Len(F) + k] = G[k]
  OBVIOUS
<1> HIDE DEF H
<1>4. a + Len(H) <= Len(T) + 1 /\ \A k \in 1 .. Len(H) : T[a + k - 1] = H[k]
  BY DEF Stands, H
<1>5. Stands(T, a, F)
  <2>1. ASSUME NEW k \in 1 .. Len(F) PROVE T[a + k - 1] = F[k]
    <3>1. k \in 1 .. Len(H)
      BY <1>1
    <3> QED
      BY <1>2, <1>4, <3>1
  <2>2. a + Len(F) <= Len(T) + 1
    BY <1>1, <1>4
  <2> QED
    BY <2>1, <2>2 DEF Stands
<1>6. Stands(T, a + Len(F), G)
  <2>1. ASSUME NEW k \in 1 .. Len(G) PROVE T[a + Len(F) + k - 1] = G[k]
    <3>1. Len(F) + k \in 1 .. Len(H) /\ a + (Len(F) + k) - 1 = a + Len(F) + k - 1
      BY <1>1
    <3>2. T[a + (Len(F) + k) - 1] = H[Len(F) + k]
      BY <1>4, <3>1
    <3> QED
      BY <1>3, <3>1, <3>2
  <2>2. a + Len(F) + Len(G) <= Len(T) + 1
    BY <1>1, <1>4
  <2> QED
    BY <2>1, <2>2 DEF Stands
<1> QED
  BY <1>1, <1>5, <1>6 DEF H

LEMMA StandsFirst ==
  ASSUME NEW T \in Seq(Token), NEW a \in Positions, NEW t \in Token, NEW F \in Seq(Token), Stands(T, a, << t >> \o F)
  PROVE  /\ a \in 1 .. Len(T) /\ T[a] = t
         /\ Stands(T, a + 1, F) /\ a + 1 + Len(F) \in a + 1 .. Len(T) + 1
         /\ a + Len(<< t >> \o F) = a + 1 + Len(F)
<1> DEFINE one == << t >>
<1>1. one \in Seq(Token) /\ Len(one) = 1 /\ one[1] = t
  OBVIOUS
<1>2. Stands(T, a, one \o F)
  OBVIOUS
<1>m. one \in Seq(Token)
  OBVIOUS
<1> HIDE DEF one
<1>3. /\ Stands(T, a, one) /\ Stands(T, a + Len(one), F)
      /\ a + Len(one \o F) = a + Len(one) + Len(F)
  BY <1>2, <1>m, StandsApart
<1>4. a \in Nat /\ a >= 1 /\ Len(T) \in Nat /\ Len(F) \in Nat /\ a + 1 - 1 = a /\ 1 \in 1 .. Len(one)
  BY <1>1 DEF Positions
<1>5. T[a + 1 - 1] = one[1]
  BY <1>3, <1>4 DEF Stands
<1>6. a + 1 + Len(F) <= Len(T) + 1
  BY <1>1, <1>3 DEF Stands
<1>7. Stands(T, a + 1, F) /\ a + Len(one \o F) = a + 1 + Len(F)
  BY <1>1, <1>3
<1> QED
  BY <1>1, <1>4, <1>5, <1>6, <1>7 DEF one

LEMMA FollowedLaid ==
  ASSUME NEW T \in Seq(Token), NEW i \in Nat, NEW item \in Stretch, NEW rest \in Stretch,
         item.end # 0, i <= item.end, rest.end = 0 \/ item.end <= rest.end,
         NEW c, NEW keys \in Turns,
         Laid(T, i, item, 1, keys), Laid(T, item.end, rest, c, NextTurn(keys))
  PROVE  Laid(T, i, Followed(item, rest), 1 + c, keys)
<1> DEFINE r == Followed(item, rest)
           e == item.end  y == rest.end  d1 == item.depth  d2 == rest.depth  F == item.tokens  G == rest.tokens
<1>1. e \in Nat /\ y \in Nat /\ d1 \in Nat /\ d2 \in Nat /\ F \in Seq(Token) /\ G \in Seq(Token) /\ MaxDepth \in Nat
  BY DepthAssumption DEF Stretch
<1>2. r.end # 0 => y # 0 /\ r.end = y /\ r.tokens = F \o G /\ r.depth = Larger(d1, d2)
  BY DEF Followed, Unreadable
<1> SUFFICES ASSUME NEW a \in Positions, y # 0, Larger(d1, d2) <= MaxDepth, Stands(T, a, F \o G),
                    Clear(T, a + Len(F \o G), y)
             PROVE  Reads(T, a, a + Len(F \o G), i, y, 1 + c, keys, Larger(d1, d2))
  <2> HIDE DEF r, e, y, d1, d2, F, G
  <2> QED
    BY <1>2 DEF Laid, r
<1> DEFINE b == a + Len(F)
           z == b + Len(G)
<1> HIDE DEF F, G
<1>3. Stands(T, a, F) /\ Stands(T, b, G) /\ a + Len(F \o G) = z
  <2>1. Stands(T, a, F \o G)
    OBVIOUS
  <2> QED
    BY <1>1, <2>1, StandsApart
<1>4. /\ a \in Nat /\ Len(T) \in Nat /\ b \in a .. Len(T) + 1 /\ z \in b .. Len(T) + 1 /\ b \in Positions
      /\ e <= y /\ d1 <= MaxDepth /\ d2 <= MaxDepth
  <2>1. a \in Nat /\ a >= 1 /\ Len(T) \in Nat /\ Len(F) \in Nat /\ Len(G) \in Nat
    BY <1>1 DEF Positions
  <2>2. z <= Len(T) + 1
    BY <1>3 DEF Stands
  <2>3. d1 <= MaxDepth /\ d2 <= MaxDepth
    BY <1>1 DEF Larger
  <2> QED
    BY <2>1, <2>2, <2>3 DEF Positions
<1>5. Reads(T, b, z, e, y, c, NextTurn(keys), d2)
  <2>1. Clear(T, z, y)
    BY <1>3
  <2> QED
    BY <1>3, <1>4, <2>1 DEF Laid, G
<1>6. Clear(T, b, e)
  <2> SUFFICES ASSUME NEW j \in b .. Len(T) PROVE T[j].start >= e
    BY DEF Clear
  <2>n. b \in Nat /\ b >= 1 /\ Len(T) \in Nat /\ z \in Nat
    BY <1>4 DEF Positions
  <2>1. j \in 1 .. Len(T)
    BY <2>n
  <2>2. T[j] \in Token
    BY <2>1
  <2>3. T[j].start \in Nat
    BY <2>2 DEF Token
  <2>4. CASE j < z
    <3>1. j \in b .. z - 1
      BY <1>4, <2>4
    <3>2. e <= T[j].start
      BY <1>5, <3>1 DEF Reads
    <3> HIDE DEF e, b, z
    <3> QED
      BY <1>1, <2>3, <3>2
  <2>5. CASE ~ (j < z)
    <3>1. j \in z .. Len(T)
      BY <1>4, <2>5
    <3>2. T[j].start >= y
      <4>1. Clear(T, z, y)
        BY <1>3
      <4> HIDE DEF z, y
      <4> QED
        BY <3>1, <4>1 DEF Clear
    <3>3. e \in Nat /\ y \in Nat /\ e <= y
      BY <1>1, <1>4
    <3> HIDE DEF e, y, b, z
    <3> QED
      BY <2>3, <3>2, <3>3
  <2> QED
    BY <2>4, <2>5
<1>7. Reads(T, a, b, i, e, 1, keys, d1)
  BY <1>3, <1>4, <1>6 DEF Laid, F
<1> HIDE DEF b, z, e, y, d1, d2
<1>8. i <= e
  BY DEF e
<1>9. Reads(T, a, z, i, y, 1 + c, keys, Larger(d1, d2))
  BY <1>1, <1>4, <1>5, <1>7, <1>8, ReadsOn
<1> QED
  BY <1>3, <1>9

LEMMA EmptyLaid ==
  ASSUME NEW T \in Seq(Token), NEW i, NEW end \in Nat, NEW keys \in Turns
  PROVE  Laid(T, i, Empty(end), 0, keys)
<1> SUFFICES ASSUME NEW a \in Positions PROVE Reads(T, a, a + Len(<< >>), i, end, 0, keys, 0)
  BY DEF Laid, Empty
<1>1. a + Len(<< >>) = a /\ 0 \in Nat
  BY DEF Positions
<1>2. Reads(T, a, a, i, end, 0, keys, 0)
  BY <1>1, NothingReads
<1> QED
  BY <1>1, <1>2

LEMMA UnreadableLaid ==
  ASSUME NEW T, NEW i, NEW c, NEW keys, NEW r, r.end = 0
  PROVE  Laid(T, i, r, c, keys)
  BY DEF Laid

LEMMA EarlierLaid ==
  ASSUME NEW T \in Seq(Token), NEW i \in Nat, NEW h \in Nat, h <= i, NEW r \in Stretch, NEW c, NEW keys,
         Laid(T, i, r, c, keys)
  PROVE  Laid(T, h, r, c, keys)
<1> SUFFICES ASSUME NEW a \in Positions, r.end # 0, r.depth <= MaxDepth, Stands(T, a, r.tokens),
                    Clear(T, a + Len(r.tokens), r.end)
             PROVE  Reads(T, a, a + Len(r.tokens), h, r.end, c, keys, r.depth)
  BY DEF Laid
<1>1. Reads(T, a, a + Len(r.tokens), i, r.end, c, keys, r.depth)
  BY DEF Laid
<1>2. r.tokens \in Seq(Token)
  BY DEF Stretch
<1>3. a + Len(r.tokens) \in 1 .. Len(T) + 1
  <2>1. Len(r.tokens) \in Nat /\ Len(T) \in Nat /\ a \in Nat /\ a >= 1
    BY <1>2 DEF Positions
  <2> QED
    BY <2>1 DEF Stands
<1> QED
  BY <1>1, <1>3, ReadsEarlier

(* The items.                                                              *)
LEMMA LeafLaid ==
  ASSUME NEW T \in Seq(Token), NEW i \in Nat, NEW t \in Token, NEW end \in Nat, NEW count,
         IsLeaf(t), i <= t.start, t.start < end, t.end <= end,
         NEW keys \in Turns, keys # 0 \/ t.type = JSTOK_STRING
  PROVE  Laid(T, i, ItemOf(end, t, count), 1, keys)
<1>1. ItemOf(end, t, count).end = end /\ ItemOf(end, t, count).tokens = << t >> /\ ItemOf(end, t, count).depth = 0
  BY DEF ItemOf
<1> SUFFICES ASSUME NEW a \in Positions, Stands(T, a, << t >>), Clear(T, a + Len(<< t >>), end)
             PROVE  Reads(T, a, a + Len(<< t >>), i, end, 1, keys, 0)
  BY <1>1 DEF Laid
<1>2. Len(<< t >>) = 1 /\ << t >>[1] = t /\ 1 \in 1 .. 1
  OBVIOUS
<1>3. a \in Nat /\ a >= 1 /\ Len(T) \in Nat /\ a + 1 - 1 = a
  BY DEF Positions
<1>4. a + 1 <= Len(T) + 1 /\ T[a + 1 - 1] = t
  BY <1>2 DEF Stands
<1>5. a \in 1 .. Len(T) /\ T[a] = t
  BY <1>3, <1>4
<1>6. Clear(T, a + 1, end)
  BY <1>2
<1>7. Reads(T, a, a + 1, i, end, 1, keys, 0)
  BY <1>5, <1>6, LeafReads
<1> QED
  BY <1>2, <1>7

LEMMA ContainerLaid ==
  ASSUME NEW T \in Seq(Token), NEW i \in Positions, NEW type \in {JSTOK_OBJECT, JSTOK_ARRAY}, NEW inside,
         Behind(inside, i + 1), NEW keys \in {1, 2},
         Laid(T, i + 1, inside, IF type = JSTOK_OBJECT THEN 2 * inside.count ELSE inside.count,
              IF type = JSTOK_OBJECT THEN 0 ELSE 2)
  PROVE  Laid(T, i, ContainerOf(type, i, inside), 1, keys)
<1> DEFINE e == inside.end  F == inside.tokens  n == inside.count  d == inside.depth
           t == TokenOf(type, i, e, n)
           item == ContainerOf(type, i, inside)
           c == IF type = JSTOK_OBJECT THEN 2 * n ELSE n
           turn == IF type = JSTOK_OBJECT THEN 0 ELSE 2
<1>1. e \in Nat /\ F \in Seq(Token) /\ n \in Nat /\ d \in Nat /\ (e # 0 => e >= i + 1) /\ i \in Nat /\ MaxDepth \in Nat
  BY DepthAssumption DEF Behind, Stretch, Positions
<1>2. item.end # 0 => e # 0 /\ item.end = e /\ item.tokens = << t >> \o F /\ item.depth = 1 + d
  BY DEF ContainerOf, Unreadable
<1>3. /\ t \in Token /\ t.start = i /\ t.end = e /\ ~IsLeaf(t) /\ Children(t) = c /\ KeyTurn(t) = turn
  <2>1. t \in Token
    BY <1>1 DEF TokenOf, Token, Types
  <2>2. t.type = type /\ t.start = i /\ t.end = e /\ t.size = n
    BY DEF TokenOf
  <2>3. type \notin {JSTOK_STRING, JSTOK_PRIMITIVE}
    BY DEF JSTOK_OBJECT, JSTOK_ARRAY, JSTOK_STRING, JSTOK_PRIMITIVE
  <2> QED
    BY <2>1, <2>2, <2>3 DEF IsLeaf, Children, KeyTurn
<1>4. Laid(T, i + 1, inside, c, turn)
  OBVIOUS
<1> HIDE DEF t, c, turn
<1> SUFFICES ASSUME NEW a \in Positions, e # 0, 1 + d <= MaxDepth, Stands(T, a, << t >> \o F),
                    Clear(T, a + Len(<< t >> \o F), e)
             PROVE  Reads(T, a, a + Len(<< t >> \o F), i, e, 1, keys, 1 + d)
  <2> HIDE DEF item, e, F, n, d
  <2> QED
    BY <1>2 DEF Laid, item
<1> DEFINE b == a + 1 + Len(F)
<1> HIDE DEF F
<1>5. F \in Seq(Token)
  BY <1>1
<1>6. /\ a \in 1 .. Len(T) /\ T[a] = t /\ Stands(T, a + 1, F) /\ b \in a + 1 .. Len(T) + 1
      /\ a + Len(<< t >> \o F) = b
  BY <1>3, <1>5, StandsFirst
<1>7. a + 1 \in Positions
  BY DEF Positions
<1>10. Clear(T, b, e)
  BY <1>6
<1>11. Reads(T, a + 1, b, i + 1, e, c, turn, d)
  <2>1. d <= MaxDepth
    BY <1>1
  <2> QED
    BY <1>4, <1>6, <1>7, <1>10, <2>1 DEF Laid, F
<1> HIDE DEF b, e, d
<1>12. Reads(T, a, b, i, e, 1, keys, 1 + d)
  <2>1. i < e
    BY <1>1 DEF e
  <2>2. T[a].start = i /\ T[a].end = e /\ ~IsLeaf(T[a]) /\ Children(T[a]) = c /\ KeyTurn(T[a]) = turn
    BY <1>3, <1>6
  <2> QED
    BY <1>1, <1>6, <1>10, <1>11, <2>1, <2>2, ContainerReads
<1> QED
  BY <1>6, <1>12

(* How many parts the values of a place are, and which of them are keys.   *)
CountOf(place, n) ==
  IF place \in {"KEY_OR_END", "KEY", "OBJ_COMMA_OR_END"} THEN 2 * n
  ELSE IF place \in {"COLON", "OBJ_VALUE"} THEN 2 * n - 1 ELSE n
TurnOf(place) ==
  IF place \in {"KEY_OR_END", "KEY", "OBJ_COMMA_OR_END"} THEN 0
  ELSE IF place \in {"COLON", "OBJ_VALUE"} THEN 1 ELSE 2

LaidAt(T, s, place, i) ==
  LET r == Rest(place, s, i) IN Laid(T, i, r, CountOf(place, r.count), TurnOf(place))

LEMMA TurnType ==
  ASSUME NEW place
  PROVE  TurnOf(place) \in Turns
  BY DEF TurnOf, Turns

LEMMA CountsOn ==
  ASSUME NEW place \in TextPlaces, NEW n \in Nat
  PROVE  /\ TurnOf(AfterItem(place)) = NextTurn(TurnOf(place)) \/ place \notin KeyPlaces \cup ValuePlaces
         /\ place \in KeyPlaces => CountOf(place, 0 + n) = 1 + CountOf(AfterItem(place), n)
         /\ place \in ValuePlaces => CountOf(place, 1 + n) = 1 + CountOf(AfterItem(place), n)
         /\ place \in ValuePlaces => TurnOf(place) \in {1, 2}
  BY DEF TextPlaces, ObjectStates, ArrayStates, KeyPlaces, ValuePlaces, AfterItem, TopLevel, TurnOf, NextTurn, CountOf

LEMMA CountsOver ==
  ASSUME NEW place \in TextPlaces, NEW c, Separates(place, c), NEW n \in Nat
  PROVE  CountOf(AfterSeparator(place), n) = CountOf(place, n) /\ TurnOf(AfterSeparator(place)) = TurnOf(place)
  BY DEF TextPlaces, ObjectStates, ArrayStates, TopLevel, Separates, AfterSeparator, TurnOf, CountOf

LEMMA StringLaid ==
  ASSUME NEW T \in Seq(Token), NEW s \in Seq(STRING), NEW i \in Positions, NEW count, NEW keys \in Turns
  PROVE  Laid(T, i, StringAt(s, i, count), 1, keys)
<1> DEFINE close == StringClose(s, i + 1)
           t == TokenOf(JSTOK_STRING, i + 1, close, 0)
           item == StringAt(s, i, count)
<1>1. i \in Nat /\ i + 1 \in Positions
  BY DEF Positions
<1>2. close \in Nat /\ (close # 0 => close \in i + 1 .. Len(s))
  BY <1>1, CloseType
<1> HIDE DEF close
<1>3. CASE close = 0
  <2>1. item.end = 0
    BY <1>3 DEF StringAt, Unreadable, close
  <2> HIDE DEF item
  <2> QED
    BY <2>1, UnreadableLaid DEF item
<1>4. CASE close # 0
  <2>1. item = ItemOf(close + 1, t, count)
    BY <1>4 DEF StringAt, ItemOf, close
  <2>2. t \in Token /\ t.type = JSTOK_STRING /\ t.start = i + 1 /\ t.end = close
    BY <1>1, <1>2 DEF TokenOf, Token, Types, Positions
  <2>3. IsLeaf(t) /\ i <= t.start /\ t.start < close + 1 /\ t.end <= close + 1 /\ close + 1 \in Nat
    BY <1>1, <1>2, <1>4, <2>2 DEF IsLeaf
  <2> HIDE DEF t, item
  <2>4. Laid(T, i, ItemOf(close + 1, t, count), 1, keys)
    BY <1>1, <2>2, <2>3, LeafLaid
  <2> QED
    BY <2>1, <2>4 DEF item
<1> QED
  BY <1>3, <1>4

LEMMA PrimitiveLaid ==
  ASSUME NEW T \in Seq(Token), NEW s \in Seq(STRING), NEW i \in Positions, NEW keys \in {1, 2}
  PROVE  Laid(T, i, PrimitiveAt(s, i), 1, keys)
<1> DEFINE ends == {j \in i + 1 .. Len(s) + 1 : IsPrimitive(s, i, j)}
           end == CHOOSE j \in ends : TRUE
           t == TokenOf(JSTOK_PRIMITIVE, i, end, 0)
           item == PrimitiveAt(s, i)
<1>1. i \in Nat /\ Len(s) \in Nat
  BY DEF Positions
<1>2. item = IF ends = {} THEN Unreadable ELSE ItemOf(end, t, 1)
  BY DEF PrimitiveAt, ItemOf
<1>3. CASE ends = {}
  <2>1. item.end = 0
    BY <1>2, <1>3 DEF Unreadable
  <2> HIDE DEF item
  <2> QED
    BY <2>1, UnreadableLaid DEF item
<1>4. CASE ends # {}
  <2>1. end \in ends
    BY <1>4
  <2> HIDE DEF end
  <2>2. end \in Nat /\ end >= i + 1
    BY <1>1, <2>1
  <2> HIDE DEF ends
  <2>3. t \in Token /\ t.type = JSTOK_PRIMITIVE /\ t.start = i /\ t.end = end
    BY <1>1, <2>2 DEF TokenOf, Token, Types
  <2>4. IsLeaf(t) /\ i <= t.start /\ t.start < end /\ t.end <= end /\ keys \in Turns /\ keys # 0
    BY <1>1, <2>2, <2>3 DEF IsLeaf, Turns
  <2> HIDE DEF t, item
  <2>5. Laid(T, i, ItemOf(end, t, 1), 1, keys)
    BY <1>1, <2>2, <2>3, <2>4, LeafLaid
  <2> QED
    BY <1>2, <1>4, <2>5 DEF item
<1> QED
  BY <1>3, <1>4

(* Any item, when what is inside it is read back.                          *)
LEMMA ItemLaid ==
  ASSUME NEW T \in Seq(Token), NEW s \in Seq(STRING), NEW place \in TextPlaces, NEW i \in Positions,
         LaidAt(T, s, "KEY_OR_END", i + 1), LaidAt(T, s, "VALUE_OR_END", i + 1)
  PROVE  LET item == ItemAt(place, s, i, Inside(s, i))
         IN /\ Laid(T, i, item, 1, TurnOf(place))
            /\ item.end # 0 => \/ place \in KeyPlaces /\ item.count = 0
                               \/ place \in ValuePlaces /\ item.count = 1
<1> DEFINE item == ItemAt(place, s, i, Inside(s, i))
           turn == TurnOf(place)
<1>1. i + 1 \in Positions
  BY DEF Positions
<1>2. turn \in Turns
  BY TurnType
<1>u. Unreadable.end = 0
  BY DEF Unreadable
<1>3. CASE place \in KeyPlaces
  <2>1. item = IF s[i] = Quote THEN StringAt(s, i, 0) ELSE Unreadable
    BY <1>3 DEF ItemAt
  <2>2. Laid(T, i, StringAt(s, i, 0), 1, turn)
    BY <1>2, StringLaid
  <2>3. Laid(T, i, Unreadable, 1, turn)
    BY <1>u, UnreadableLaid
  <2>4. StringAt(s, i, 0).end # 0 => StringAt(s, i, 0).count = 0
    BY DEF StringAt, Unreadable
  <2> HIDE DEF item, turn
  <2> QED
    BY <1>3, <1>u, <2>1, <2>2, <2>3, <2>4 DEF item, turn
<1>4. CASE place \notin KeyPlaces /\ place \notin ValuePlaces
  <2>1. item = Unreadable
    BY <1>4 DEF ItemAt
  <2> HIDE DEF item, turn
  <2>2. item.end = 0
    BY <1>u, <2>1
  <2>3. Laid(T, i, item, 1, turn)
    BY <2>2, UnreadableLaid
  <2> QED
    BY <2>2, <2>3 DEF item, turn
<1>5. CASE place \notin KeyPlaces /\ place \in ValuePlaces
  <2>1. turn \in {1, 2}
    BY <1>5, CountsOn
  <2> HIDE DEF turn
  <2>2. CASE s[i] = "{"
    <3> DEFINE inside == Rest("KEY_OR_END", s, i + 1)
    <3>1. item = ContainerOf(JSTOK_OBJECT, i, inside)
      BY <1>5, <2>2 DEF ItemAt, Inside, FirstPlace
    <3>2. Behind(inside, i + 1)
      BY <1>1, RestType DEF TextPlaces, ObjectStates
    <3>3. Laid(T, i + 1, inside, 2 * inside.count, 0)
      BY DEF LaidAt, CountOf, TurnOf
    <3>4. item.end # 0 => item.count = 1
      BY <3>1 DEF ContainerOf, Unreadable
    <3> HIDE DEF item, inside
    <3>5. Laid(T, i, ContainerOf(JSTOK_OBJECT, i, inside), 1, turn)
      BY <2>1, <3>2, <3>3, ContainerLaid
    <3> QED
      BY <1>5, <3>1, <3>4, <3>5 DEF item, turn
  <2>3. CASE s[i] = "["
    <3> DEFINE inside == Rest("VALUE_OR_END", s, i + 1)
    <3>1. item = ContainerOf(JSTOK_ARRAY, i, inside)
      BY <1>5, <2>3 DEF ItemAt, Inside, FirstPlace
    <3>2. Behind(inside, i + 1)
      BY <1>1, RestType DEF TextPlaces, ArrayStates
    <3>3. Laid(T, i + 1, inside, inside.count, 2)
      BY DEF LaidAt, CountOf, TurnOf
    <3>4. item.end # 0 => item.count = 1
      BY <3>1 DEF ContainerOf, Unreadable
    <3>d. JSTOK_ARRAY # JSTOK_OBJECT
      BY DEF JSTOK_ARRAY, JSTOK_OBJECT
    <3> HIDE DEF item, inside
    <3>5. Laid(T, i, ContainerOf(JSTOK_ARRAY, i, inside), 1, turn)
      BY <2>1, <3>2, <3>3, <3>d, ContainerLaid
    <3> QED
      BY <1>5, <3>1, <3>4, <3>5 DEF item, turn
  <2>4. CASE s[i] # "{" /\ s[i] # "[" /\ s[i] = Quote
    <3>1. item = StringAt(s, i, 1)
      BY <1>5, <2>4 DEF ItemAt
    <3>2. Laid(T, i, StringAt(s, i, 1), 1, turn)
      BY <1>2, StringLaid DEF turn
    <3>3. item.end # 0 => item.count = 1
      BY <3>1 DEF StringAt, Unreadable
    <3> HIDE DEF item
    <3> QED
      BY <1>5, <3>1, <3>2, <3>3 DEF item, turn
  <2>5. CASE s[i] # "{" /\ s[i] # "[" /\ s[i] # Quote
    <3>1. item = PrimitiveAt(s, i)
      BY <1>5, <2>5 DEF ItemAt
    <3>2. Laid(T, i, PrimitiveAt(s, i), 1, turn)
      BY <2>1, PrimitiveLaid
    <3>3. item.end # 0 => item.count = 1
      BY <3>1 DEF PrimitiveAt, Unreadable
    <3> HIDE DEF item
    <3> QED
      BY <1>5, <3>1, <3>2, <3>3 DEF item, turn
  <2> QED
    BY <2>2, <2>3, <2>4, <2>5
<1> QED
  BY <1>3, <1>4, <1>5

LaidFrom(T, s, n) == \A place \in TextPlaces : \A j \in Positions : j >= n => LaidAt(T, s, place, j)

(* What is read one place earlier, from what is read behind it.            *)
LEMMA LaidOver ==
  ASSUME NEW T, NEW s, NEW place, NEW i, NEW r, Rest(place, s, i) = r,
         Laid(T, i, r, CountOf(place, r.count), TurnOf(place))
  PROVE  LaidAt(T, s, place, i)
  BY DEF LaidAt

LEMMA LaidEmpty ==
  ASSUME NEW T \in Seq(Token), NEW s \in Seq(STRING), NEW place \in TextPlaces, NEW i \in Positions, NEW end \in Nat,
         place \notin {"COLON", "OBJ_VALUE"}, Rest(place, s, i) = Empty(end)
  PROVE  LaidAt(T, s, place, i)
<1>1. CountOf(place, Empty(end).count) = 0
  BY DEF CountOf, Empty
<1>2. Laid(T, i, Empty(end), 0, TurnOf(place))
  BY TurnType, EmptyLaid
<1> QED
  BY <1>1, <1>2, LaidOver

LEMMA LaidLost ==
  ASSUME NEW T, NEW s, NEW place, NEW i, Rest(place, s, i).end = 0
  PROVE  LaidAt(T, s, place, i)
  BY UnreadableLaid DEF LaidAt

LEMMA LaidStep ==
  ASSUME NEW T \in Seq(Token), NEW s \in Seq(STRING), NEW place \in TextPlaces, NEW i \in Positions, LaidFrom(T, s, i + 1)
  PROVE  LaidAt(T, s, place, i)
<1>1. i \in Nat /\ i + 1 \in Positions /\ i + 1 \in Nat /\ i + 1 >= i + 1 /\ i <= i + 1 /\ Len(s) \in Nat
  BY DEF Positions
<1>2. CASE i > Len(s)
  <2>1. Rest(place, s, i) = IF place = TopLevel THEN Empty(i) ELSE Unreadable
    BY <1>2, AtEnd
  <2>2. CASE place = TopLevel
    <3>1. place \notin {"COLON", "OBJ_VALUE"}
      BY <2>2 DEF TopLevel
    <3> QED
      BY <1>1, <2>1, <2>2, <3>1, LaidEmpty
  <2>3. CASE place # TopLevel
    <3>1. Rest(place, s, i).end = 0
      BY <2>1, <2>3 DEF Unreadable
    <3> QED
      BY <3>1, LaidLost
  <2> QED
    BY <2>2, <2>3
<1>3. CASE i <= Len(s) /\ s[i] \in Spaces
  <2> DEFINE r == Rest(place, s, i + 1)
  <2>1. Rest(place, s, i) = r
    BY <1>3, AtSpace
  <2>2. r \in Stretch
    BY <1>1, RestType DEF Behind
  <2>3. LaidAt(T, s, place, i + 1)
    BY <1>1 DEF LaidFrom
  <2>4. Laid(T, i + 1, r, CountOf(place, r.count), TurnOf(place))
    BY <2>3 DEF LaidAt
  <2> HIDE DEF r
  <2>5. Laid(T, i, r, CountOf(place, r.count), TurnOf(place))
    BY <1>1, <2>2, <2>4, EarlierLaid
  <2> QED
    BY <2>1, <2>5, LaidOver
<1>4. CASE i <= Len(s) /\ s[i] \in Closer(place)
  <2>1. Rest(place, s, i) = Empty(i + 1)
    BY <1>4, AtCloser
  <2>2. place \notin {"COLON", "OBJ_VALUE"}
    BY <1>4 DEF Closer
  <2> QED
    BY <1>1, <2>1, <2>2, LaidEmpty
<1>5. CASE i <= Len(s) /\ Separates(place, s[i])
  <2> DEFINE next == AfterSeparator(place)
             r == Rest(next, s, i + 1)
  <2>1. Rest(place, s, i) = r
    BY <1>5, AtSeparator
  <2>n. next \in TextPlaces
    BY NextPlaces
  <2>2. r \in Stretch
    BY <1>1, <2>n, RestType DEF Behind
  <2>c. r.count \in Nat
    BY <2>2 DEF Stretch
  <2>3. LaidAt(T, s, next, i + 1)
    BY <1>1, <2>n DEF LaidFrom
  <2>4. Laid(T, i + 1, r, CountOf(next, r.count), TurnOf(next))
    BY <2>3 DEF LaidAt
  <2> HIDE DEF r
  <2>5. Laid(T, i, r, CountOf(next, r.count), TurnOf(next))
    BY <1>1, <2>2, <2>4, EarlierLaid
  <2>6. CountOf(next, r.count) = CountOf(place, r.count) /\ TurnOf(next) = TurnOf(place)
    BY <1>5, <2>c, CountsOver
  <2> HIDE DEF next
  <2> QED
    BY <2>1, <2>5, <2>6, LaidOver
<1>6. CASE i <= Len(s) /\ s[i] \notin Spaces /\ s[i] \notin Closer(place) /\ ~Separates(place, s[i])
  <2> DEFINE item == ItemAt(place, s, i, Inside(s, i))
             next == AfterItem(place)
             rest == Rest(next, s, item.end)
  <2>1. AtItemOf(place, s, i, item)
    BY <1>6, AtItem
  <2>2. LaidAt(T, s, "KEY_OR_END", i + 1) /\ LaidAt(T, s, "VALUE_OR_END", i + 1)
    BY <1>1 DEF LaidFrom, TextPlaces, ObjectStates, ArrayStates
  <2>3. /\ Laid(T, i, item, 1, TurnOf(place))
        /\ item.end # 0 => \/ place \in KeyPlaces /\ item.count = 0
                           \/ place \in ValuePlaces /\ item.count = 1
    BY <2>2, ItemLaid
  <2>4. Behind(item, i + 1)
    <3>1. Behind(Inside(s, i), i + 1)
      BY <1>1, NextPlaces, RestType DEF Inside
    <3> QED
      BY <3>1, ItemType
  <2> HIDE DEF item
  <2>5. Rest(place, s, i) = IF item.end = 0 THEN Unreadable ELSE Followed(item, rest)
    BY <2>1 DEF AtItemOf
  <2>6. CASE item.end = 0
    <3>1. Rest(place, s, i).end = 0
      BY <2>5, <2>6 DEF Unreadable
    <3> QED
      BY <3>1, LaidLost
  <2>7. CASE item.end # 0
    <3>1. item \in Stretch /\ item.end \in Positions /\ item.end >= i + 1 /\ i <= item.end /\ item.end \in Nat
      BY <1>1, <2>4, <2>7 DEF Behind, Stretch, Positions
    <3>n. next \in TextPlaces
      BY NextPlaces
    <3>2. Behind(rest, item.end)
      BY <3>1, <3>n, RestType
    <3>3. LaidAt(T, s, next, item.end)
      BY <3>1, <3>n DEF LaidFrom
    <3>4. Laid(T, item.end, rest, CountOf(next, rest.count), TurnOf(next))
      BY <3>3 DEF LaidAt
    <3> HIDE DEF rest
    <3>5. rest \in Stretch /\ (rest.end = 0 \/ item.end <= rest.end) /\ rest.count \in Nat
      BY <3>1, <3>2 DEF Behind, Stretch
    <3> DEFINE c == CountOf(next, rest.count)
    <3>6. /\ TurnOf(next) = NextTurn(TurnOf(place))
          /\ CountOf(place, item.count + rest.count) = 1 + c
      BY <2>3, <2>7, <3>5, CountsOn
    <3> HIDE DEF next, c
    <3>7. Laid(T, item.end, rest, c, NextTurn(TurnOf(place)))
      BY <3>4, <3>6 DEF c
    <3>8. Laid(T, i, item, 1, TurnOf(place)) /\ TurnOf(place) \in Turns
      BY <2>3, TurnType
    <3>9. Laid(T, i, Followed(item, rest), 1 + c, TurnOf(place))
      BY <1>1, <2>7, <3>1, <3>5, <3>7, <3>8, FollowedLaid
    <3>10. Rest(place, s, i) = Followed(item, rest)
      BY <2>5, <2>7
    <3>11. CASE rest.end = 0
      <4>1. Followed(item, rest).end = 0
        BY <3>11 DEF Followed, Unreadable
      <4> QED
        BY <3>10, <4>1, LaidLost
    <3>12. CASE rest.end # 0
      <4>1. Followed(item, rest).count = item.count + rest.count
        BY <2>7, <3>12 DEF Followed
      <4>2. Laid(T, i, Followed(item, rest), CountOf(place, Followed(item, rest).count), TurnOf(place))
        BY <3>6, <3>9, <4>1
      <4> QED
        BY <3>10, <4>2, LaidOver
    <3> QED
      BY <3>11, <3>12
  <2> QED
    BY <2>6, <2>7
<1> QED
  BY <1>1, <1>2, <1>3, <1>4, <1>5, <1>6

LEMMA AllLaid ==
  ASSUME NEW T \in Seq(Token), NEW s \in Seq(STRING)
  PROVE  LaidFrom(T, s, 1)
<1> DEFINE M == {m \in 0 .. Len(s) : LaidFrom(T, s, Len(s) + 1 - m)}
<1>1. Len(s) \in Nat
  OBVIOUS
<1>2. 0 \in M
  <2>1. ASSUME NEW place \in TextPlaces, NEW j \in Positions, j >= Len(s) + 1 PROVE LaidAt(T, s, place, j)
    <3>1. j > Len(s) /\ j \in Nat
      BY <1>1, <2>1 DEF Positions
    <3>2. Rest(place, s, j) = IF place = TopLevel THEN Empty(j) ELSE Unreadable
      BY <3>1, AtEnd
    <3>3. CASE place = TopLevel
      <4>1. place \notin {"COLON", "OBJ_VALUE"}
        BY <3>3 DEF TopLevel
      <4> QED
        BY <3>1, <3>2, <3>3, <4>1, LaidEmpty
    <3>4. CASE place # TopLevel
      <4>1. Rest(place, s, j).end = 0
        BY <3>2, <3>4 DEF Unreadable
      <4> QED
        BY <4>1, LaidLost
    <3> QED
      BY <3>3, <3>4
  <2>2. LaidFrom(T, s, Len(s) + 1)
    BY <2>1 DEF LaidFrom
  <2>3. Len(s) + 1 - 0 = Len(s) + 1
    BY <1>1
  <2> QED
    BY <1>1, <2>2, <2>3
<1>3. ASSUME NEW m \in M, m < Len(s) PROVE m + 1 \in M
  <2> DEFINE n == Len(s) - m
  <2>1. n \in Positions /\ n + 1 = Len(s) + 1 - m /\ n = Len(s) + 1 - (m + 1)
    BY <1>1, <1>3 DEF Positions
  <2>2. LaidFrom(T, s, n + 1)
    BY <2>1
  <2> HIDE DEF n
  <2>3. ASSUME NEW place \in TextPlaces, NEW j \in Positions, j >= n PROVE LaidAt(T, s, place, j)
    <3>1. CASE j = n
      BY <2>1, <2>2, <3>1, LaidStep
    <3>2. CASE j # n
      <4>1. j >= n + 1
        BY <2>1, <2>3, <3>2 DEF Positions
      <4> QED
        BY <2>2, <4>1 DEF LaidFrom
    <3> QED
      BY <3>1, <3>2
  <2>4. LaidFrom(T, s, n)
    BY <2>3 DEF LaidFrom
  <2> QED
    BY <1>1, <1>3, <2>1, <2>4
<1>4. Len(s) \in M
  <2> HIDE DEF M
  <2>1. M \in SUBSET (0 .. Len(s))
    BY DEF M
  <2> QED
    BY <1>1, <1>2, <1>3, <2>1, UpTo
<1>5. Len(s) + 1 - Len(s) = 1
  BY <1>1
<1> QED
  BY <1>4, <1>5

(* All tokens of a text that is not nested too deep are read back.         *)
LEMMA ReadingIsRight ==
  ASSUME NEW s \in Seq(STRING), ReadingOf(s).end # 0, ReadingOf(s).depth <= MaxDepth
  PROVE  /\ ReadingOf(s).tokens \in Seq(Token)
         /\ \A j \in 1 .. Len(ReadingOf(s).tokens) : Right(ReadingOf(s).tokens, j)
<1> DEFINE r == Rest(TopLevel, s, 1)
           T == r.tokens
<1>1. 1 \in Positions /\ TopLevel \in TextPlaces /\ 1 >= 1
  BY DEF Positions, TextPlaces
<1>2. Behind(r, 1)
  BY <1>1, RestType
<1>3. T \in Seq(Token)
  BY <1>2 DEF Behind, Stretch
<1>4. ReadingOf(s) = r
  BY DEF ReadingOf, Rest
<1>5. r.end # 0 /\ r.depth <= MaxDepth
  BY <1>4
<1> HIDE DEF T
<1>6. LaidAt(T, s, TopLevel, 1)
  BY <1>1, <1>3, AllLaid DEF LaidFrom
<1> HIDE DEF r
<1> DEFINE c == CountOf(TopLevel, r.count)
           keys == TurnOf(TopLevel)
<1>7. Laid(T, 1, r, c, keys)
  BY <1>6 DEF LaidAt, r
<1> HIDE DEF c, keys
<1>8. Len(T) \in Nat /\ 1 + Len(T) - 1 = Len(T)
  BY <1>3
<1>9. Stands(T, 1, T)
  <2>1. 1 + Len(T) <= Len(T) + 1
    BY <1>8
  <2>2. \A k \in 1 .. Len(T) : 1 + k - 1 = k
    BY <1>8
  <2> QED
    BY <2>1, <2>2 DEF Stands
<1>10. Clear(T, 1 + Len(T), r.end)
  <2>1. 1 + Len(T) .. Len(T) = {}
    BY <1>8
  <2> QED
    BY <2>1 DEF Clear
<1>11. Reads(T, 1, 1 + Len(T), 1, r.end, c, keys, r.depth)
  BY <1>1, <1>5, <1>7, <1>9, <1>10 DEF Laid, T
<1>12. \A j \in 1 .. Len(T) : Right(T, j)
  BY <1>8, <1>11 DEF Reads
<1> QED
  BY <1>3, <1>4, <1>12 DEF T

AllRight(T) == \A j \in 1 .. Len(T) : Right(T, j)

LEMMA PartsOn ==
  ASSUME NEW T \in Seq(Token), NEW a \in 1 .. Len(T) + 1, NEW n \in Nat
  PROVE  /\ Further(T)[<< a, n >>] \in 1 .. Len(T) + 1
         /\ Further(T)[<< a, n >>] <= Len(T) => Further(T)[<< a, n + 1 >>] = Beyond(T, Further(T)[<< a, n >>])
<1> DEFINE f == Further(T)
           Good(m) == \A x \in 1 .. Len(T) + 1 :
                        /\ f[<< x, m >>] \in 1 .. Len(T) + 1
                        /\ f[<< x, m >>] <= Len(T) => f[<< x, m + 1 >>] = Beyond(T, f[<< x, m >>])
           M == {m \in 0 .. n : Good(m)}
<1>1. Len(T) \in Nat /\ 0 \in Nat /\ 1 \in Nat
  OBVIOUS
<1>2. \A x \in 1 .. Len(T) + 1 : x \in Positions /\ (~ (x > Len(T)) => x \in 1 .. Len(T))
  BY <1>1 DEF Positions
<1>3. \A x \in 1 .. Len(T) + 1 : \A m \in Nat :
        f[<< x, m >>] = IF m = 0 \/ x > Len(T) THEN x ELSE f[<< Beyond(T, x), m - 1 >>]
  BY <1>2, FurtherIs
<1>4. \A x \in 1 .. Len(T) : Beyond(T, x) \in 1 .. Len(T) + 1
  <2> SUFFICES ASSUME NEW x \in 1 .. Len(T) PROVE Beyond(T, x) \in 1 .. Len(T) + 1
    OBVIOUS
  <2>1. Beyond(T, x) \in x + 1 .. Len(T) + 1
    BY BeyondIs
  <2> QED
    BY <1>1, <2>1
<1> HIDE DEF f
<1>5. ASSUME NEW x \in 1 .. Len(T), NEW m \in Nat PROVE f[<< x, m + 1 >>] = f[<< Beyond(T, x), m >>]
  <2>1. m + 1 \in Nat /\ m + 1 # 0 /\ m + 1 - 1 = m /\ ~ (x > Len(T)) /\ x \in 1 .. Len(T) + 1
    BY <1>1
  <2>2. f[<< x, m + 1 >>] = IF m + 1 = 0 \/ x > Len(T) THEN x ELSE f[<< Beyond(T, x), m + 1 - 1 >>]
    BY <1>3, <2>1
  <2> QED
    BY <2>1, <2>2
<1>6. \A x \in 1 .. Len(T) + 1 : f[<< x, 0 >>] = x
  BY <1>1, <1>3
<1>7. 0 \in M
  <2>1. ASSUME NEW x \in 1 .. Len(T) + 1, x <= Len(T) PROVE f[<< x, 0 + 1 >>] = Beyond(T, x)
    <3>1. x \in 1 .. Len(T)
      BY <1>1, <2>1
    <3>2. f[<< x, 0 + 1 >>] = f[<< Beyond(T, x), 0 >>]
      BY <1>1, <1>5, <3>1
    <3> QED
      BY <1>4, <1>6, <3>1, <3>2
  <2>2. Good(0)
    BY <1>6, <2>1
  <2> QED
    BY <2>2
<1>8. ASSUME NEW m \in M, m < n PROVE m + 1 \in M
  <2>1. m \in Nat /\ Good(m) /\ m + 1 \in 0 .. n /\ m + 1 \in Nat
    BY <1>8
  <2>2. ASSUME NEW x \in 1 .. Len(T) + 1
        PROVE  /\ f[<< x, m + 1 >>] \in 1 .. Len(T) + 1
               /\ f[<< x, m + 1 >>] <= Len(T) => f[<< x, m + 1 + 1 >>] = Beyond(T, f[<< x, m + 1 >>])
    <3>1. CASE x > Len(T)
      <4>1. f[<< x, m + 1 >>] = x
        BY <1>3, <2>1, <3>1
      <4>2. ~ (x <= Len(T))
        BY <1>1, <3>1
      <4> QED
        BY <4>1, <4>2
    <3>2. CASE ~ (x > Len(T))
      <4>1. x \in 1 .. Len(T)
        BY <1>2, <3>2
      <4>2. f[<< x, m + 1 >>] = f[<< Beyond(T, x), m >>] /\ f[<< x, m + 1 + 1 >>] = f[<< Beyond(T, x), m + 1 >>]
        BY <1>5, <2>1, <4>1
      <4>3. Beyond(T, x) \in 1 .. Len(T) + 1
        BY <1>4, <4>1
      <4>4. /\ f[<< Beyond(T, x), m >>] \in 1 .. Len(T) + 1
            /\ f[<< Beyond(T, x), m >>] <= Len(T) =>
                 f[<< Beyond(T, x), m + 1 >>] = Beyond(T, f[<< Beyond(T, x), m >>])
        BY <2>1, <4>3
      <4> QED
        BY <4>2, <4>4
    <3> QED
      BY <3>1, <3>2
  <2>3. Good(m + 1)
    BY <2>2
  <2> HIDE DEF Good
  <2> QED
    BY <2>1, <2>3
<1>9. n \in M
  <2> HIDE DEF M
  <2>1. M \in SUBSET (0 .. n)
    BY DEF M
  <2> QED
    BY <1>7, <1>8, <2>1, UpTo
<1>10. Good(n)
  BY <1>9
<1> QED
  BY <1>10 DEF f

LEMMA ElementsAre ==
  ASSUME NEW T \in Seq(Token), AllRight(T), NEW a \in 1 .. Len(T) + 1, NEW n \in Nat
  PROVE  ElementFrom(T)[<< a, n >>] = IF Further(T)[<< a, n >>] > Len(T) THEN 0 ELSE Further(T)[<< a, n >>]
<1> DEFINE f == Further(T)
           g == ElementFrom(T)
           Good(m) == \A x \in 1 .. Len(T) + 1 : g[<< x, m >>] = IF f[<< x, m >>] > Len(T) THEN 0 ELSE f[<< x, m >>]
           M == {m \in 0 .. n : Good(m)}
<1>1. Len(T) \in Nat /\ 0 \in Nat
  OBVIOUS
<1>2. \A x \in 1 .. Len(T) + 1 : x \in Positions /\ (~ (x > Len(T)) => x \in 1 .. Len(T))
  BY <1>1 DEF Positions
<1>3. \A x \in 1 .. Len(T) + 1 : \A m \in Nat :
        f[<< x, m >>] = IF m = 0 \/ x > Len(T) THEN x ELSE f[<< Beyond(T, x), m - 1 >>]
  BY <1>2, FurtherIs
<1>4. \A x \in 1 .. Len(T) + 1 : \A m \in Nat :
        g[<< x, m >>] = IF x > Len(T) THEN 0 ELSE IF m = 0 THEN x ELSE g[<< jstok_skip(T, x), m - 1 >>]
  BY <1>2, ElementIs
<1>5. ASSUME NEW x \in 1 .. Len(T) PROVE Beyond(T, x) \in 1 .. Len(T) + 1 /\ jstok_skip(T, x) = Beyond(T, x)
  <2>1. Beyond(T, x) \in x + 1 .. Len(T) + 1
    BY BeyondIs
  <2>2. Right(T, x)
    BY DEF AllRight
  <2> QED
    BY <1>1, <2>1, <2>2 DEF Right
<1> HIDE DEF f, g
<1>6. 0 \in M
  <2>1. ASSUME NEW x \in 1 .. Len(T) + 1 PROVE g[<< x, 0 >>] = IF f[<< x, 0 >>] > Len(T) THEN 0 ELSE f[<< x, 0 >>]
    <3>1. f[<< x, 0 >>] = x
      BY <1>1, <1>3
    <3>2. g[<< x, 0 >>] = IF x > Len(T) THEN 0 ELSE x
      BY <1>1, <1>4
    <3> QED
      BY <3>1, <3>2
  <2> QED
    BY <2>1
<1>7. ASSUME NEW m \in M, m < n PROVE m + 1 \in M
  <2>1. m \in Nat /\ Good(m) /\ m + 1 \in 0 .. n /\ m + 1 \in Nat /\ m + 1 # 0 /\ m + 1 - 1 = m
    BY <1>7
  <2>2. ASSUME NEW x \in 1 .. Len(T) + 1
        PROVE  g[<< x, m + 1 >>] = IF f[<< x, m + 1 >>] > Len(T) THEN 0 ELSE f[<< x, m + 1 >>]
    <3>1. CASE x > Len(T)
      BY <1>3, <1>4, <2>1, <3>1
    <3>2. CASE ~ (x > Len(T))
      <4>1. x \in 1 .. Len(T)
        BY <1>2, <3>2
      <4>2. Beyond(T, x) \in 1 .. Len(T) + 1 /\ jstok_skip(T, x) = Beyond(T, x)
        BY <1>5, <4>1
      <4>3. g[<< x, m + 1 >>] = g[<< Beyond(T, x), m >>]
        <5>1. g[<< x, m + 1 >>] = g[<< jstok_skip(T, x), m + 1 - 1 >>]
          BY <1>4, <2>1, <3>2
        <5> QED
          BY <2>1, <4>2, <5>1
      <4>4. f[<< x, m + 1 >>] = f[<< Beyond(T, x), m >>]
        <5>1. f[<< x, m + 1 >>] = f[<< Beyond(T, x), m + 1 - 1 >>]
          BY <1>3, <2>1, <3>2
        <5> QED
          BY <2>1, <5>1
      <4>5. g[<< Beyond(T, x), m >>] = IF f[<< Beyond(T, x), m >>] > Len(T) THEN 0 ELSE f[<< Beyond(T, x), m >>]
        BY <2>1, <4>2
      <4> QED
        BY <4>3, <4>4, <4>5
    <3> QED
      BY <3>1, <3>2
  <2>3. Good(m + 1)
    BY <2>2
  <2> HIDE DEF Good
  <2> QED
    BY <2>1, <2>3
<1>8. n \in M
  <2> HIDE DEF M
  <2>1. M \in SUBSET (0 .. n)
    BY DEF M
  <2> QED
    BY <1>6, <1>7, <2>1, UpTo
<1>9. Good(n)
  BY <1>8
<1> QED
  BY <1>9 DEF f, g

(* The parts of a container, and that there are no more.                   *)
LEMMA PartsInside ==
  ASSUME NEW T \in Seq(Token), AllRight(T), NEW i \in 1 .. Len(T), ~IsLeaf(T[i])
  PROVE  /\ Children(T[i]) \in Nat
         /\ \A n \in Nat : n < Children(T[i]) => HasPart(T, i, n) /\ PartAt(T, i, n) \in i + 1 .. Len(T)
         /\ ~HasPart(T, i, Children(T[i]))
<1> DEFINE c == Children(T[i])
           b == Beyond(T, i)
           f == Further(T)
<1>1. Len(T) \in Nat /\ T[i] \in Token
  OBVIOUS
<1>2. c \in Nat
  BY <1>1, ChildrenType
<1>3. /\ b \in i + 1 .. Len(T) + 1
      /\ \A j \in i + 1 .. b - 1 : T[j].start < T[i].end
      /\ b <= Len(T) => T[b].start >= T[i].end
  BY BeyondIs
<1>4. Row(T, i + 1, b, c, KeyTurn(T[i]))
  BY DEF AllRight, Right
<1>5. (\A n \in Nat : n < c => f[<< i + 1, n >>] \in i + 1 .. b - 1) /\ f[<< i + 1, c >>] = b
  BY <1>4 DEF Row
<1>6. \A n : PartAt(T, i, n) = f[<< i + 1, n >>]
  BY DEF PartAt
<1>7. \A n : HasPart(T, i, n) <=> f[<< i + 1, n >>] <= Len(T) /\ T[f[<< i + 1, n >>]].start < T[i].end
  BY <1>6 DEF HasPart
<1> HIDE DEF c, b, f
<1>8. ASSUME NEW n \in Nat, n < c PROVE HasPart(T, i, n) /\ PartAt(T, i, n) \in i + 1 .. Len(T)
  <2> DEFINE p == f[<< i + 1, n >>]
  <2>1. p \in i + 1 .. b - 1
    BY <1>5, <1>8
  <2> HIDE DEF p
  <2>2. p \in i + 1 .. Len(T) /\ p <= Len(T)
    BY <1>1, <1>3, <2>1
  <2>3. T[p].start < T[i].end
    BY <1>3, <2>1
  <2> QED
    BY <1>6, <1>7, <2>2, <2>3 DEF p
<1>9. ~HasPart(T, i, c)
  <2> SUFFICES ASSUME b <= Len(T), T[b].start < T[i].end PROVE FALSE
    BY <1>5, <1>7
  <2>1. b \in 1 .. Len(T)
    BY <1>1, <1>3
  <2>2. T[b] \in Token
    BY <2>1
  <2>3. T[b].start \in Nat /\ T[i].end \in Int
    BY <1>1, <2>2 DEF Token
  <2> QED
    BY <1>3, <2>3
<1> QED
  BY <1>2, <1>8, <1>9 DEF c

LEMMA ArrayFinds ==
  ASSUME NEW T \in Seq(Token), AllRight(T), NEW i \in 1 .. Len(T), NEW n \in 0 .. T[i].size
  PROVE  jstok_array_at(T, i, n) = IF T[i].type = JSTOK_ARRAY /\ HasPart(T, i, n) THEN PartAt(T, i, n) ELSE 0
<1>1. Len(T) \in Nat /\ T[i] \in Token /\ i # 0 /\ i + 1 \in 1 .. Len(T) + 1
  OBVIOUS
<1>2. T[i].size \in Nat
  BY <1>1 DEF Token
<1>3. n \in Nat
  BY <1>2
<1>4. CASE T[i].type # JSTOK_ARRAY
  BY <1>4 DEF jstok_array_at
<1>5. CASE T[i].type = JSTOK_ARRAY
  <2>1. ~IsLeaf(T[i]) /\ Children(T[i]) = T[i].size
    BY <1>5 DEF IsLeaf, Children, JSTOK_OBJECT, JSTOK_ARRAY, JSTOK_STRING, JSTOK_PRIMITIVE
  <2>2. /\ \A m \in Nat : m < T[i].size => HasPart(T, i, m) /\ PartAt(T, i, m) \in i + 1 .. Len(T)
        /\ ~HasPart(T, i, T[i].size)
    BY <2>1, PartsInside
  <2>3. CASE n = T[i].size
    <3>1. n >= T[i].size
      BY <1>2, <2>3
    <3>2. jstok_array_at(T, i, n) = 0
      BY <3>1 DEF jstok_array_at
    <3> QED
      BY <2>2, <2>3, <3>2
  <2>4. CASE n # T[i].size
    <3>1. n < T[i].size /\ ~ (n >= T[i].size)
      BY <1>2, <2>4
    <3>2. HasPart(T, i, n) /\ PartAt(T, i, n) \in i + 1 .. Len(T)
      BY <1>3, <2>2, <3>1
    <3>3. jstok_array_at(T, i, n) = ElementFrom(T)[<< i + 1, n >>]
      BY <1>1, <1>5, <3>1 DEF jstok_array_at
    <3>4. ElementFrom(T)[<< i + 1, n >>] = IF PartAt(T, i, n) > Len(T) THEN 0 ELSE PartAt(T, i, n)
      BY <1>1, <1>3, ElementsAre DEF PartAt
    <3>5. ~ (PartAt(T, i, n) > Len(T))
      BY <1>1, <3>2
    <3> QED
      BY <1>5, <3>2, <3>3, <3>4, <3>5
  <2> QED
    BY <2>3, <2>4
<1> QED
  BY <1>4, <1>5

Keyed(json, T, i, n, key) == jstok_span(json, T[PartAt(T, i, 2 * n)]) = << key >>

(* The keys of an object, their values, and the key behind each of those.  *)
LEMMA PairsInside ==
  ASSUME NEW T \in Seq(Token), AllRight(T), NEW i \in 1 .. Len(T), T[i].type = JSTOK_OBJECT
  PROVE  /\ T[i].size \in Nat
         /\ \A n \in Nat : n < T[i].size =>
              LET k == PartAt(T, i, 2 * n)
              IN /\ k \in 1 .. Len(T) /\ k + 1 \in 1 .. Len(T) /\ T[k].type = JSTOK_STRING
                 /\ HasPart(T, i, 2 * n)
                 /\ PartAt(T, i, 2 * n + 1) = k + 1
                 /\ PartAt(T, i, 2 * (n + 1)) = jstok_skip(T, k + 1)
         /\ ~HasPart(T, i, 2 * T[i].size)
<1>1. Len(T) \in Nat /\ T[i] \in Token /\ i + 1 \in 1 .. Len(T) + 1
  OBVIOUS
<1>2. T[i].size \in Nat
  BY <1>1 DEF Token
<1>3. ~IsLeaf(T[i]) /\ Children(T[i]) = 2 * T[i].size /\ KeyTurn(T[i]) = 0
  BY DEF IsLeaf, Children, KeyTurn, JSTOK_OBJECT, JSTOK_ARRAY, JSTOK_STRING, JSTOK_PRIMITIVE
<1>4. /\ \A m \in Nat : m < 2 * T[i].size => HasPart(T, i, m) /\ PartAt(T, i, m) \in i + 1 .. Len(T)
      /\ ~HasPart(T, i, 2 * T[i].size)
  BY <1>3, PartsInside
<1>5. \A k \in Nat : 2 * k + 0 < 2 * T[i].size => T[PartAt(T, i, 2 * k + 0)].type = JSTOK_STRING
  <2>1. Row(T, i + 1, Beyond(T, i), 2 * T[i].size, 0)
    BY <1>3 DEF AllRight, Right
  <2>2. 0 # 2
    OBVIOUS
  <2> QED
    BY <2>1, <2>2 DEF Row, PartAt
<1>6. \A m \in Nat : m < 2 * T[i].size => PartAt(T, i, m + 1) = Beyond(T, PartAt(T, i, m))
  <2> SUFFICES ASSUME NEW m \in Nat, m < 2 * T[i].size PROVE PartAt(T, i, m + 1) = Beyond(T, PartAt(T, i, m))
    OBVIOUS
  <2>1. PartAt(T, i, m) \in i + 1 .. Len(T)
    BY <1>4
  <2>2. PartAt(T, i, m) <= Len(T)
    BY <1>1, <2>1
  <2> QED
    BY <1>1, <2>2, PartsOn DEF PartAt
<1>7. ASSUME NEW n \in Nat, n < T[i].size
      PROVE  LET k == PartAt(T, i, 2 * n)
             IN /\ k \in 1 .. Len(T) /\ k + 1 \in 1 .. Len(T) /\ T[k].type = JSTOK_STRING
                /\ HasPart(T, i, 2 * n)
                /\ PartAt(T, i, 2 * n + 1) = k + 1
                /\ PartAt(T, i, 2 * (n + 1)) = jstok_skip(T, k + 1)
  <2> DEFINE k == PartAt(T, i, 2 * n)
  <2>1. /\ 2 * n \in Nat /\ 2 * n < 2 * T[i].size /\ 2 * n + 0 = 2 * n
        /\ 2 * n + 1 \in Nat /\ 2 * n + 1 < 2 * T[i].size /\ 2 * n + 1 + 1 = 2 * (n + 1)
    BY <1>2, <1>7
  <2>2. k \in i + 1 .. Len(T) /\ HasPart(T, i, 2 * n) /\ PartAt(T, i, 2 * n + 1) \in i + 1 .. Len(T)
    BY <1>4, <2>1
  <2>3. T[k].type = JSTOK_STRING
    <3>1. T[PartAt(T, i, 2 * n + 0)].type = JSTOK_STRING
      BY <1>5, <2>1
    <3> QED
      BY <2>1, <3>1
  <2>4. PartAt(T, i, 2 * n + 1) = Beyond(T, k)
    BY <1>6, <2>1
  <2>5. PartAt(T, i, 2 * n + 1 + 1) = Beyond(T, PartAt(T, i, 2 * n + 1))
    BY <1>6, <2>1
  <2> HIDE DEF k
  <2>6. k \in 1 .. Len(T)
    BY <1>1, <2>2
  <2>7. Beyond(T, k) = k + 1
    <3>1. Right(T, k)
      BY <2>6 DEF AllRight
    <3>2. IsLeaf(T[k]) /\ ~ (k > Len(T))
      BY <1>1, <2>3, <2>6 DEF IsLeaf
    <3>3. jstok_skip(T, k) = k + 1
      BY <3>2 DEF jstok_skip
    <3> QED
      BY <3>1, <3>3 DEF Right
  <2>8. k + 1 \in 1 .. Len(T)
    BY <1>1, <2>2, <2>4, <2>6, <2>7
  <2>9. Beyond(T, k + 1) = jstok_skip(T, k + 1)
    BY <2>8 DEF AllRight, Right
  <2>10. PartAt(T, i, 2 * n + 1) = k + 1
    BY <2>4, <2>7
  <2>11. PartAt(T, i, 2 * (n + 1)) = jstok_skip(T, k + 1)
    BY <2>1, <2>5, <2>9, <2>10
  <2> QED
    BY <2>2, <2>3, <2>6, <2>8, <2>10, <2>11 DEF k
<1> QED
  BY <1>2, <1>4, <1>7

(* What is found from the n-th pair on.                                    *)
FoundFrom(json, T, i, key, n, v) ==
  \/ v = 0 /\ \A k \in n .. T[i].size - 1 : ~Keyed(json, T, i, k, key)
  \/ \E k \in n .. T[i].size - 1 :
       /\ Keyed(json, T, i, k, key) /\ v = PartAt(T, i, 2 * k + 1)
       /\ \A l \in n .. k - 1 : ~Keyed(json, T, i, l, key)

LEMMA MembersFound ==
  ASSUME NEW json, NEW key, NEW T \in Seq(Token), AllRight(T), NEW i \in 1 .. Len(T), T[i].type = JSTOK_OBJECT
  PROVE  FoundFrom(json, T, i, key, 0, MemberFrom(json, T, key)[<< i + 1, T[i].size >>])
<1> DEFINE N == T[i].size
           g == MemberFrom(json, T, key)
           p(n) == PartAt(T, i, 2 * n)
           Good(n) == FoundFrom(json, T, i, key, n, g[<< p(n), N - n >>])
           M == {m \in 0 .. N : Good(N - m)}
<1>1. /\ N \in Nat
      /\ \A n \in Nat : n < N =>
           /\ p(n) \in 1 .. Len(T) /\ p(n) + 1 \in 1 .. Len(T) /\ T[p(n)].type = JSTOK_STRING
           /\ PartAt(T, i, 2 * n + 1) = p(n) + 1
           /\ p(n + 1) = jstok_skip(T, p(n) + 1)
  BY PairsInside
<1>2. Len(T) \in Nat /\ i + 1 \in 1 .. Len(T) + 1
  OBVIOUS
<1>3. \A n \in Nat : p(n) \in Positions
  <2> SUFFICES ASSUME NEW n \in Nat PROVE p(n) \in Positions
    OBVIOUS
  <2>1. 2 * n \in Nat
    OBVIOUS
  <2>2. p(n) \in 1 .. Len(T) + 1
    BY <1>2, <2>1, PartsOn DEF PartAt
  <2> QED
    BY <1>2, <2>2 DEF Positions
<1>4. \A k \in Positions : \A m \in Nat :
        g[<< k, m >>] = MemberStep(g, json, T, key, k, m)
  BY MemberIs
<1>5. \A n \in Nat : jstok_eq(json, T[p(n)], key) <=> Keyed(json, T, i, n, key)
  BY DEF jstok_eq, Keyed
<1>6. p(0) = i + 1
  <2>1. 2 * 0 = 0 /\ i + 1 \in Positions /\ 0 \in Nat
    BY <1>2 DEF Positions
  <2>2. Further(T)[<< i + 1, 0 >>] = i + 1
    BY <2>1, FurtherIs
  <2> QED
    BY <2>1, <2>2 DEF PartAt
<1> HIDE DEF g, p, N
<1>7. 0 \in M
  <2>1. N - 0 = N /\ N - N = 0 /\ 0 \in 0 .. N /\ N .. N - 1 = {} /\ 0 \in Nat
    BY <1>1
  <2>2. g[<< p(N), 0 >>] = 0
    BY <1>1, <1>3, <1>4, <2>1 DEF MemberStep
  <2>3. FoundFrom(json, T, i, key, N, 0)
    BY <2>1 DEF FoundFrom, N
  <2>4. Good(N)
    BY <2>1, <2>2, <2>3
  <2> HIDE DEF Good
  <2> QED
    BY <2>1, <2>4
<1>8. ASSUME NEW m \in M, m < N PROVE m + 1 \in M
  <2> DEFINE n == N - (m + 1)
             k == p(n)
  <2>1. m \in Nat /\ m + 1 \in 0 .. N /\ n \in Nat /\ n < N /\ n + 1 = N - m /\ N - n = m + 1 /\ N - (n + 1) = m
        /\ m + 1 # 0 /\ m + 1 \in Nat /\ m + 1 - 1 = m
    BY <1>1, <1>8
  <2>2. Good(N - m)
    OBVIOUS
  <2> HIDE DEF n
  <2>3. FoundFrom(json, T, i, key, n + 1, g[<< p(n + 1), m >>])
    BY <2>1, <2>2
  <2>4. /\ k \in 1 .. Len(T) /\ k + 1 \in 1 .. Len(T) /\ T[k].type = JSTOK_STRING
        /\ PartAt(T, i, 2 * n + 1) = k + 1
        /\ p(n + 1) = jstok_skip(T, k + 1)
        /\ k \in Positions
    BY <1>1, <1>3, <2>1
  <2>5. jstok_eq(json, T[k], key) <=> Keyed(json, T, i, n, key)
    BY <1>5, <2>1
  <2> HIDE DEF k
  <2>6. g[<< k, m + 1 >>] = IF jstok_eq(json, T[k], key) THEN k + 1 ELSE g[<< p(n + 1), m >>]
    <3>1. ~ (k + 1 > Len(T))
      BY <1>2, <2>4
    <3>2. g[<< k, m + 1 >>] = IF m + 1 = 0 \/ k + 1 > Len(T) THEN 0
                              ELSE IF T[k].type = JSTOK_STRING /\ jstok_eq(json, T[k], key) THEN k + 1
                              ELSE g[<< jstok_skip(T, k + 1), m + 1 - 1 >>]
      BY <1>4, <2>1, <2>4 DEF MemberStep
    <3> QED
      BY <2>1, <2>4, <3>1, <3>2
  <2>7. FoundFrom(json, T, i, key, n, g[<< k, m + 1 >>])
    <3>1. CASE Keyed(json, T, i, n, key)
      <4>1. g[<< k, m + 1 >>] = PartAt(T, i, 2 * n + 1)
        BY <2>4, <2>5, <2>6, <3>1
      <4>2. n \in n .. N - 1 /\ n .. n - 1 = {}
        BY <1>1, <2>1
      <4> QED
        BY <3>1, <4>1, <4>2 DEF FoundFrom, N
    <3>2. CASE ~Keyed(json, T, i, n, key)
      <4> DEFINE v == g[<< p(n + 1), m >>]
      <4>1. g[<< k, m + 1 >>] = v /\ FoundFrom(json, T, i, key, n + 1, v)
        BY <2>3, <2>5, <2>6, <3>2
      <4> HIDE DEF v
      <4>2. \A x : \A l \in n .. x : l = n \/ l \in n + 1 .. x
        BY <2>1
      <4>3. CASE v = 0 /\ \A x \in n + 1 .. N - 1 : ~Keyed(json, T, i, x, key)
        <5>1. \A x \in n .. N - 1 : ~Keyed(json, T, i, x, key)
          BY <3>2, <4>2, <4>3
        <5> QED
          BY <4>1, <4>3, <5>1 DEF FoundFrom, N
      <4>4. CASE \E x \in n + 1 .. N - 1 : /\ Keyed(json, T, i, x, key) /\ v = PartAt(T, i, 2 * x + 1)
                                           /\ \A l \in n + 1 .. x - 1 : ~Keyed(json, T, i, l, key)
        <5>1. PICK x \in n + 1 .. N - 1 : /\ Keyed(json, T, i, x, key) /\ v = PartAt(T, i, 2 * x + 1)
                                          /\ \A l \in n + 1 .. x - 1 : ~Keyed(json, T, i, l, key)
          BY <4>4
        <5>2. x \in n .. N - 1
          BY <1>1, <2>1
        <5>3. \A l \in n .. x - 1 : ~Keyed(json, T, i, l, key)
          BY <3>2, <4>2, <5>1
        <5> QED
          BY <4>1, <5>1, <5>2, <5>3 DEF FoundFrom, N
      <4> QED
        BY <4>1, <4>3, <4>4 DEF FoundFrom, N
    <3> QED
      BY <3>1, <3>2
  <2>8. Good(n)
    BY <2>1, <2>7 DEF k
  <2> HIDE DEF Good
  <2>9. m + 1 \in M
    BY <2>1, <2>8 DEF n
  <2> QED
    BY <2>9
<1>9. N \in M
  <2> HIDE DEF M
  <2>1. M \in SUBSET (0 .. N)
    BY DEF M
  <2> QED
    BY <1>1, <1>7, <1>8, <2>1, UpTo
<1>10. N - N = 0 /\ N - 0 = N
  BY <1>1
<1>11. Good(0)
  BY <1>9, <1>10
<1> QED
  BY <1>6, <1>10, <1>11 DEF g, N

ObjectOf(json, T, i, key) ==
  LET Named == {n \in 0 .. T[i].size : HasPart(T, i, 2 * n)
                                       /\ jstok_span(json, T[PartAt(T, i, 2 * n)]) = << key >>}
  IN jstok_object_get(json, T, i, key) =
       IF T[i].type # JSTOK_OBJECT \/ Named = {} THEN 0
       ELSE PartAt(T, i, 2 * (CHOOSE n \in Named : \A m \in Named : n <= m) + 1)

LEMMA ObjectFinds ==
  ASSUME NEW json, NEW key, NEW T \in Seq(Token), AllRight(T), NEW i \in 1 .. Len(T)
  PROVE  ObjectOf(json, T, i, key)
<1> DEFINE Named == {n \in 0 .. T[i].size : HasPart(T, i, 2 * n) /\ Keyed(json, T, i, n, key)}
           v == jstok_object_get(json, T, i, key)
           first == CHOOSE n \in Named : \A m \in Named : n <= m
<1> SUFFICES v = IF T[i].type # JSTOK_OBJECT \/ Named = {} THEN 0 ELSE PartAt(T, i, 2 * first + 1)
  BY DEF Keyed, ObjectOf
<1>1. CASE T[i].type # JSTOK_OBJECT
  BY <1>1 DEF jstok_object_get
<1>2. CASE T[i].type = JSTOK_OBJECT
  <2>1. v = MemberFrom(json, T, key)[<< i + 1, T[i].size >>]
    BY <1>2 DEF jstok_object_get
  <2> HIDE DEF v
  <2>2. FoundFrom(json, T, i, key, 0, v)
    BY <1>2, <2>1, MembersFound
  <2>3. /\ T[i].size \in Nat
        /\ \A n \in Nat : n < T[i].size => HasPart(T, i, 2 * n)
        /\ ~HasPart(T, i, 2 * T[i].size)
    BY <1>2, PairsInside
  <2>4. Named = {n \in 0 .. T[i].size - 1 : Keyed(json, T, i, n, key)}
    <3>1. \A n \in 0 .. T[i].size : n \in 0 .. T[i].size - 1 \/ n = T[i].size
      BY <2>3
    <3>2. \A n \in 0 .. T[i].size - 1 : n \in 0 .. T[i].size /\ n \in Nat /\ n < T[i].size
      BY <2>3
    <3>3. \A n \in 0 .. T[i].size : HasPart(T, i, 2 * n) <=> n \in 0 .. T[i].size - 1
      BY <2>3, <3>1, <3>2
    <3> QED
      BY <3>2, <3>3
  <2> HIDE DEF Named
  <2>5. CASE v = 0 /\ \A k \in 0 .. T[i].size - 1 : ~Keyed(json, T, i, k, key)
    <3>1. Named = {}
      BY <2>4, <2>5
    <3> QED
      BY <2>5, <3>1
  <2>6. CASE \E k \in 0 .. T[i].size - 1 :
               /\ Keyed(json, T, i, k, key) /\ v = PartAt(T, i, 2 * k + 1)
               /\ \A l \in 0 .. k - 1 : ~Keyed(json, T, i, l, key)
    <3>1. PICK k \in 0 .. T[i].size - 1 :
            /\ Keyed(json, T, i, k, key) /\ v = PartAt(T, i, 2 * k + 1)
            /\ \A l \in 0 .. k - 1 : ~Keyed(json, T, i, l, key)
      BY <2>6
    <3>2. k \in Named /\ Named \in SUBSET Nat
      BY <2>3, <2>4, <3>1
    <3>3. \A m \in Named : k <= m
      <4> SUFFICES ASSUME NEW m \in Named, ~ (k <= m) PROVE FALSE
        OBVIOUS
      <4>1. m \in 0 .. T[i].size - 1 /\ Keyed(json, T, i, m, key)
        BY <2>4
      <4>2. m \in 0 .. k - 1
        BY <2>3, <4>1
      <4> QED
        BY <3>1, <4>1, <4>2
    <3>4. first \in Named /\ \A m \in Named : first <= m
      BY <3>2, <3>3
    <3> HIDE DEF first
    <3>5. first <= k /\ k <= first /\ first \in Nat /\ k \in Nat
      BY <3>2, <3>3, <3>4
    <3>6. first = k
      BY <3>5
    <3> QED
      BY <1>2, <3>1, <3>2, <3>6
  <2> QED
    BY <2>2, <2>5, <2>6 DEF FoundFrom
<1> QED
  BY <1>1, <1>2

(* In the tokens of every text that was read, of any length and any shape, *)
(* jstok_skip goes to the first token behind, jstok_array_at finds every   *)
(* element, and jstok_object_get finds the value of the first member of    *)
(* its name: a container that was read nests no deeper than the levels     *)
(* jstok_skip keeps, so it never gives up on one, and the size of a        *)
(* container counts all that is in it.                                     *)
THEOREM MembersAreFound == Spec => []ReadersFindTheMembers
<1>1. ASSUME Inv, TokensAreTheTexts PROVE ReadersFindTheMembers
  <2> SUFFICES ASSUME rc >= 0, room # CountOnly PROVE ReadersFindTheMembers
    BY DEF ReadersFindTheMembers
  <2>1. Shown \in Seq(STRING)
    BY <1>1, ShownPart DEF Inv, TypeOK
  <2>2. rc # Running
    BY DEF Running
  <2>3. /\ ReadingOf(Shown).end # 0 /\ ReadingOf(Shown).depth <= MaxDepth
        /\ tokens = ReadingOf(Shown).tokens
    BY <1>1, <2>2 DEF TokensAreTheTexts
  <2>4. tokens \in Seq(Token) /\ AllRight(tokens)
    BY <2>1, <2>3, ReadingIsRight DEF AllRight
  <2>5. DOMAIN tokens = 1 .. Len(tokens)
    BY <2>4
  <2>6. \A i \in DOMAIN tokens : jstok_skip(tokens, i) = Beyond(tokens, i)
    BY <2>4, <2>5 DEF AllRight, Right
  <2>7. \A i \in DOMAIN tokens : \A n \in 0 .. tokens[i].size :
          jstok_array_at(tokens, i, n) =
            IF tokens[i].type = JSTOK_ARRAY /\ HasPart(tokens, i, n) THEN PartAt(tokens, i, n) ELSE 0
    BY <2>4, <2>5, ArrayFinds
  <2>8. \A i \in DOMAIN tokens : \A key \in Keys : ObjectOf(text, tokens, i, key)
    BY <2>4, <2>5, ObjectFinds
  <2>9. ASSUME NEW i \in DOMAIN tokens
        PROVE  /\ ~IsLeaf(tokens[i]) =>
                    \A n \in 0 .. Children(tokens[i]) : HasPart(tokens, i, n) <=> n < Children(tokens[i])
               /\ tokens[i].type = JSTOK_OBJECT =>
                    \A n \in 0 .. tokens[i].size - 1 : tokens[PartAt(tokens, i, 2 * n)].type = JSTOK_STRING
    <3>1. i \in 1 .. Len(tokens)
      BY <2>5
    <3>2. ASSUME ~IsLeaf(tokens[i]), NEW n \in 0 .. Children(tokens[i])
          PROVE  HasPart(tokens, i, n) <=> n < Children(tokens[i])
      <4>1. /\ Children(tokens[i]) \in Nat
            /\ \A m \in Nat : m < Children(tokens[i]) => HasPart(tokens, i, m)
            /\ ~HasPart(tokens, i, Children(tokens[i]))
        BY <2>4, <3>1, <3>2, PartsInside
      <4>2. n \in Nat /\ (n < Children(tokens[i]) \/ n = Children(tokens[i]))
        BY <4>1
      <4>3. ~ (Children(tokens[i]) < Children(tokens[i]))
        BY <4>1
      <4> QED
        BY <4>1, <4>2, <4>3
    <3>3. ASSUME tokens[i].type = JSTOK_OBJECT, NEW n \in 0 .. tokens[i].size - 1
          PROVE  tokens[PartAt(tokens, i, 2 * n)].type = JSTOK_STRING
      <4>1. /\ tokens[i].size \in Nat
            /\ \A m \in Nat : m < tokens[i].size => tokens[PartAt(tokens, i, 2 * m)].type = JSTOK_STRING
        BY <2>4, <3>1, <3>3, PairsInside
      <4>2. n \in Nat /\ n < tokens[i].size
        BY <4>1
      <4> QED
        BY <4>1, <4>2
    <3> QED
      BY <3>2, <3>3
  <2> QED
    BY <2>6, <2>7, <2>8, <2>9 DEF ReadersFindTheMembers, ObjectOf, Children
<1> QED
  BY <1>1, Invariant, TokensAreRight, PTL

=============================================================================
