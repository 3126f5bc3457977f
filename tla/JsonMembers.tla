---------------------------- MODULE JsonMembers -----------------------------
(***************************************************************************)
(* What the helpers of include/jstok.h that count tokens promise, said of  *)
(* the stretches of the text and not of the sizes of the tokens: what lies *)
(* inside a container is what begins before it ends, and the next value is *)
(* the first that begins behind this one.                                  *)
(***************************************************************************)
EXTENDS JsonReaders

CONSTANT
  Keys          \* bound of the model: the keys the helpers are asked for

(* The first token that begins behind token i, or one more than there are. *)
Beyond(toks, i) ==
  LET places == {j \in i + 1 .. Len(toks) : toks[j].start >= toks[i].end} \cup {Len(toks) + 1}
  IN CHOOSE j \in places : \A k \in places : j <= k

(* The token n values further on.                                          *)
Further(toks) ==
  LET Nth[at \in (Nat \ {0}) \X Nat] ==
        IF at[2] = 0 \/ at[1] > Len(toks) THEN at[1]
        ELSE Nth[<< Beyond(toks, at[1]), at[2] - 1 >>]
  IN Nth

(* The parts of a container are what is next to one another behind its     *)
(* token: elements, or keys and values by turns.  They count from 0.       *)
PartAt(toks, i, n) == Further(toks)[<< i + 1, n >>]
HasPart(toks, i, n) ==
  PartAt(toks, i, n) <= Len(toks) /\ toks[PartAt(toks, i, n)].start < toks[i].end

-----------------------------------------------------------------------------
(* In the tokens of every text that was read the helpers find what the     *)
(* text has: skipping a token leads to the first one behind it, a          *)
(* container has as many parts as its size says, the names among them      *)
(* strings, a number leads to that element of an array, and a key to the   *)
(* value of the first member it names; what is not there is not found,     *)
(* however deep the containers before it nest (jstok_skip, jstok_array_at, *)
(* jstok_object_get).                                                      *)
ReadersFindTheMembers ==
  (rc >= 0 /\ room # CountOnly) =>
    \A i \in DOMAIN tokens :
      LET t == tokens[i]
          parts == IF t.type = JSTOK_OBJECT THEN 2 * t.size ELSE t.size
          Place(n) == PartAt(tokens, i, n)
          Named(key) == {n \in 0 .. t.size : HasPart(tokens, i, 2 * n)
                                             /\ jstok_span(text, tokens[Place(2 * n)]) = << key >>}
      IN /\ jstok_skip(tokens, i) = Beyond(tokens, i)
         /\ ~IsLeaf(t) => \A n \in 0 .. parts : HasPart(tokens, i, n) <=> n < parts
         /\ t.type = JSTOK_OBJECT =>
              \A n \in 0 .. t.size - 1 : tokens[Place(2 * n)].type = JSTOK_STRING
         /\ \A n \in 0 .. t.size :
              jstok_array_at(tokens, i, n) =
                IF t.type = JSTOK_ARRAY /\ HasPart(tokens, i, n) THEN Place(n) ELSE 0
         /\ \A key \in Keys :
              jstok_object_get(text, tokens, i, key) =
                IF t.type # JSTOK_OBJECT \/ Named(key) = {} THEN 0
                ELSE Place(2 * (CHOOSE n \in Named(key) : \A m \in Named(key) : n <= m) + 1)

=============================================================================
