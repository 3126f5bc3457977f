------------------------------ MODULE MCSseCuts ------------------------------
(***************************************************************************)
(* Model checking the event stream parser without limits: one behaviour    *)
(* uses one alphabet, the pieces of lines, whole lines, or the bytes of    *)
(* characters.                                                             *)
(***************************************************************************)
EXTENDS MCSseParser

CONSTANTS
  LinesFeedBound, \* bounds of the model: the chunks of whole lines
  Utf8FeedBound   \* and the chunks of single bytes

VARIABLE alphabet

CutChunks == FramingChunks \cup EventChunks \cup Utf8Chunks

CutInit == Init /\ alphabet \in {"framing", "lines", "utf8"}

FeedFrom(name, chunks, bound) ==
  /\ alphabet = name
  /\ \E chunk \in chunks : Feed(chunk)
  /\ feeds' <= bound

CutNext ==
  /\ \/ Process
     \/ FeedFrom("framing", FramingChunks, FeedBound)
     \/ FeedFrom("lines", EventChunks, LinesFeedBound)
     \/ FeedFrom("utf8", Utf8Chunks, Utf8FeedBound)
  /\ UNCHANGED alphabet

CutSpec == CutInit /\ [][CutNext]_<< vars, alphabet >>
=============================================================================
