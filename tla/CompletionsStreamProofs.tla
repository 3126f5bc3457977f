------------------------ MODULE CompletionsStreamProofs ------------------------
(***************************************************************************)
(* The completions stream has its types and implements StreamCall, for     *)
(* every set of events and every number of frames.                         *)
(***************************************************************************)
EXTENDS CompletionsStream, TLAPS

Callback == [call : Parts, index : {-1}, args : {<< >>}]

(* Where the call is, and what it can have met on its way there.           *)
Located ==
  /\ at # "returned" => outcome = Pending
  /\ at \in {"setup", "transfer", "feed"} =>
       cause = "none" /\ error = "NONE" /\ sseError = "OK"

(* What ended the call, told from the flags.  An abort that only an empty  *)
(* body has met ends nothing, though it is left in the error.              *)
Account(c) ==
  CASE c = "none"  -> transfer.ok
    [] c = "abort" -> error = "CANCELLED" /\ ~transfer.ok /\ ~transfer.httpError
    [] c = "sse"   -> /\ error = "FAILED" /\ sseError = "OVERFLOW"
                      /\ ~transfer.ok /\ ~transfer.httpError
    [] OTHER ->
         /\ c \in {"transport", "tls", "init"}
         /\ error = "NONE" /\ sseError = "OK" /\ ~transfer.ok /\ ~transfer.httpError
         /\ c = "transport" => ~transfer.tls
         /\ c = "tls" => transfer.tls

Accounted == at = "verdict" => Account(cause)

Inv == TypeOK /\ calls \in Seq(Callback) /\ Located /\ Accounted

-----------------------------------------------------------------------------
LEMMA TextCallsType ==
  ASSUME NEW e
  PROVE  TextCalls(e) \in Seq(Callback)
<1> DEFINE Part(p) == IF p \in e.parts /\ (p = "usage" => IncludeUsage)
                      THEN << Call(p) >>
                      ELSE << >>
<1>1. ASSUME NEW p \in Parts PROVE Part(p) \in Seq(Callback)
  <2>1. Call(p) \in Callback
    BY DEF Call, Callback
  <2> QED
    BY <2>1
<1>2. Part("content") \in Seq(Callback) /\ Part("usage") \in Seq(Callback)
        /\ Part("finish") \in Seq(Callback)
  BY <1>1 DEF Parts
<1>3. TextCalls(e) = Part("content") \o Part("usage") \o Part("finish")
  BY DEF TextCalls
<1> HIDE DEF Part
<1> QED
  BY <1>2, <1>3

LEMMA InitInv == Init => Inv /\ Promise!Init
<1> SUFFICES ASSUME Init PROVE Inv /\ Promise!Init
  OBVIOUS
<1>1. TypeOK
  <2>1. transfer \in [ok : BOOLEAN, tls : BOOLEAN, httpError : BOOLEAN]
    BY DEF Init, NoTransfer, Broken
  <2>2. 0 \in 0 .. FrameBound
    BY CompletionsAssumption
  <2> QED
    BY <2>1, <2>2 DEF Init, TypeOK
<1>2. calls \in Seq(Callback) /\ Located /\ Accounted
  BY DEF Init, Located, Accounted
<1>3. Promise!Init
  BY DEF Init, Pending, Outcome, Promise!Init, Promise!Pending, Promise!Outcome
<1> QED
  BY <1>1, <1>2, <1>3 DEF Inv

(* What the code keeps.                                                    *)
LEMMA StepInv ==
  ASSUME Inv, Next
  PROVE  Inv'
<1>t. NoTransfer \in [ok : BOOLEAN, tls : BOOLEAN, httpError : BOOLEAN]
  BY DEF NoTransfer, Broken
<1> USE CompletionsAssumption
    DEF Inv, TypeOK, Located, Accounted, Account, errors, ending,
        FirstCause, SetError, Cancel, StopTransfer, NoTransfer, Broken, Ended
<1>1. CASE SetupFails
  BY <1>1 DEF SetupFails
<1>2. CASE NoHandle
  BY <1>2 DEF NoHandle
<1>3. CASE Perform \/ RequestAbort
  BY <1>3 DEF Perform, RequestAbort
<1>4. CASE ChunkArrives
  <2>1. /\ at \in {"transfer", "feed"} /\ received' \in BOOLEAN
        /\ UNCHANGED << wantAbort, done, sseError, outcome, frames, calls >>
    BY <1>4 DEF ChunkArrives
  <2>2. \/ /\ error' = "CANCELLED" /\ cause' = "abort"
           /\ at' = "verdict" /\ transfer' = NoTransfer
        \/ at' \in {"transfer", "feed"} /\ UNCHANGED << error, transfer, cause >>
    BY <1>4 DEF ChunkArrives
  <2>3. TypeOK'
    <3>1. transfer' \in [ok : BOOLEAN, tls : BOOLEAN, httpError : BOOLEAN]
      <4>1. CASE transfer' = NoTransfer
        BY <4>1, <1>t, Zenon
      <4>2. CASE UNCHANGED transfer
        BY <4>2, Zenon
      <4> QED
        BY <2>2, <4>1, <4>2, Zenon
    <3>2. at' \in {"setup", "transfer", "feed", "verdict", "returned"}
          /\ error' \in {"NONE", "FAILED", "CANCELLED"}
      BY <2>2
    <3> QED
      BY <2>1, <3>1, <3>2
  <2>4. Located' /\ Accounted'
    BY <2>1, <2>2
  <2> QED
    BY <2>1, <2>3, <2>4
<1>5. CASE ChunkEnds
  <2>1. /\ at \in {"transfer", "feed"} /\ received' \in BOOLEAN
        /\ UNCHANGED << wantAbort, done, sseError, outcome, frames, calls >>
    BY <1>5 DEF ChunkEnds
  <2>2. \/ /\ error' = "CANCELLED" /\ cause' = "abort"
           /\ at' = "verdict" /\ transfer' = NoTransfer
        \/ at' \in {"transfer", "feed"} /\ UNCHANGED << error, transfer, cause >>
    BY <1>5 DEF ChunkEnds
  <2>3. TypeOK'
    <3>1. transfer' \in [ok : BOOLEAN, tls : BOOLEAN, httpError : BOOLEAN]
      <4>1. CASE transfer' = NoTransfer
        BY <4>1, <1>t, Zenon
      <4>2. CASE UNCHANGED transfer
        BY <4>2, Zenon
      <4> QED
        BY <2>2, <4>1, <4>2, Zenon
    <3>2. at' \in {"setup", "transfer", "feed", "verdict", "returned"}
          /\ error' \in {"NONE", "FAILED", "CANCELLED"}
      BY <2>2
    <3> QED
      BY <2>1, <3>1, <3>2
  <2>4. Located' /\ Accounted'
    BY <2>1, <2>2
  <2> QED
    BY <2>1, <2>3, <2>4
<1>6. CASE FeedFails
  BY <1>6 DEF FeedFails
<1>7. CASE FrameAborted
  BY <1>7 DEF FrameAborted
<1>8. CASE EmptyBody
  BY <1>8 DEF EmptyBody
<1>9. CASE TransferFails
  BY <1>9 DEF TransferFails
<1>10. CASE TransferEnds
  BY <1>10 DEF TransferEnds
<1>11. ASSUME NEW e \in Events, HandleEvent(e) PROVE Inv'
  <2>1. (done \/ e.kind = "done") \in BOOLEAN
    OBVIOUS
  <2>2. calls' \in Seq(Callback)
    BY <1>11, TextCallsType DEF HandleEvent
  <2> QED
    BY <1>11, <2>1, <2>2 DEF HandleEvent
<1>12. CASE Return
  BY <1>12 DEF Return
<1> QED
  BY <1>1, <1>2, <1>3, <1>4, <1>5, <1>6, <1>7, <1>8, <1>9, <1>10, <1>11, <1>12 DEF Next

-----------------------------------------------------------------------------
(* Every step is one of StreamCall's, or none that a user could tell.      *)
LEMMA StepKeepsPromise ==
  ASSUME Inv, Next
  PROVE  [Promise!Next]_(Promise!vars)
<1>0. /\ calls \in Seq(Callback) /\ Located /\ Accounted /\ TypeOK
  BY DEF Inv
<1>s. UNCHANGED << calls, done, cause, outcome >> => UNCHANGED Promise!vars
  BY DEF Promise!vars
<1>f. Promise!Fail \/ Promise!Report \/ Promise!Done \/ Promise!Return => Promise!Next
  BY DEF Promise!Next
<1>p. at # "returned" => outcome = Promise!Pending
  BY <1>0 DEF Located, Pending, Outcome, Promise!Pending, Promise!Outcome
<1>1. CASE SetupFails
  <2>1. /\ at = "setup" /\ cause = "none" /\ cause' = "setup"
        /\ outcome' = Promise!Outcome("FAILED", "PROTOCOL")
        /\ UNCHANGED << calls, done >>
    BY <1>0, <1>1 DEF SetupFails, FirstCause, Located, Outcome, Promise!Outcome
  <2>2. Promise!Return
    BY <1>p, <2>1 DEF Promise!Return, Promise!Outcomes
  <2> QED
    BY <1>f, <2>2
<1>2. CASE NoHandle \/ ChunkArrives \/ ChunkEnds \/ FeedFails \/ FrameAborted \/ TransferFails
  <2>1. /\ at \in {"setup", "transfer", "feed"} /\ cause = "none"
        /\ UNCHANGED << calls, done, outcome >>
    BY <1>0, <1>2 DEF NoHandle, ChunkArrives, ChunkEnds, FeedFails, FrameAborted,
                      TransferFails, ending, Cancel, StopTransfer, Located
  <2>2. cause' = cause \/ cause' \in Promise!Failures
    <3>1. CASE NoHandle \/ FeedFails \/ FrameAborted
      BY <2>1, <3>1 DEF NoHandle, FeedFails, FrameAborted, Cancel, FirstCause,
                        Promise!Failures
    <3>2. CASE TransferFails
      BY <2>1, <3>2 DEF TransferFails, FirstCause, Promise!Failures
    <3>3. CASE ChunkArrives \/ ChunkEnds
      BY <2>1, <3>3 DEF ChunkArrives, ChunkEnds, Cancel, FirstCause, Promise!Failures
    <3> QED
      BY <1>2, <3>1, <3>2, <3>3
  <2>3. UNCHANGED << calls, done, cause, outcome >> \/ Promise!Fail
    BY <1>p, <2>1, <2>2 DEF Promise!Fail
  <2> QED
    BY <1>s, <1>f, <2>3
<1>3. CASE Perform \/ RequestAbort \/ EmptyBody \/ TransferEnds
  BY <1>s, <1>3 DEF Perform, RequestAbort, EmptyBody, TransferEnds, ending
<1>4. ASSUME NEW e \in Events, HandleEvent(e)
      PROVE  [Promise!Next]_(Promise!vars)
  <2>1. /\ at = "feed" /\ cause = "none"
        /\ done' = (done \/ e.kind = "done")
        /\ calls' = IF ~done /\ e.kind = "text" THEN calls \o TextCalls(e) ELSE calls
        /\ UNCHANGED << cause, outcome >>
    BY <1>0, <1>4 DEF HandleEvent, ending, Located
  <2>2. CASE ~done /\ e.kind = "text"
    <3>1. done' = done /\ calls' = calls \o TextCalls(e)
      BY <1>0, <2>1, <2>2 DEF TypeOK
    <3>2. TextCalls(e) \in Seq(Callback)
      BY TextCallsType
    <3>3. /\ calls' \in Seq(Callback) /\ Len(calls') = Len(calls) + Len(TextCalls(e))
          /\ \A p \in 1 .. Len(calls) : calls'[p] = calls[p]
      BY <1>0, <3>1, <3>2
    <3>4. ASSUME NEW p \in 1 .. Len(calls') PROVE ~Promise!IsComplete(calls'[p])
      <4>0. calls'[p] \in Callback
        BY <3>3
      <4>1. calls'[p].call \in Parts
        BY <4>0 DEF Callback
      <4> QED
        BY <4>1 DEF Parts, Promise!IsComplete
    <3>5. \A p \in 1 .. Len(calls) : p <= Len(calls') /\ calls'[p] = calls[p]
      BY <1>0, <3>2, <3>3
    <3>6. \A p \in Len(calls) + 1 .. Len(calls') : p \in 1 .. Len(calls')
      BY <1>0
    <3>7. Promise!AddsCalls
      BY <2>2, <3>4, <3>5, <3>6 DEF Promise!AddsCalls
    <3>8. Promise!Report
      BY <1>p, <2>1, <3>1, <3>7 DEF Promise!Report
    <3> QED
      BY <1>f, <3>8
  <2>3. CASE ~(~done /\ e.kind = "text")
    <3>1. calls' = calls /\ (done' = done \/ done' = TRUE)
      BY <1>0, <2>1, <2>3 DEF TypeOK
    <3>2. UNCHANGED << calls, done, cause, outcome >> \/ Promise!Done
      BY <1>p, <2>1, <3>1 DEF Promise!Done
    <3> QED
      BY <1>s, <1>f, <3>2
  <2> QED
    BY <2>2, <2>3
<1>5. CASE Return
  <2>1. /\ at = "verdict" /\ UNCHANGED << calls, done >>
        /\ outcome' = Verdict
        /\ cause' = IF cause = "none" /\ transfer.httpError THEN "http" ELSE cause
        /\ Account(cause)
    BY <1>0, <1>5 DEF Return, Accounted
  <2>2. cause' \in IF cause = "none" THEN {"none", "http", "setup"} ELSE {cause}
    BY <2>1
  <2>3. Verdict \in Promise!Outcomes(cause')
    BY <2>1 DEF Account, Verdict, Stage, Outcome, Promise!Outcomes, Promise!Outcome
  <2>4. Promise!Return
    BY <1>p, <2>1, <2>2, <2>3 DEF Promise!Return
  <2> QED
    BY <1>f, <2>4
<1> QED
  BY <1>1, <1>2, <1>3, <1>4, <1>5 DEF Next

-----------------------------------------------------------------------------
LEMMA Invariance == Spec => []Inv
<1>1. Inv /\ UNCHANGED vars => Inv'
  BY DEF vars, errors, ending, Inv, TypeOK, Located, Accounted, Account
<1>2. Inv /\ [Next]_vars => Inv'
  BY <1>1, StepInv
<1> QED
  BY InitInv, <1>2, PTL DEF Spec

(* The flags of the call and of the transport have their types in every    *)
(* reachable state (llm_completions_stream_with_headers_choice_ex).        *)
THEOREM TypeCorrect == Spec => []TypeOK
<1>1. Inv => TypeOK
  BY DEF Inv
<1> QED
  BY <1>1, Invariance, PTL

(* Every behaviour of the completions stream is one of StreamCall: nothing *)
(* is reported after [DONE] or after a failure, and the value returned     *)
(* names what ended the call first.                                        *)
THEOREM PromiseKept == Spec => KeepsPromise
<1>1. Inv /\ [Next]_vars => [Promise!Next]_(Promise!vars)
  <2>1. UNCHANGED vars => UNCHANGED Promise!vars
    BY DEF vars, ending, Promise!vars
  <2> QED
    BY <2>1, StepKeepsPromise
<1> QED
  BY InitInv, Invariance, <1>1, PTL DEF Spec, KeepsPromise, Promise!Spec

=============================================================================
