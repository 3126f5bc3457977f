---------------------------- MODULE ToolLoopProofs ----------------------------
(***************************************************************************)
(* Theorems about the tool loop, for all answers, tools, limits and sizes  *)
(* of the ring of hashes.                                                  *)
(***************************************************************************)
EXTENDS ToolLoop, SequenceTheorems, WellFoundedInduction, TLAPS

(* A turn that has begun is one of the max_turns, and one whose tools are  *)
(* dispatched is not the last.                                             *)
InTurns ==
  /\ at \in {"poll", "asked"} => turn < maxTurns
  /\ at = "dispatch" => turn + 1 < maxTurns

(* The next place in the ring.                                             *)
LEMMA Wraps ==
  ASSUME NEW pos \in 0 .. Window - 1
  PROVE  NextPos(pos) = IF pos + 1 = Window THEN 0 ELSE pos + 1
BY LimitsAssumption DEF NextPos

LEMMA SetIfEmptyType ==
  ASSUME NEW last \in Errors, NEW code \in {"NONE", "CANCELLED", "FAILED"}
  PROVE  SetIfEmpty(last, code) \in Errors
BY DEF SetIfEmpty, Error, Errors, NoError, CallStages

TypeInv == TypeOK /\ InTurns

-----------------------------------------------------------------------------
(***************************************************************************)
(* Types.                                                                  *)
(***************************************************************************)

LEMMA NoErrorType == NoError \in Errors /\ ToolErrors \subseteq Errors
BY ToolsAssumption DEF NoError, Error, Errors, CallStages

LEMMA TypeInit == Init => TypeInv
<1> SUFFICES ASSUME Init PROVE TypeInv
  OBVIOUS
<1>1. lastError \in Errors
  BY NoErrorType DEF Init
<1>2. turn \in 0 .. maxTurns /\ recentPos \in 0 .. Window - 1
  BY LimitsAssumption DEF Init
<1>3. next \in 0 .. Len(result) + 1
  BY DEF Init
<1>4. recentCount \in 0 .. Window /\ toolOutputTotal \in 0 .. SizeMax
  BY LimitsAssumption DEF Init
<1>5. DOMAIN recentHashes = 0 .. Window - 1
  BY DEF Init
<1>6. TypeOK
  BY <1>1, <1>2, <1>3, <1>4, <1>5 DEF Init, TypeOK
<1>7. QED
  BY <1>6 DEF Init, TypeInv, InTurns

LEMMA ReturnType ==
  ASSUME TypeInv, NEW code \in {"NONE", "CANCELLED", "FAILED"}, NEW why,
         NEW last \in Errors, Return(code, why, last),
         wantAbort' = wantAbort, limits' = limits, turn' \in 0 .. maxTurns,
         DOMAIN recentHashes' = 0 .. Window - 1, recentCount' \in 0 .. Window,
         recentPos' \in 0 .. Window - 1, toolOutputTotal' \in 0 .. SizeMax,
         meddled' \in BOOLEAN
  PROVE  TypeInv'
<1>1. lastError' \in Errors
  BY SetIfEmptyType DEF Return
<1>2. Len(result') = 0 /\ next' = 0
  BY DEF Return
<1>3. QED
  BY <1>1, <1>2 DEF Return, TypeInv, TypeOK, InTurns, limits

LEMMA RememberType ==
  ASSUME TypeOK, NEW h, Remember(h)
  PROVE  /\ DOMAIN recentHashes' = 0 .. Window - 1
         /\ recentCount' \in 0 .. Window
         /\ recentPos' \in 0 .. Window - 1
<1>1. recentPos' \in 0 .. Window - 1
  BY Wraps, LimitsAssumption DEF Remember, TypeOK
<1>2. QED
  BY <1>1, LimitsAssumption DEF Remember, TypeOK

LEMMA TypeNext == TypeInv /\ [Next]_vars => TypeInv'
<1> SUFFICES ASSUME TypeInv, [Next]_vars
             PROVE  TypeInv'
  OBVIOUS
<1> USE NoErrorType
<1>1. CASE CopyFails \/ NoTurns
  BY <1>1, ReturnType DEF CopyFails, NoTurns, TypeInv, TypeOK, guard, record, Entered
<1>2. CASE Copied
  BY <1>2, LimitsAssumption DEF Copied, TypeInv, TypeOK, InTurns, guard, record, limits, Entered
<1>3. CASE AbortSeen \/ AnswerFinal
  BY <1>3, ReturnType DEF AbortSeen, AnswerFinal, TypeInv, TypeOK, guard, record
<1>4. CASE Ask
  BY <1>4 DEF Ask, TypeInv, TypeOK, InTurns, guard, limits
<1>5. CASE ChatFails
  <2>1. PICK stage \in CallStages : Return("FAILED", "chat", Error("FAILED", stage))
    BY <1>5 DEF ChatFails
  <2>2. Error("FAILED", stage) \in Errors
    BY DEF Error, Errors
  <2>3. QED
    BY <1>5, <2>1, <2>2, ReturnType DEF ChatFails, TypeInv, TypeOK, guard, record
<1>6. CASE AnswerRefused
  <2>1. PICK a \in Answers : Return("FAILED", Refusal(a), lastError)
    BY <1>6 DEF AnswerRefused
  <2>2. QED
    BY <1>6, <2>1, ReturnType DEF AnswerRefused, TypeInv, TypeOK, guard, record
<1>7. CASE HistoryFails
  <2>1. PICK a \in Answers : Remember(Hash(Said(a)))
    BY <1>7 DEF HistoryFails
  <2>2. QED
    BY <1>7, <2>1, RememberType, ReturnType DEF HistoryFails, TypeInv, TypeOK, record
<1>8. CASE TurnTaken
  <2>1. PICK a \in Answers : /\ Refusal(a) = "none"
                             /\ Remember(Hash(Said(a)))
                             /\ result' = a.calls
    BY <1>8 DEF TurnTaken
  <2>2. a.calls \in Seq([id : STRING, what : STRING, argsLen : 0 .. SizeMax])
    BY ToolsAssumption
  <2>3. next' \in 0 .. Len(result') + 1
    BY <1>8, <2>1, <2>2, LenProperties DEF TurnTaken
  <2>4. ~IsLastTurn
    BY <2>1 DEF Refusal
  <2>5. turn + 1 < maxTurns
    BY <2>4, LimitsAssumption DEF IsLastTurn, TypeInv, TypeOK
  <2>6. QED
    BY <1>8, <2>1, <2>3, <2>5, RememberType DEF TurnTaken, TypeInv, TypeOK, InTurns, limits
<1>9. CASE DispatchFails \/ OutputRefused
  <2>1. PICK last \in AfterTool :
          /\ Meddles(last)
          /\ \E why \in {"dispatch", "output"} : Return("FAILED", why, last)
    BY <1>9 DEF DispatchFails, OutputRefused
  <2>2. last \in Errors
    BY DEF AfterTool, TypeInv, TypeOK
  <2>3. QED
    BY <1>9, <2>1, <2>2, ReturnType
    DEF DispatchFails, OutputRefused, TypeInv, TypeOK, guard, Meddles
<1>10. CASE OutputLost \/ OutputTaken
  <2>1. PICK last \in AfterTool : Meddles(last)
                                 /\ (OutputLost => Return("FAILED", "memory", last))
                                 /\ (OutputTaken => lastError' = last)
    BY <1>10 DEF OutputLost, OutputTaken
  <2>2. last \in Errors /\ meddled' \in BOOLEAN
    BY <2>1 DEF AfterTool, TypeInv, TypeOK, Meddles
  <2>3. toolOutputTotal' \in 0 .. SizeMax
    BY <1>10, ToolsAssumption, LimitsAssumption
    DEF OutputLost, OutputTaken, Exceeds, Counted, TypeInv, TypeOK
  <2>4. CASE OutputLost
    BY <2>1, <2>2, <2>3, <2>4, ReturnType DEF OutputLost, TypeInv, TypeOK, guard
  <2>5. CASE OutputTaken
    <3>1. next' \in 0 .. Len(result') + 1
      BY <2>5 DEF OutputTaken, Dispatching, TypeInv, TypeOK
    <3>2. QED
      BY <2>1, <2>2, <2>3, <2>5, <3>1
      DEF OutputTaken, TypeInv, TypeOK, InTurns, guard, limits
  <2>6. QED
    BY <1>10, <2>4, <2>5
<1>11. CASE TurnDone
  <2>1. turn' = turn + 1 /\ turn' < maxTurns /\ turn' \in 0 .. maxTurns
    BY <1>11, LimitsAssumption DEF TurnDone, TypeInv, TypeOK, InTurns
  <2>2. Len(result') = 0 /\ next' = 0 /\ at' = "poll"
    BY <1>11, <2>1 DEF TurnDone
  <2>3. QED
    BY <1>11, <2>1, <2>2 DEF TurnDone, TypeInv, TypeOK, InTurns, guard, limits, record
<1>12. CASE RequestAbort
  BY <1>12 DEF RequestAbort, TypeInv, TypeOK, InTurns, guard, limits, record
<1>13. CASE UNCHANGED vars
  BY <1>13 DEF vars, TypeInv, TypeOK, InTurns, guard, limits, record
<1>14. QED
  BY <1>1, <1>2, <1>3, <1>4, <1>5, <1>6, <1>7, <1>8, <1>9, <1>10, <1>11, <1>12, <1>13
  DEF Next, Step

LEMMA TypeInvariant == Spec => []TypeInv
BY TypeInit, TypeNext, PTL DEF Spec

(* Every variable of the tool loop has its type: the position in the ring  *)
(* stays in it, and the sum of the outputs fits a size_t.                  *)
THEOREM TypeCorrect == Spec => []TypeOK
<1>1. TypeInv => TypeOK
  BY DEF TypeInv
<1>2. QED
  BY <1>1, TypeInvariant, PTL

-----------------------------------------------------------------------------
(***************************************************************************)
(* The last error.  From the request on, it is empty unless a tool of the  *)
(* turn has left one.                                                      *)
(***************************************************************************)

LastErrorInv ==
  /\ at = "asked" => lastError = NoError
  /\ at \in {"poll", "dispatch"} /\ ~meddled => lastError = NoError
  /\ LastErrorIsThisCalls

LEMMA ReturnKeepsTheError ==
  ASSUME NEW code \in {"CANCELLED", "FAILED"}, NEW why, NEW last,
         Return(code, why, last),
         \/ last = NoError
         \/ meddled'
         \/ why = "chat" /\ code = "FAILED" /\ (\E stage \in CallStages : last = Error("FAILED", stage))
  PROVE  LastErrorInv'
<1>1. lastError' # NoError
  BY DEF Return, SetIfEmpty, Error, NoError
<1>2. ~meddled' => lastError'.code = code
  BY DEF Return, SetIfEmpty, Error
<1>3. ~meddled' /\ why # "chat" => lastError'.stage \in {"NONE", "PROTOCOL"}
  BY DEF Return, SetIfEmpty, Error
<1>4. QED
  BY <1>1, <1>2, <1>3 DEF Return, LastErrorInv, LastErrorIsThisCalls

LEMMA LastErrorNext == TypeInv /\ TypeInv' /\ LastErrorInv /\ [Next]_vars => LastErrorInv'
<1> SUFFICES ASSUME TypeInv, TypeInv', LastErrorInv, [Next]_vars
             PROVE  LastErrorInv'
  OBVIOUS
<1>1. CASE CopyFails \/ NoTurns
  BY <1>1, ReturnKeepsTheError DEF CopyFails, NoTurns, Entered
<1>2. CASE Copied \/ Ask
  BY <1>2 DEF Copied, Ask, LastErrorInv, LastErrorIsThisCalls, Entered
<1>3. CASE AbortSeen
  BY <1>3, ReturnKeepsTheError DEF AbortSeen, LastErrorInv, record, TypeInv, TypeOK
<1>4. CASE ChatFails
  BY <1>4, ReturnKeepsTheError DEF ChatFails
<1>5. CASE AnswerFinal
  <2>1. lastError' = NoError
    BY <1>5 DEF AnswerFinal, Return, SetIfEmpty, LastErrorInv
  <2>2. QED
    BY <1>5, <2>1 DEF AnswerFinal, Return, LastErrorInv, LastErrorIsThisCalls, NoError, Error
<1>6. CASE AnswerRefused
  BY <1>6, ReturnKeepsTheError DEF AnswerRefused, LastErrorInv
<1>7. CASE HistoryFails
  BY <1>7, ReturnKeepsTheError DEF HistoryFails, LastErrorInv
<1>8. CASE TurnTaken
  BY <1>8 DEF TurnTaken, LastErrorInv, LastErrorIsThisCalls
<1>9. CASE DispatchFails \/ OutputRefused \/ OutputLost
  <2>1. PICK last \in AfterTool :
          /\ Meddles(last)
          /\ \E why \in {"dispatch", "output", "memory"} : Return("FAILED", why, last)
    BY <1>9 DEF DispatchFails, OutputRefused, OutputLost
  <2>2. at = "dispatch"
    BY <1>9 DEF DispatchFails, OutputRefused, OutputLost, Dispatching
  <2>3. last = NoError \/ meddled'
    BY <2>1, <2>2 DEF AfterTool, Meddles, LastErrorInv
  <2>4. QED
    BY <2>1, <2>3, ReturnKeepsTheError
<1>10. CASE OutputTaken
  <2>1. PICK last \in AfterTool : Meddles(last) /\ lastError' = last
    BY <1>10 DEF OutputTaken
  <2>2. ~meddled' => lastError' = NoError
    BY <1>10, <2>1 DEF OutputTaken, Dispatching, AfterTool, Meddles, LastErrorInv
  <2>3. QED
    BY <1>10, <2>2 DEF OutputTaken, Dispatching, LastErrorInv, LastErrorIsThisCalls
<1>11. CASE TurnDone
  <2>1. at' = "poll" /\ lastError' = lastError
    BY <1>11, LimitsAssumption DEF TurnDone, TypeInv, TypeOK, InTurns
  <2>2. QED
    BY <1>11, <2>1 DEF TurnDone, LastErrorInv, LastErrorIsThisCalls, record
<1>12. CASE RequestAbort
  BY <1>12 DEF RequestAbort, LastErrorInv, LastErrorIsThisCalls, record
<1>13. CASE UNCHANGED vars
  BY <1>13 DEF vars, LastErrorInv, LastErrorIsThisCalls, record
<1>14. QED
  BY <1>1, <1>2, <1>3, <1>4, <1>5, <1>6, <1>7, <1>8, <1>9, <1>10, <1>11, <1>12, <1>13
  DEF Next, Step

(* Whatever a call of the loop returns, llm_client_last_error agrees with  *)
(* it afterwards, and no error of an earlier call is left.                 *)
THEOREM LastErrorKept == Spec => []LastErrorIsThisCalls
<1>1. Init => LastErrorInv
  BY DEF Init, LastErrorInv, LastErrorIsThisCalls
<1>2. Spec => []LastErrorInv
  BY <1>1, LastErrorNext, TypeInvariant, PTL DEF Spec
<1>3. QED
  BY <1>2, PTL DEF LastErrorInv

-----------------------------------------------------------------------------
(***************************************************************************)
(* The ring.  Counted back from where the next hash goes, it holds the     *)
(* hashes of the last turns, the latest first.                             *)
(***************************************************************************)

(* Where the hash of the turn `age` turns before the last is kept.         *)
Slot(pos, age) == IF age < pos THEN pos - 1 - age ELSE pos - 1 - age + Window

(* The turns remembered.                                                   *)
RingCounts ==
  /\ recentHashes = [i \in 0 .. Window - 1 |-> recentHashes[i]]
  /\ recentCount = IF Len(turns) < Window THEN Len(turns) ELSE Window
  /\ recentCount < Window => recentPos = recentCount

RingHolds ==
  \A age \in 0 .. recentCount - 1 :
    recentHashes[Slot(recentPos, age)] = Hash(turns[Len(turns) - age])

TurnsType == turns \in Seq({Said(a) : a \in Answers})

RingInv ==
  /\ TurnsType
  /\ at # "returned" => RingCounts /\ RingHolds /\ cause = "none"
  /\ RepeatsAreCaught

(* The ages of the turns remembered and the places of their hashes are in  *)
(* one-to-one correspondence.                                              *)
LEMMA SlotsAndAges ==
  ASSUME NEW pos \in 0 .. Window - 1, NEW count \in 0 .. Window,
         count < Window => pos = count
  PROVE  /\ \A age \in 0 .. count - 1 : Slot(pos, age) \in 0 .. count - 1
         /\ \A i \in 0 .. count - 1 : \E age \in 0 .. count - 1 : Slot(pos, age) = i
<1>1. ASSUME NEW age \in 0 .. count - 1
      PROVE  Slot(pos, age) \in 0 .. count - 1
  BY LimitsAssumption DEF Slot
<1>2. ASSUME NEW i \in 0 .. count - 1
      PROVE  \E age \in 0 .. count - 1 : Slot(pos, age) = i
  <2>1. CASE i < pos
    <3>1. pos - 1 - i \in 0 .. count - 1 /\ Slot(pos, pos - 1 - i) = i
      BY <2>1, LimitsAssumption DEF Slot
    <3>2. QED
      BY <3>1
  <2>2. CASE ~(i < pos)
    <3>1. /\ pos - 1 - i + Window \in 0 .. count - 1
          /\ Slot(pos, pos - 1 - i + Window) = i
      BY <2>2, LimitsAssumption DEF Slot
    <3>2. QED
      BY <3>1
  <2>3. QED
    BY <2>1, <2>2
<1>3. QED
  BY <1>1, <1>2

(* tool_loop_guard_seen finds a hash exactly if one of the last turns had  *)
(* it.                                                                     *)
LEMMA SeenIsLatest ==
  ASSUME TypeOK, TurnsType, RingCounts, RingHolds, NEW h
  PROVE  Seen(h) <=> \E i \in Latest : Hash(turns[i]) = h
<1>1. recentPos \in 0 .. Window - 1 /\ recentCount \in 0 .. Window
  BY DEF TypeOK
<1>2. Len(turns) \in Nat /\ DOMAIN turns = 1 .. Len(turns)
  BY LenProperties DEF TurnsType
<1>3. ASSUME Seen(h) PROVE \E i \in Latest : Hash(turns[i]) = h
  <2>1. PICK k \in 0 .. recentCount - 1 : recentHashes[k] = h
    BY <1>3 DEF Seen
  <2>2. PICK age \in 0 .. recentCount - 1 : Slot(recentPos, age) = k
    BY <1>1, SlotsAndAges DEF RingCounts
  <2>3. Len(turns) - age \in Latest
    BY <1>1, <1>2, LimitsAssumption DEF Latest, RingCounts
  <2>4. QED
    BY <2>1, <2>2, <2>3 DEF RingHolds
<1>4. ASSUME NEW i \in Latest, Hash(turns[i]) = h PROVE Seen(h)
  <2> DEFINE age == Len(turns) - i
  <2>1. age \in 0 .. recentCount - 1 /\ i = Len(turns) - age
    BY <1>1, <1>2, LimitsAssumption DEF Latest, RingCounts
  <2>2. recentHashes[Slot(recentPos, age)] = Hash(turns[Len(turns) - age])
    BY <2>1 DEF RingHolds
  <2>3. Slot(recentPos, age) \in 0 .. recentCount - 1
    BY <1>1, <2>1, SlotsAndAges DEF RingCounts
  <2>4. QED
    BY <1>4, <2>1, <2>2, <2>3 DEF Seen
<1>5. QED
  BY <1>3, <1>4

(* A turn taken up is remembered, and the oldest is forgotten for it.      *)
LEMMA RingStep ==
  ASSUME TypeOK, TurnsType, RingCounts, RingHolds, NEW s \in {Said(a) : a \in Answers},
         Remember(Hash(s)), turns' = Append(turns, s)
  PROVE  TurnsType' /\ RingCounts' /\ RingHolds'
<1> DEFINE n == Len(turns)
<1>1. /\ recentPos \in 0 .. Window - 1
      /\ recentCount \in 0 .. Window
      /\ recentPos' = IF recentPos + 1 = Window THEN 0 ELSE recentPos + 1
      /\ Window \in Nat \ {0}
  BY Wraps, LimitsAssumption DEF TypeOK, Remember
<1>2. /\ n \in Nat
      /\ Len(turns') = n + 1
      /\ turns'[n + 1] = s
      /\ \A k \in 1 .. n : turns'[k] = turns[k]
      /\ TurnsType'
  BY AppendProperties, LenProperties DEF TurnsType
<1>3. RingCounts'
  <2>1. recentHashes' = [i \in 0 .. Window - 1 |-> recentHashes'[i]]
    BY DEF RingCounts, Remember
  <2>2. /\ recentCount = IF n < Window THEN n ELSE Window
        /\ recentCount' = IF recentCount < Window THEN recentCount + 1 ELSE recentCount
        /\ recentCount < Window => recentPos = recentCount
    BY DEF RingCounts, Remember
  <2>3. recentCount' = IF n + 1 < Window THEN n + 1 ELSE Window
    BY <1>1, <1>2, <2>2
  <2>4. recentCount' < Window => recentPos' = recentCount'
    BY <1>1, <1>2, <2>2
  <2>5. QED
    BY <1>2, <2>1, <2>3, <2>4 DEF RingCounts
<1>4. ASSUME NEW age \in 0 .. recentCount' - 1
      PROVE  recentHashes'[Slot(recentPos', age)] = Hash(turns'[Len(turns') - age])
  <2>1. CASE age = 0
    <3>1. Slot(recentPos', age) = recentPos
      BY <1>1, <2>1 DEF Slot
    <3>2. recentHashes'[recentPos] = Hash(s)
      BY <1>1 DEF Remember, RingCounts
    <3>3. turns'[Len(turns') - age] = s
      BY <1>2, <2>1
    <3>4. QED
      BY <3>1, <3>2, <3>3
  <2>2. CASE age # 0
    <3>1. age - 1 \in 0 .. recentCount - 1 /\ n - (age - 1) \in 1 .. n
      BY <1>1, <1>2, <2>2 DEF Remember, RingCounts
    <3>2. /\ Slot(recentPos', age) = Slot(recentPos, age - 1)
          /\ Slot(recentPos, age - 1) # recentPos
          /\ Slot(recentPos, age - 1) \in 0 .. Window - 1
      <4>1. age - 1 \in 0 .. Window - 2
        <5>1. recentCount' = IF recentCount < Window THEN recentCount + 1 ELSE recentCount
          BY DEF Remember
        <5>2. QED
          BY <1>1, <2>2, <3>1, <5>1
      <4>2. CASE recentPos + 1 = Window
        BY <1>1, <4>1, <4>2 DEF Slot
      <4>3. CASE recentPos + 1 # Window
        BY <1>1, <4>1, <4>3 DEF Slot
      <4>4. QED
        BY <4>2, <4>3
    <3>3. recentHashes'[Slot(recentPos', age)] = recentHashes[Slot(recentPos, age - 1)]
      BY <1>1, <3>2 DEF Remember, RingCounts
    <3>4. recentHashes[Slot(recentPos, age - 1)] = Hash(turns[n - (age - 1)])
      BY <3>1 DEF RingHolds
    <3>5. turns'[Len(turns') - age] = turns[n - (age - 1)]
      BY <1>2, <3>1
    <3>6. QED
      BY <3>3, <3>4, <3>5
  <2>3. QED
    BY <2>1, <2>2
<1>5. QED
  BY <1>2, <1>3, <1>4 DEF RingHolds

LEMMA RingNext == TypeInv /\ RingInv /\ [Next]_vars => RingInv'
<1> SUFFICES ASSUME TypeInv, RingInv, [Next]_vars
             PROVE  RingInv'
  OBVIOUS
<1> DEFINE Ends(why) ==
             \E code \in {"NONE", "CANCELLED", "FAILED"} : \E last : Return(code, why, last)
<1>1. ASSUME NEW why, why # "repeat", Ends(why), turns' = turns
      PROVE  RingInv'
  BY <1>1 DEF Return, RingInv, TurnsType, RepeatsAreCaught
<1>2. ASSUME UNCHANGED << turns, guard, cause >>, at # "returned" \/ at' = "returned"
      PROVE  RingInv'
  BY <1>2 DEF RingInv, TurnsType, RingCounts, RingHolds, RepeatsAreCaught, Latest, guard
<1>3. CASE CopyFails \/ NoTurns \/ AbortSeen \/ AnswerFinal \/ HistoryFails
  BY <1>1, <1>3 DEF CopyFails, NoTurns, AbortSeen, AnswerFinal, HistoryFails, record
<1>4. CASE ChatFails
  BY <1>1, <1>4 DEF ChatFails, record
<1>5. CASE DispatchFails \/ OutputRefused \/ OutputLost
  BY <1>1, <1>5 DEF DispatchFails, OutputRefused, OutputLost
<1>6. CASE Copied \/ Ask \/ OutputTaken \/ RequestAbort
  BY <1>2, <1>6 DEF Copied, Ask, OutputTaken, RequestAbort, record, Dispatching
<1>7. CASE AnswerRefused
  <2>1. PICK a \in Answers : Return("FAILED", Refusal(a), lastError)
    BY <1>7 DEF AnswerRefused
  <2>2. turns' = turns /\ at # "returned"
    BY <1>7 DEF AnswerRefused, record
  <2>3. CASE Refusal(a) # "repeat"
    BY <1>1, <2>1, <2>2, <2>3
  <2>4. CASE Refusal(a) = "repeat"
    <3>1. Seen(Hash(Said(a)))
      BY <2>4 DEF Refusal
    <3>2. \E i \in Latest : Hash(turns[i]) = Hash(Said(a))
      BY <2>2, <3>1, SeenIsLatest DEF RingInv, TypeInv
    <3>3. QED
      BY <2>1, <2>2, <3>2 DEF Return, RingInv, TurnsType, RepeatsAreCaught, Latest
  <2>5. QED
    BY <2>3, <2>4
<1>8. CASE TurnTaken
  <2>1. PICK a \in Answers : /\ Refusal(a) = "none"
                             /\ Remember(Hash(Said(a)))
                             /\ turns' = Append(turns, Said(a))
    BY <1>8 DEF TurnTaken
  <2>2. at = "asked" /\ cause' = cause
    BY <1>8 DEF TurnTaken
  <2>3. TurnsType' /\ RingCounts' /\ RingHolds'
    BY <2>1, <2>2, RingStep DEF RingInv, TypeInv
  <2>4. ~Seen(Hash(Said(a)))
    BY <2>1 DEF Refusal
  <2>5. \A i \in Latest : Hash(turns[i]) # Hash(Said(a))
    BY <2>2, <2>4, SeenIsLatest DEF RingInv, TypeInv
  <2>6. /\ Len(turns) \in Nat
        /\ DOMAIN turns = 1 .. Len(turns)
        /\ DOMAIN turns' = 1 .. Len(turns) + 1
        /\ turns'[Len(turns) + 1] = Said(a)
        /\ \A k \in 1 .. Len(turns) : turns'[k] = turns[k]
    BY <2>1, AppendProperties, LenProperties DEF RingInv, TurnsType
  <2>7. ASSUME NEW i \in DOMAIN turns', NEW j \in DOMAIN turns', i < j, j - i <= Window
        PROVE  Hash(turns'[i]) # Hash(turns'[j])
    <3>1. CASE j \in DOMAIN turns
      <4>1. i \in DOMAIN turns
        BY <2>6, <2>7, <3>1
      <4>2. turns'[i] = turns[i] /\ turns'[j] = turns[j]
        BY <2>6, <3>1, <4>1
      <4>3. QED
        BY <2>7, <3>1, <4>1, <4>2 DEF RingInv, RepeatsAreCaught
    <3>2. CASE j \notin DOMAIN turns
      <4>1. j = Len(turns) + 1 /\ i \in Latest /\ i \in DOMAIN turns
        BY <2>6, <2>7, <3>2, LimitsAssumption DEF Latest
      <4>2. turns'[i] = turns[i] /\ turns'[j] = Said(a)
        BY <2>6, <4>1
      <4>3. QED
        BY <2>5, <4>1, <4>2
    <3>3. QED
      BY <3>1, <3>2
  <2>8. cause' = "none"
    BY <2>2 DEF RingInv
  <2>9. QED
    BY <2>3, <2>7, <2>8 DEF RingInv, RepeatsAreCaught
<1>9. CASE TurnDone
  <2>1. at' = "poll" /\ cause' = cause
    BY <1>9, LimitsAssumption DEF TurnDone, TypeInv, TypeOK, InTurns
  <2>2. QED
    BY <1>2, <1>9, <2>1 DEF TurnDone, record
<1>10. CASE UNCHANGED vars
  BY <1>2, <1>10 DEF vars, record
<1>11. QED
  BY <1>3, <1>4, <1>5, <1>6, <1>7, <1>8, <1>9, <1>10 DEF Next, Step

(* Loop detection is exact up to collisions of the hash: no two turns      *)
(* within TOOL_LOOP_HASH_WINDOW of each other have one hash, and the loop  *)
(* gives up for a repetition only if one of the last turns had the hash.   *)
THEOREM RepeatsCaught == Spec => []RepeatsAreCaught
<1>1. Init => RingInv
  <2> SUFFICES ASSUME Init PROVE RingInv
    OBVIOUS
  <2>1. turns = << >> /\ Len(turns) = 0 /\ DOMAIN turns = {} /\ recentCount = 0 /\ recentPos = 0
    BY DEF Init
  <2>2. TurnsType
    BY <2>1 DEF TurnsType
  <2>3. RingCounts
    BY <2>1, LimitsAssumption DEF Init, RingCounts
  <2>4. RingHolds
    BY <2>1 DEF RingHolds
  <2>5. RepeatsAreCaught /\ cause = "none"
    BY <2>1 DEF Init, RepeatsAreCaught
  <2>6. QED
    BY <2>2, <2>3, <2>4, <2>5 DEF RingInv
<1>2. Spec => []RingInv
  BY <1>1, RingNext, TypeInvariant, PTL DEF Spec
<1>3. QED
  BY <1>2, PTL DEF RingInv

-----------------------------------------------------------------------------
(***************************************************************************)
(* The conversation.  Between the turns it is well formed; while the calls *)
(* of a turn are dispatched the turn's assistant message is still without  *)
(* the results of the calls to come.                                       *)
(***************************************************************************)

Calls == Seq([id : STRING, what : STRING, argsLen : 0 .. SizeMax])

Initials == {Initial[i] : i \in DOMAIN Initial}
Asks == {AssistantMessage(a) : a \in Answers}
Results == {ToolMessage(id, len) : id \in STRING, len \in 0 .. SizeMax}
Messages == (Asks \cup Results) \cup Initials

(* The messages of m after the caller's, and those that ask for tools.     *)
Added(m) == Len(Initial) + 1 .. Len(m)
Asking(m) == {i \in Added(m) : m[i].role = "assistant"}

Opens(m) ==
  /\ m \in Seq(Messages)
  /\ Len(Initial) <= Len(m)
  /\ \A i \in 1 .. Len(Initial) : m[i] = Initial[i]

(* The first n calls of message i have their results.                      *)
Answered(m, i, n) ==
  \A k \in 1 .. n :
    /\ i + k \in Added(m)
    /\ m[i + k].role = "tool"
    /\ m[i + k].id = m[i].calls[k].id

(* All calls of message i have them.                                       *)
Settled(m, i) == m[i].calls \in Calls /\ Answered(m, i, Len(m[i].calls))

NoOtherResults(m) ==
  \A j \in Added(m) :
    m[j].role = "tool" =>
      \E i \in Asking(m) : \E k \in 1 .. Len(m[i].calls) : j = i + k

WellFormed(m) ==
  /\ Opens(m)
  /\ NoOtherResults(m)
  /\ \A i \in Asking(m) : Settled(m, i)

(* As well formed as it can be when n of the last turn's calls are done.   *)
InTurn(m, calls, n) ==
  /\ Opens(m)
  /\ NoOtherResults(m)
  /\ Len(m) - n \in Asking(m)
  /\ m[Len(m) - n].calls = calls
  /\ Answered(m, Len(m) - n, n)
  /\ \A i \in Asking(m) \ {Len(m) - n} : Settled(m, i)

ConversationInv ==
  /\ at \in {"poll", "asked"} => WellFormed(history)
  /\ at = "asked" => sent = history
  /\ at = "dispatch" => result \in Calls /\ InTurn(history, result, next - 1)
  /\ sent # << >> => WellFormed(sent)

LEMMA InitialWellFormed == WellFormed(Initial)
<1>1. Initial \in Seq(Messages)
  <2>1. Initials \subseteq Messages
    BY DEF Messages
  <2>2. Initial \in Seq(Initials)
    BY InitialAssumption DEF Initials
  <2>3. QED
    BY <2>1, <2>2, SeqMonotonic
<1>2. Len(Initial) \in Nat
  BY <1>1, LenProperties
<1>3. Added(Initial) = {}
  BY <1>2 DEF Added
<1>4. QED
  BY <1>1, <1>2, <1>3 DEF WellFormed, Opens, NoOtherResults, Asking

(* One message more leaves the others where they are.                      *)
LEMMA OneMore ==
  ASSUME NEW m, Opens(m), NEW msg \in Messages
  PROVE  /\ Opens(Append(m, msg))
         /\ Len(m) \in Nat
         /\ Len(Append(m, msg)) = Len(m) + 1
         /\ Added(Append(m, msg)) = Added(m) \cup {Len(m) + 1}
         /\ Len(m) + 1 \notin Added(m)
         /\ Append(m, msg)[Len(m) + 1] = msg
         /\ \A i \in Added(m) : Append(m, msg)[i] = m[i]
<1> DEFINE next_m == Append(m, msg)
<1>1. m \in Seq(Messages) /\ Len(m) \in Nat
  BY LenProperties DEF Opens
<1>2. /\ next_m \in Seq(Messages)
      /\ Len(next_m) = Len(m) + 1
      /\ \A i \in 1 .. Len(m) : next_m[i] = m[i]
      /\ next_m[Len(m) + 1] = msg
  BY <1>1, AppendProperties
<1>3. Len(Initial) \in Nat /\ Len(Initial) <= Len(m)
  BY InitialAssumption, LenProperties DEF Opens
<1>4. Opens(next_m)
  BY <1>1, <1>2, <1>3 DEF Opens
<1>5. QED
  BY <1>1, <1>2, <1>3, <1>4 DEF Added

(* A message that was settled stays so, and results that were asked for    *)
(* remain asked for.                                                       *)
LEMMA OthersStay ==
  ASSUME NEW m, Opens(m), NEW msg \in Messages
  PROVE  /\ Asking(Append(m, msg)) =
              Asking(m) \cup (IF msg.role = "assistant" THEN {Len(m) + 1} ELSE {})
         /\ \A i \in Asking(m) : \A n \in Nat : Answered(m, i, n) => Answered(Append(m, msg), i, n)
         /\ \A i \in Asking(m) : Settled(m, i) => Settled(Append(m, msg), i)
         /\ NoOtherResults(m) /\ msg.role # "tool" => NoOtherResults(Append(m, msg))
<1> DEFINE next_m == Append(m, msg)
<1>1. /\ Added(next_m) = Added(m) \cup {Len(m) + 1}
      /\ Len(m) + 1 \notin Added(m)
      /\ next_m[Len(m) + 1] = msg
      /\ \A i \in Added(m) : next_m[i] = m[i]
  BY OneMore
<1> HIDE DEF next_m
<1>2. Asking(next_m) = Asking(m) \cup (IF msg.role = "assistant" THEN {Len(m) + 1} ELSE {})
  BY <1>1 DEF Asking
<1>3. \A i \in Asking(m) : i \in Added(m) /\ next_m[i] = m[i]
  BY <1>1 DEF Asking
<1>4. ASSUME NEW i \in Asking(m), NEW n \in Nat, Answered(m, i, n)
      PROVE  Answered(next_m, i, n)
  BY <1>1, <1>3, <1>4 DEF Answered
<1>5. ASSUME NEW i \in Asking(m), Settled(m, i)
      PROVE  Settled(next_m, i)
  <2>1. Len(m[i].calls) \in Nat
    BY <1>5, LenProperties DEF Settled, Calls
  <2>2. QED
    BY <1>3, <1>4, <1>5, <2>1 DEF Settled
<1>6. ASSUME NoOtherResults(m), msg.role # "tool"
      PROVE  NoOtherResults(next_m)
  <2> SUFFICES ASSUME NEW j \in Added(next_m), next_m[j].role = "tool"
               PROVE  \E i \in Asking(next_m) : \E k \in 1 .. Len(next_m[i].calls) : j = i + k
    BY DEF NoOtherResults
  <2>1. j \in Added(m) /\ m[j].role = "tool"
    BY <1>1, <1>6
  <2>2. PICK i \in Asking(m) : \E k \in 1 .. Len(m[i].calls) : j = i + k
    BY <1>6, <2>1 DEF NoOtherResults
  <2>3. QED
    BY <1>2, <1>3, <2>2
<1>7. QED
  BY <1>2, <1>4, <1>5, <1>6 DEF next_m

(* A turn begins: its assistant message is added.                          *)
LEMMA TurnBegins ==
  ASSUME NEW m, WellFormed(m), NEW a \in Answers
  PROVE  InTurn(Append(m, AssistantMessage(a)), a.calls, 0)
<1> DEFINE msg == AssistantMessage(a)
           next_m == Append(m, msg)
<1>1. msg \in Messages /\ msg.role = "assistant" /\ msg.calls = a.calls /\ msg.role # "tool"
  BY DEF Messages, Asks, AssistantMessage
<1>2. Opens(m)
  BY DEF WellFormed
<1> HIDE DEF msg
<1>3. /\ Opens(next_m)
      /\ Len(m) \in Nat
      /\ Len(next_m) - 0 = Len(m) + 1
      /\ next_m[Len(m) + 1] = msg
  BY <1>1, <1>2, OneMore
<1>4. /\ Asking(next_m) = Asking(m) \cup {Len(m) + 1}
      /\ \A i \in Asking(m) : Settled(m, i) => Settled(next_m, i)
      /\ NoOtherResults(next_m)
  BY <1>1, <1>2, OthersStay DEF WellFormed
<1> HIDE DEF next_m
<1>5. Answered(next_m, Len(m) + 1, 0)
  BY DEF Answered
<1>6. InTurn(next_m, a.calls, 0)
  BY <1>1, <1>3, <1>4, <1>5 DEF InTurn, WellFormed
<1>7. QED
  BY <1>6 DEF next_m, msg

(* ... the result of its next call is added ...                            *)
LEMMA ResultAdded ==
  ASSUME NEW m, NEW calls \in Calls, NEW n \in 0 .. Len(calls) - 1, InTurn(m, calls, n),
         NEW len \in 0 .. SizeMax
  PROVE  InTurn(Append(m, ToolMessage(calls[n + 1].id, len)), calls, n + 1)
<1> DEFINE msg == ToolMessage(calls[n + 1].id, len)
           next_m == Append(m, msg)
           p == Len(m) - n
<1>1. Len(calls) \in Nat /\ calls[n + 1].id \in STRING
  <2>1. Len(calls) \in Nat
    BY LenProperties DEF Calls
  <2>2. n + 1 \in 1 .. Len(calls)
    BY <2>1
  <2>3. calls[n + 1] \in [id : STRING, what : STRING, argsLen : 0 .. SizeMax]
    BY <2>2, ElementOfSeq DEF Calls
  <2>4. QED
    BY <2>1, <2>3
<1>2. /\ msg \in Messages
      /\ msg.role = "tool"
      /\ msg.role # "assistant"
      /\ msg.id = calls[n + 1].id
  <2>1. msg \in Results
    BY <1>1 DEF Results
  <2>2. QED
    BY <2>1 DEF Messages, ToolMessage
<1>3. Opens(m) /\ NoOtherResults(m)
  BY DEF InTurn
<1> HIDE DEF msg
<1>4. /\ Opens(next_m)
      /\ Len(m) \in Nat
      /\ Len(next_m) = Len(m) + 1
      /\ Added(next_m) = Added(m) \cup {Len(m) + 1}
      /\ next_m[Len(m) + 1] = msg
      /\ \A i \in Added(m) : next_m[i] = m[i]
  BY <1>2, <1>3, OneMore
<1>5. /\ Asking(next_m) = Asking(m)
      /\ \A i \in Asking(m) : \A c \in Nat : Answered(m, i, c) => Answered(next_m, i, c)
      /\ \A i \in Asking(m) : Settled(m, i) => Settled(next_m, i)
  BY <1>2, <1>3, OthersStay
<1> HIDE DEF next_m
<1>6. /\ Len(next_m) - (n + 1) = p
      /\ p \in Asking(next_m)
      /\ next_m[p] = m[p]
      /\ m[p].calls = calls
      /\ p + (n + 1) = Len(m) + 1
  BY <1>1, <1>4, <1>5 DEF InTurn, Asking
<1>7. Answered(next_m, p, n)
  BY <1>5 DEF InTurn
<1>8. Answered(next_m, p, n + 1)
  <2> SUFFICES ASSUME NEW k \in 1 .. n + 1
               PROVE  /\ p + k \in Added(next_m)
                      /\ next_m[p + k].role = "tool"
                      /\ next_m[p + k].id = next_m[p].calls[k].id
    BY DEF Answered
  <2>1. CASE k = n + 1
    BY <1>2, <1>4, <1>6, <2>1
  <2>2. CASE k # n + 1
    <3>1. k \in 1 .. n
      BY <2>2
    <3>2. QED
      BY <1>7, <3>1 DEF Answered
  <2>3. QED
    BY <2>1, <2>2
<1>9. NoOtherResults(next_m)
  <2> SUFFICES ASSUME NEW j \in Added(next_m), next_m[j].role = "tool"
               PROVE  \E i \in Asking(next_m) : \E k \in 1 .. Len(next_m[i].calls) : j = i + k
    BY DEF NoOtherResults
  <2>1. CASE j = Len(m) + 1
    <3>1. n + 1 \in 1 .. Len(next_m[p].calls) /\ j = p + (n + 1)
      BY <1>1, <1>6, <2>1
    <3>2. QED
      BY <1>6, <3>1
  <2>2. CASE j # Len(m) + 1
    <3>1. j \in Added(m) /\ m[j].role = "tool"
      BY <1>4, <2>2
    <3>2. PICK i \in Asking(m) : \E k \in 1 .. Len(m[i].calls) : j = i + k
      BY <1>3, <3>1 DEF NoOtherResults
    <3>3. i \in Asking(next_m) /\ next_m[i] = m[i]
      BY <1>4, <1>5 DEF Asking
    <3>4. QED
      BY <3>2, <3>3
  <2>3. QED
    BY <2>1, <2>2
<1>10. \A i \in Asking(next_m) \ {p} : Settled(next_m, i)
  BY <1>5 DEF InTurn
<1>11. InTurn(next_m, calls, n + 1)
  BY <1>4, <1>6, <1>8, <1>9, <1>10 DEF InTurn
<1>12. QED
  BY <1>11 DEF next_m, msg

(* ... and with the last result the conversation is well formed again.     *)
LEMMA TurnEnds ==
  ASSUME NEW m, NEW calls \in Calls, InTurn(m, calls, Len(calls))
  PROVE  WellFormed(m)
<1>1. Settled(m, Len(m) - Len(calls))
  BY DEF InTurn, Settled
<1>2. \A i \in Asking(m) : Settled(m, i)
  BY <1>1 DEF InTurn
<1>3. QED
  BY <1>2 DEF InTurn, WellFormed

LEMMA ConversationNext == TypeInv /\ ConversationInv /\ [Next]_vars => ConversationInv'
<1> SUFFICES ASSUME TypeInv, ConversationInv, [Next]_vars
             PROVE  ConversationInv'
  OBVIOUS
<1> DEFINE Ends == \E code, why, last : Return(code, why, last)
<1>1. CASE Ends /\ sent' = sent
  BY <1>1 DEF Return, ConversationInv
<1>2. CASE CopyFails \/ NoTurns \/ AbortSeen \/ ChatFails \/ AnswerFinal \/ AnswerRefused \/ HistoryFails
  <2>1. Ends
    BY <1>2 DEF CopyFails, NoTurns, AbortSeen, ChatFails, AnswerFinal, AnswerRefused, HistoryFails
  <2>2. QED
    BY <1>1, <1>2, <2>1
    DEF CopyFails, NoTurns, AbortSeen, ChatFails, AnswerFinal, AnswerRefused, HistoryFails, record
<1>3. CASE DispatchFails \/ OutputRefused \/ OutputLost
  BY <1>1, <1>3 DEF DispatchFails, OutputRefused, OutputLost
<1>4. CASE Copied
  BY <1>4, InitialWellFormed DEF Copied, ConversationInv, record
<1>5. CASE Ask
  BY <1>5 DEF Ask, ConversationInv
<1>6. CASE TurnTaken
  <2>1. PICK a \in Answers : /\ history' = Append(history, AssistantMessage(a))
                             /\ result' = a.calls
    BY <1>6 DEF TurnTaken
  <2>2. a.calls \in Calls
    BY ToolsAssumption DEF Calls
  <2>3. InTurn(history', result', 0)
    BY <1>6, <2>1, TurnBegins DEF TurnTaken, ConversationInv
  <2>4. at' = "dispatch" /\ next' - 1 = 0 /\ sent' = sent
    BY <1>6 DEF TurnTaken
  <2>5. QED
    BY <2>1, <2>2, <2>3, <2>4 DEF ConversationInv
<1>7. CASE OutputTaken
  <2>1. PICK len \in Outputs : history' = Append(history, ToolMessage(IdOfCall(next), len))
    BY <1>7 DEF OutputTaken
  <2>2. /\ at = "dispatch" /\ at' = at
        /\ result' = result /\ sent' = sent /\ next' = next + 1
        /\ result \in Calls
        /\ InTurn(history, result, next - 1)
    BY <1>7 DEF OutputTaken, Dispatching, ConversationInv
  <2>3. next - 1 \in 0 .. Len(result) - 1
    <3>1. next # 0
      <4>1. Len(history) \in Nat
        BY <2>2, LenProperties DEF InTurn, Opens
      <4>2. Len(history) - (next - 1) \in Added(history)
        BY <2>2 DEF InTurn, Asking
      <4>3. QED
        BY <4>1, <4>2 DEF Added
    <3>2. QED
      BY <1>7, <2>2, <3>1, LenProperties DEF OutputTaken, Dispatching, TypeInv, TypeOK, Calls
  <2>4. len \in 0 .. SizeMax
    BY ToolsAssumption
  <2>5. (next - 1) + 1 = next /\ (next + 1) - 1 = next
    BY <2>2, LenProperties DEF TypeInv, TypeOK, Calls
  <2>6. InTurn(Append(history, ToolMessage(result[(next - 1) + 1].id, len)), result, (next - 1) + 1)
    BY <2>2, <2>3, <2>4, ResultAdded
  <2>7. InTurn(history', result', next' - 1)
    BY <2>1, <2>2, <2>5, <2>6 DEF IdOfCall
  <2>8. QED
    BY <2>2, <2>7 DEF ConversationInv
<1>8. CASE TurnDone
  <2>1. at' = "poll" /\ history' = history /\ sent' = sent
    BY <1>8, LimitsAssumption DEF TurnDone, TypeInv, TypeOK, InTurns, record
  <2>2. result \in Calls /\ InTurn(history, result, next - 1)
    BY <1>8 DEF TurnDone, ConversationInv
  <2>3. next - 1 = Len(result)
    BY <1>8, <2>2, LenProperties DEF TurnDone, TypeInv, TypeOK, Calls
  <2>4. WellFormed(history)
    BY <2>2, <2>3, TurnEnds
  <2>5. QED
    BY <2>1, <2>4 DEF ConversationInv
<1>9. CASE RequestAbort
  BY <1>9 DEF RequestAbort, ConversationInv, record
<1>10. CASE UNCHANGED vars
  BY <1>10 DEF vars, ConversationInv, record
<1>11. QED
  BY <1>2, <1>3, <1>4, <1>5, <1>6, <1>7, <1>8, <1>9, <1>10 DEF Next, Step

LEMMA ConversationInvariant == Spec => []ConversationInv
<1>1. Init => ConversationInv
  BY DEF Init, ConversationInv
<1>2. QED
  BY <1>1, ConversationNext, TypeInvariant, PTL DEF Spec

(* Every request that leaves the loop starts with the caller's messages    *)
(* and has, after each assistant message, the results of all its calls, in *)
(* order and under their ids, and no others: for every conversation to     *)
(* start with, every answer and every number of calls and turns.           *)
THEOREM RequestsWellFormed == Spec => []RequestsAreWellFormed
<1>1. ConversationInv => RequestsAreWellFormed
  <2> SUFFICES ASSUME sent # << >>, WellFormed(sent)
               PROVE  LET old == 1 .. Len(Initial)
                          asking == {i \in DOMAIN sent \ old : sent[i].role = "assistant"}
                          answering == {i \in DOMAIN sent \ old : sent[i].role = "tool"}
                      IN  /\ SubSeq(sent, 1, Len(Initial)) = Initial
                          /\ answering = UNION {AnswersTo(sent, i) : i \in asking}
                          /\ \A i \in asking : \A k \in DOMAIN sent[i].calls :
                               sent[i + k].id = sent[i].calls[k].id
    BY DEF ConversationInv, RequestsAreWellFormed
  <2> DEFINE old == 1 .. Len(Initial)
             asking == {i \in DOMAIN sent \ old : sent[i].role = "assistant"}
             answering == {i \in DOMAIN sent \ old : sent[i].role = "tool"}
  <2>1. /\ sent \in Seq(Messages)
        /\ Len(sent) \in Nat
        /\ DOMAIN sent = 1 .. Len(sent)
        /\ Len(Initial) <= Len(sent)
        /\ \A i \in 1 .. Len(Initial) : sent[i] = Initial[i]
    BY LenProperties DEF WellFormed, Opens
  <2>2. Initial \in Seq(Messages) /\ Len(Initial) \in Nat
    BY InitialWellFormed, LenProperties DEF WellFormed, Opens
  <2>3. DOMAIN sent \ old = Added(sent)
    BY <2>1, <2>2 DEF Added
  <2>4. asking = Asking(sent)
    BY <2>3 DEF Asking
  <2>5. \A i \in asking : /\ DOMAIN sent[i].calls = 1 .. Len(sent[i].calls)
                          /\ Answered(sent, i, Len(sent[i].calls))
    BY <2>4, LenProperties DEF WellFormed, Settled, Calls
  <2>6. SubSeq(sent, 1, Len(Initial)) = Initial
    <3>1. \A i \in 1 .. Len(Initial) : sent[i] \in Messages
      BY <2>1, <2>2, ElementOfSeq
    <3>2. /\ SubSeq(sent, 1, Len(Initial)) \in Seq(Messages)
          /\ Len(SubSeq(sent, 1, Len(Initial))) = Len(Initial)
          /\ \A i \in 1 .. Len(Initial) : SubSeq(sent, 1, Len(Initial))[i] = sent[i]
      BY <2>2, <3>1, SubSeqProperties
    <3>3. QED
      BY <2>1, <2>2, <3>2, SeqEqual
  <2>7. answering = UNION {AnswersTo(sent, i) : i \in asking}
    <3>1. ASSUME NEW j \in answering
          PROVE  \E i \in asking : j \in AnswersTo(sent, i)
      <4>1. PICK i \in Asking(sent) : \E k \in 1 .. Len(sent[i].calls) : j = i + k
        BY <2>3 DEF WellFormed, NoOtherResults
      <4>2. QED
        BY <2>4, <2>5, <4>1 DEF AnswersTo
    <3>2. ASSUME NEW i \in asking, NEW j \in AnswersTo(sent, i)
          PROVE  j \in answering
      BY <2>3, <2>5 DEF AnswersTo, Answered
    <3>3. QED
      BY <3>1, <3>2
  <2>8. \A i \in asking : \A k \in DOMAIN sent[i].calls :
          sent[i + k].id = sent[i].calls[k].id
    BY <2>5 DEF Answered
  <2>9. QED
    BY <2>6, <2>7, <2>8
<1>2. QED
  BY <1>1, ConversationInvariant, PTL

-----------------------------------------------------------------------------
(***************************************************************************)
(* Induction by hand: the least number outside a set of numbers has all    *)
(* the numbers before it in the set.  With it, the recursive functions of  *)
(* the model are the functions their equations describe.                   *)
(***************************************************************************)

Less == {p \in Nat \X Nat : p[1] < p[2]}

LEMMA LessWF == IsWellFoundedOn(Less, Nat)
<1>1. OpToRel(<, Nat) = Less
  BY DEF OpToRel, Less
<1> QED
  BY <1>1, NatLessThanWellFounded

LEMMA UpTo ==
  ASSUME NEW N \in Nat, NEW T, 0 \in T, \A n \in 1 .. N : n - 1 \in T => n \in T
  PROVE  \A n \in 0 .. N : n \in T
<1> DEFINE outside == {n \in 0 .. N : n \notin T}
<1>1. CASE outside = {}
  BY <1>1
<1>2. CASE outside # {}
  <2>1. outside \in SUBSET Nat
    OBVIOUS
  <2>2. PICK x \in outside : \A y \in outside : ~ (<< y, x >> \in Less)
    BY <1>2, <2>1, LessWF, WFMin
  <2>3. x \in 1 .. N /\ x - 1 \in 0 .. N
    BY <2>2
  <2>4. << x - 1, x >> \in Less
    BY <2>3 DEF Less
  <2>5. x - 1 \in T
    BY <2>2, <2>3, <2>4
  <2>6. QED
    BY <2>2, <2>3, <2>5
<1>3. QED
  BY <1>1, <1>2

(* f starts with base on 0 .. N and goes on as step says.                  *)
Steps(N, V) == [1 .. N -> [V -> V]]
Follows(f, N, V, base, step) ==
  /\ f \in [0 .. N -> V]
  /\ f[0] = base
  /\ \A n \in 1 .. N : f[n] = step[n][f[n - 1]]

(* There is such a function.                                               *)
LEMMA Recursion ==
  ASSUME NEW N \in Nat, NEW V, NEW base \in V, NEW step \in Steps(N, V)
  PROVE  \E f : Follows(f, N, V, base, step)
<1> USE DEF Steps
<1> DEFINE Goes(n) == \E f \in [0 .. n -> V] :
                        f[0] = base /\ \A k \in 1 .. n : f[k] = step[k][f[k - 1]]
           T == {n \in 0 .. N : Goes(n)}
<1>1. 0 \in T
  <2>1. [k \in 0 .. 0 |-> base] \in [0 .. 0 -> V]
    OBVIOUS
  <2>2. Goes(0)
    <3>1. /\ [k \in 0 .. 0 |-> base][0] = base
          /\ \A k \in 1 .. 0 : [j \in 0 .. 0 |-> base][k] = step[k][[j \in 0 .. 0 |-> base][k - 1]]
      OBVIOUS
    <3> QED
      BY <2>1, <3>1
  <2> QED
    BY <2>2
<1>2. ASSUME NEW n \in 1 .. N, n - 1 \in T
      PROVE  n \in T
  <2>1. PICK f \in [0 .. n - 1 -> V] :
          f[0] = base /\ \A k \in 1 .. n - 1 : f[k] = step[k][f[k - 1]]
    BY <1>2
  <2> DEFINE g == [k \in 0 .. n |-> IF k = n THEN step[n][f[n - 1]] ELSE f[k]]
  <2>2. step[n][f[n - 1]] \in V
    OBVIOUS
  <2>3. g \in [0 .. n -> V]
    BY <2>2
  <2>4. g[0] = base /\ g[n] = step[n][f[n - 1]] /\ \A k \in 0 .. n - 1 : g[k] = f[k]
    BY <2>1
  <2>5. ASSUME NEW k \in 1 .. n PROVE g[k] = step[k][g[k - 1]]
    <3>1. g[k - 1] = f[k - 1]
      BY <2>4
    <3>2. k < n => g[k] = f[k] /\ f[k] = step[k][f[k - 1]]
      BY <2>1, <2>4
    <3>3. QED
      BY <2>4, <3>1, <3>2
  <2>6. Goes(n)
    BY <2>3, <2>4, <2>5
  <2> QED
    BY <2>6
<1> HIDE DEF T
<1>3. \A n \in 0 .. N : n \in T
  BY <1>1, <1>2, UpTo
<1>4. Goes(N)
  BY <1>3 DEF T
<1> QED
  BY <1>4 DEF Follows

-----------------------------------------------------------------------------
(***************************************************************************)
(* The size of the results.                                                *)
(***************************************************************************)

(* The sums of the beginnings of a sequence of lengths, the last of which  *)
(* is its total.                                                           *)
LEMMA TotalIsLastSum ==
  ASSUME NEW s \in Seq(Nat)
  PROVE  \E f \in [0 .. Len(s) -> Nat] :
           /\ f[0] = 0
           /\ \A n \in 1 .. Len(s) : f[n] = f[n - 1] + s[n]
           /\ Total(s) = f[Len(s)]
<1> DEFINE N == Len(s)
           Is(t) == t = [n \in 0 .. N |-> IF n = 0 THEN 0 ELSE t[n - 1] + s[n]]
           total == CHOOSE t : Is(t)
           step == [n \in 1 .. N |-> [x \in Nat |-> x + s[n]]]
<1>1. N \in Nat /\ \A n \in 1 .. N : s[n] \in Nat
  BY LenProperties, ElementOfSeq
<1>2. Total(s) = total[N]
  BY DEF Total
<1>3. step \in [1 .. N -> [Nat -> Nat]]
  BY <1>1
<1>4. \A n \in 1 .. N : \A x \in Nat : step[n][x] = x + s[n]
  OBVIOUS
<1> HIDE DEF step, N
<1>5. PICK f \in [0 .. N -> Nat] : f[0] = 0 /\ \A n \in 1 .. N : f[n] = step[n][f[n - 1]]
  <2>1. 0 \in Nat /\ step \in Steps(N, Nat)
    BY <1>3 DEF Steps
  <2>2. \E f : Follows(f, N, Nat, 0, step)
    BY <1>1, <2>1, Recursion
  <2>3. QED
    BY <2>2 DEF Follows
<1>6. ASSUME NEW n \in 1 .. N PROVE n - 1 \in 0 .. N /\ f[n] = f[n - 1] + s[n]
  <2>1. n - 1 \in 0 .. N
    BY <1>1
  <2>2. f[n - 1] \in Nat
    BY <1>5, <2>1
  <2>3. QED
    BY <1>4, <1>5, <2>1, <2>2
<1>7. Is(f)
  BY <1>1, <1>5, <1>6
<1>8. Is(total)
  BY <1>7
<1> HIDE DEF total
<1>9. total[0] = 0 /\ \A n \in 1 .. N : total[n] = total[n - 1] + s[n]
  BY <1>1, <1>8
<1> DEFINE T == {n \in 0 .. N : total[n] = f[n]}
<1>10. 0 \in T
  BY <1>1, <1>5, <1>9
<1>11. \A n \in 1 .. N : n - 1 \in T => n \in T
  BY <1>1, <1>6, <1>9
<1> HIDE DEF T
<1>12. \A n \in 0 .. N : n \in T
  BY <1>1, <1>10, <1>11, UpTo
<1>13. total[N] = f[N]
  BY <1>1, <1>12 DEF T
<1>14. QED
  BY <1>2, <1>5, <1>6, <1>13 DEF N

LEMMA TotalOfOneMore ==
  /\ Total(<< >>) = 0
  /\ \A s \in Seq(Nat) : \A len \in Nat :
       Total(s) \in Nat /\ Total(Append(s, len)) = Total(s) + len
<1>1. Total(<< >>) = 0
  <2>1. << >> \in Seq(Nat) /\ Len(<< >>) = 0
    BY EmptySeq
  <2>2. QED
    BY <2>1, TotalIsLastSum
<1>2. ASSUME NEW s \in Seq(Nat), NEW len \in Nat
      PROVE  Total(s) \in Nat /\ Total(Append(s, len)) = Total(s) + len
  <2> DEFINE N == Len(s)
             r == Append(s, len)
  <2>1. /\ N \in Nat
        /\ r \in Seq(Nat)
        /\ Len(r) = N + 1
        /\ r[N + 1] = len
        /\ \A n \in 1 .. N : r[n] = s[n]
    BY LenProperties, AppendProperties
  <2>2. PICK f \in [0 .. N -> Nat] :
          /\ f[0] = 0
          /\ \A n \in 1 .. N : f[n] = f[n - 1] + s[n]
          /\ Total(s) = f[N]
    BY TotalIsLastSum
  <2> HIDE DEF r
  <2>3. PICK g \in [0 .. Len(r) -> Nat] :
          /\ g[0] = 0
          /\ \A n \in 1 .. Len(r) : g[n] = g[n - 1] + r[n]
          /\ Total(r) = g[Len(r)]
    BY <2>1, TotalIsLastSum
  <2> HIDE DEF N
  <2> DEFINE T == {n \in 0 .. N : g[n] = f[n]}
  <2>4. 0 \in T
    BY <2>1, <2>2, <2>3
  <2>5. ASSUME NEW n \in 1 .. N, n - 1 \in T
        PROVE  n \in T
    <3>1. n \in 1 .. Len(r) /\ n \in 0 .. N
      BY <2>1
    <3>2. f[n] = f[n - 1] + s[n] /\ g[n] = g[n - 1] + r[n] /\ r[n] = s[n]
      BY <2>1, <2>2, <2>3, <3>1
    <3>3. QED
      BY <2>5, <3>1, <3>2
  <2> HIDE DEF T
  <2>6. \A n \in 0 .. N : n \in T
    BY <2>1, <2>4, <2>5, UpTo
  <2>7. g[N] = f[N]
    BY <2>1, <2>6 DEF T
  <2>8. g[N + 1] = g[N] + len
    BY <2>1, <2>3
  <2>9. QED
    BY <2>1, <2>2, <2>3, <2>7, <2>8 DEF r
<1>3. QED
  BY <1>1, <1>2

Lengths == [i \in DOMAIN dispatched |-> dispatched[i].len]

OutputInv ==
  /\ dispatched \in Seq(Results)
  /\ at # "returned" => toolOutputTotal = Total(Lengths)
  /\ OutputBounded

LEMMA LengthsOfOneMore ==
  ASSUME dispatched \in Seq(Results), NEW id \in STRING, NEW len \in 0 .. SizeMax,
         dispatched' = Append(dispatched, ToolMessage(id, len))
  PROVE  /\ dispatched' \in Seq(Results)
         /\ Lengths \in Seq(Nat)
         /\ Lengths' = Append(Lengths, len)
<1> DEFINE msg == ToolMessage(id, len)
           N == Len(dispatched)
<1>1. msg \in Results /\ msg.len = len
  BY DEF Results, ToolMessage
<1>2. \A r \in Results : r.len \in Nat
  BY LimitsAssumption DEF Results, ToolMessage
<1> HIDE DEF msg
<1>3. /\ N \in Nat
      /\ DOMAIN dispatched = 1 .. N
      /\ \A i \in 1 .. N : dispatched[i] \in Results
  BY LenProperties, ElementOfSeq
<1>4. /\ dispatched' \in Seq(Results)
      /\ Len(dispatched') = N + 1
      /\ DOMAIN dispatched' = 1 .. N + 1
      /\ dispatched'[N + 1] = msg
      /\ \A i \in 1 .. N : dispatched'[i] = dispatched[i]
  BY <1>1, AppendProperties, LenProperties DEF msg
<1>5. Lengths = [i \in 1 .. N |-> dispatched[i].len]
  BY <1>3 DEF Lengths
<1>6. Lengths' = [i \in 1 .. N + 1 |-> dispatched'[i].len]
  BY <1>4 DEF Lengths
<1>7. Lengths \in Seq(Nat) /\ Len(Lengths) = N
  BY <1>2, <1>3, <1>5
<1>8. Append(Lengths, len) = Lengths'
  <2>1. len \in Nat
    BY LimitsAssumption
  <2>2. /\ Append(Lengths, len) \in Seq(Nat)
        /\ Len(Append(Lengths, len)) = N + 1
        /\ \A i \in 1 .. N : Append(Lengths, len)[i] = Lengths[i]
        /\ Append(Lengths, len)[N + 1] = len
    BY <1>7, <2>1, AppendProperties
  <2>3. Lengths' \in Seq(Nat) /\ Len(Lengths') = N + 1
    BY <1>1, <1>2, <1>3, <1>4, <1>6
  <2>4. \A i \in 1 .. N + 1 : Append(Lengths, len)[i] = Lengths'[i]
    BY <1>1, <1>3, <1>4, <1>5, <1>6, <2>2
  <2>5. QED
    BY <2>2, <2>3, <2>4, SeqEqual
<1>9. QED
  BY <1>4, <1>7, <1>8

(* The id of the call to dispatch.                                         *)
LEMMA NextId ==
  ASSUME TypeInv, ConversationInv, Dispatching
  PROVE  next \in 1 .. Len(result) /\ IdOfCall(next) \in STRING
<1>1. result \in Calls /\ InTurn(history, result, next - 1)
  BY DEF ConversationInv, Dispatching
<1>2. next # 0
  <2>1. Len(history) \in Nat
    BY <1>1, LenProperties DEF InTurn, Opens
  <2>2. Len(history) - (next - 1) \in Added(history)
    BY <1>1 DEF InTurn, Asking
  <2>3. QED
    BY <2>1, <2>2 DEF Added
<1>3. next \in 1 .. Len(result)
  BY <1>1, <1>2, LenProperties DEF TypeInv, TypeOK, Calls, Dispatching
<1>4. result[next] \in [id : STRING, what : STRING, argsLen : 0 .. SizeMax]
  BY <1>1, <1>3, ElementOfSeq DEF Calls
<1>5. QED
  BY <1>3, <1>4 DEF IdOfCall

LEMMA OutputNext ==
  TypeInv /\ ConversationInv /\ OutputInv /\ [Next]_vars => OutputInv'
<1> SUFFICES ASSUME TypeInv, ConversationInv, OutputInv, [Next]_vars
             PROVE  OutputInv'
  OBVIOUS
<1>1. CASE OutputTaken
  <2>1. PICK len \in Outputs :
          /\ ~Exceeds(Counted(len), maxToolOutputTotal)
          /\ toolOutputTotal' = Counted(len)
          /\ dispatched' = Append(dispatched, ToolMessage(IdOfCall(next), len))
    BY <1>1 DEF OutputTaken
  <2>2. /\ at = "dispatch" /\ at' = at
        /\ limits' = limits
        /\ IdOfCall(next) \in STRING
        /\ len \in 0 .. SizeMax
    BY <1>1, NextId, ToolsAssumption DEF OutputTaken, Dispatching
  <2>3. /\ dispatched' \in Seq(Results)
        /\ Lengths \in Seq(Nat)
        /\ Lengths' = Append(Lengths, len)
    BY <2>1, <2>2, LengthsOfOneMore DEF OutputInv
  <2>4. Total(Lengths') = Total(Lengths) + len
    BY <2>2, <2>3, TotalOfOneMore, LimitsAssumption
  <2>5. Total(Lengths') = Counted(len)
    BY <2>2, <2>4 DEF OutputInv, Counted
  <2>6. OutputBounded'
    BY <2>1, <2>2, <2>5 DEF OutputBounded, Lengths, limits
  <2>7. QED
    BY <2>1, <2>3, <2>5, <2>6 DEF OutputInv, Lengths
<1>2. CASE /\ dispatched' = dispatched /\ limits' = limits
           /\ at # "returned" => at' = "returned" \/ toolOutputTotal' = toolOutputTotal
           /\ at = "returned" => at' = at
  BY <1>2 DEF OutputInv, OutputBounded, Lengths, limits
<1>3. CASE CopyFails \/ NoTurns \/ Copied \/ AbortSeen \/ Ask \/ ChatFails \/ AnswerFinal
  BY <1>2, <1>3 DEF CopyFails, NoTurns, Copied, AbortSeen, Ask, ChatFails, AnswerFinal, record
<1>4. CASE AnswerRefused \/ HistoryFails \/ TurnTaken \/ TurnDone
  BY <1>2, <1>4 DEF AnswerRefused, HistoryFails, TurnTaken, TurnDone, record
<1>5. CASE DispatchFails \/ OutputRefused \/ OutputLost
  BY <1>2, <1>5 DEF DispatchFails, OutputRefused, OutputLost, Return, Dispatching
<1>6. CASE RequestAbort
  BY <1>2, <1>6 DEF RequestAbort, record
<1>7. CASE UNCHANGED vars
  BY <1>2, <1>7 DEF vars, record
<1>8. QED
  BY <1>1, <1>3, <1>4, <1>5, <1>6, <1>7 DEF Next, Step

LEMMA OutputInit == Init => OutputInv
<1> SUFFICES ASSUME Init PROVE OutputInv
  OBVIOUS
<1>1. dispatched = << >> /\ dispatched \in Seq(Results)
  BY EmptySeq DEF Init
<1>2. Lengths = << >>
  BY <1>1 DEF Lengths
<1>3. Total(Lengths) = 0
  BY <1>2, TotalOfOneMore
<1>4. maxToolOutputTotal \in Nat /\ SizeMax \in Nat
  BY LimitsAssumption DEF Init
<1>5. OutputBounded
  BY <1>3, <1>4 DEF OutputBounded, Lengths, Exceeds
<1>6. QED
  BY <1>1, <1>3, <1>5 DEF Init, OutputInv

LEMMA OutputInvariant == Spec => []OutputInv
BY OutputInit, OutputNext, TypeInvariant, ConversationInvariant, PTL DEF Spec

(* The results accepted in all turns together stay within the limit, and   *)
(* their sum within a size_t, for every limit and width.                   *)
THEOREM OutputWithinLimit == Spec => []OutputBounded
BY OutputInvariant, PTL DEF OutputInv

-----------------------------------------------------------------------------
(***************************************************************************)
(* The results and the requests.                                           *)
(***************************************************************************)

(* The tool messages of the beginnings of m, the last of which is m.       *)
LEMMA ToolMessagesIsLastSelection ==
  ASSUME NEW m \in Seq(Messages)
  PROVE  \E f \in [0 .. Len(m) -> Seq(Messages)] :
           /\ f[0] = << >>
           /\ \A n \in 1 .. Len(m) :
                f[n] = IF m[n].role = "tool" THEN Append(f[n - 1], m[n]) ELSE f[n - 1]
           /\ ToolMessages(m) = f[Len(m)]
<1> DEFINE N == Len(m)
           V == Seq(Messages)
           Val(t, n) == IF n = 0 THEN << >>
                        ELSE IF m[n].role = "tool" THEN Append(t[n - 1], m[n])
                        ELSE t[n - 1]
           Is(t) == t = [n \in 0 .. N |-> Val(t, n)]
           selected == CHOOSE t : Is(t)
           step == [n \in 1 .. N |->
                     [x \in V |-> IF m[n].role = "tool" THEN Append(x, m[n]) ELSE x]]
<1>1. N \in Nat /\ \A n \in 1 .. N : m[n] \in Messages
  BY LenProperties, ElementOfSeq
<1>2. ToolMessages(m) = selected[N]
  BY DEF ToolMessages
<1>3. step \in [1 .. N -> [V -> V]]
  BY <1>1, AppendProperties
<1>4. \A n \in 1 .. N : \A x \in V :
        step[n][x] = IF m[n].role = "tool" THEN Append(x, m[n]) ELSE x
  OBVIOUS
<1> HIDE DEF step, N
<1>5. PICK f \in [0 .. N -> V] : f[0] = << >> /\ \A n \in 1 .. N : f[n] = step[n][f[n - 1]]
  <2>1. << >> \in V /\ step \in Steps(N, V)
    BY <1>3, EmptySeq DEF Steps
  <2>2. \E f : Follows(f, N, V, << >>, step)
    BY <1>1, <2>1, Recursion
  <2>3. QED
    BY <2>2 DEF Follows
<1> HIDE DEF V
<1>6. ASSUME NEW n \in 1 .. N
      PROVE  /\ n - 1 \in 0 .. N
             /\ f[n] = IF m[n].role = "tool" THEN Append(f[n - 1], m[n]) ELSE f[n - 1]
  <2>1. n - 1 \in 0 .. N
    BY <1>1
  <2>2. f[n - 1] \in V
    BY <1>5, <2>1
  <2>3. QED
    BY <1>4, <1>5, <2>1, <2>2
<1>7. Is(f)
  <2>1. \A n \in 0 .. N : n = 0 \/ n \in 1 .. N
    BY <1>1
  <2>2. \A n \in 0 .. N : f[n] = Val(f, n)
    BY <1>5, <1>6, <2>1
  <2> HIDE DEF Val
  <2>3. QED
    BY <1>5, <2>2
<1>8. Is(selected)
  <2> HIDE DEF Val
  <2>1. QED
    BY <1>7
<1> HIDE DEF selected
<1>9. /\ selected[0] = << >>
      /\ \A n \in 1 .. N :
           selected[n] = IF m[n].role = "tool" THEN Append(selected[n - 1], m[n])
                         ELSE selected[n - 1]
  <2>1. \A n \in 0 .. N : selected[n] = Val(selected, n)
    <3> HIDE DEF Val
    <3>1. QED
      BY <1>8
  <2>2. 0 \in 0 .. N /\ \A n \in 1 .. N : n \in 0 .. N /\ n # 0
    BY <1>1
  <2>3. QED
    BY <2>1, <2>2
<1> DEFINE T == {n \in 0 .. N : selected[n] = f[n]}
<1>10. 0 \in T
  BY <1>1, <1>5, <1>9
<1>11. \A n \in 1 .. N : n - 1 \in T => n \in T
  BY <1>1, <1>6, <1>9
<1> HIDE DEF T
<1>12. \A n \in 0 .. N : n \in T
  BY <1>1, <1>10, <1>11, UpTo
<1>13. selected[N] = f[N]
  BY <1>1, <1>12 DEF T
<1>14. QED
  BY <1>2, <1>5, <1>6, <1>13 DEF N, V

LEMMA ToolMessagesOfOneMore ==
  /\ ToolMessages(<< >>) = << >>
  /\ \A m \in Seq(Messages) : \A msg \in Messages :
       ToolMessages(Append(m, msg)) =
         IF msg.role = "tool" THEN Append(ToolMessages(m), msg) ELSE ToolMessages(m)
<1>1. ToolMessages(<< >>) = << >>
  <2>1. << >> \in Seq(Messages) /\ Len(<< >>) = 0
    BY EmptySeq
  <2>2. QED
    BY <2>1, ToolMessagesIsLastSelection
<1>2. ASSUME NEW m \in Seq(Messages), NEW msg \in Messages
      PROVE  ToolMessages(Append(m, msg)) =
               IF msg.role = "tool" THEN Append(ToolMessages(m), msg) ELSE ToolMessages(m)
  <2> DEFINE N == Len(m)
             r == Append(m, msg)
  <2>1. /\ N \in Nat
        /\ r \in Seq(Messages)
        /\ Len(r) = N + 1
        /\ r[N + 1] = msg
        /\ \A n \in 1 .. N : r[n] = m[n]
    BY LenProperties, AppendProperties
  <2>2. PICK f \in [0 .. N -> Seq(Messages)] :
          /\ f[0] = << >>
          /\ \A n \in 1 .. N :
               f[n] = IF m[n].role = "tool" THEN Append(f[n - 1], m[n]) ELSE f[n - 1]
          /\ ToolMessages(m) = f[N]
    BY ToolMessagesIsLastSelection
  <2> HIDE DEF r
  <2>3. PICK g \in [0 .. Len(r) -> Seq(Messages)] :
          /\ g[0] = << >>
          /\ \A n \in 1 .. Len(r) :
               g[n] = IF r[n].role = "tool" THEN Append(g[n - 1], r[n]) ELSE g[n - 1]
          /\ ToolMessages(r) = g[Len(r)]
    BY <2>1, ToolMessagesIsLastSelection
  <2> HIDE DEF N
  <2> DEFINE T == {n \in 0 .. N : g[n] = f[n]}
  <2>4. 0 \in T
    BY <2>1, <2>2, <2>3
  <2>5. ASSUME NEW n \in 1 .. N, n - 1 \in T
        PROVE  n \in T
    <3>1. n \in 1 .. Len(r) /\ n \in 0 .. N /\ r[n] = m[n]
      BY <2>1
    <3>2. g[n - 1] = f[n - 1]
      BY <2>5
    <3>3. g[n] = f[n]
      BY <2>2, <2>3, <3>1, <3>2
    <3>4. QED
      BY <3>1, <3>3
  <2> HIDE DEF T
  <2>6. \A n \in 0 .. N : n \in T
    BY <2>1, <2>4, <2>5, UpTo
  <2>7. g[N] = f[N]
    BY <2>1, <2>6 DEF T
  <2>8. g[N + 1] = IF msg.role = "tool" THEN Append(g[N], msg) ELSE g[N]
    <3>1. N + 1 \in 1 .. Len(r) /\ (N + 1) - 1 = N
      BY <2>1
    <3>2. QED
      BY <2>1, <2>3, <3>1
  <2>9. QED
    BY <2>1, <2>2, <2>3, <2>7, <2>8 DEF r
<1>3. QED
  BY <1>1, <1>2

(* The messages after the caller's.                                        *)
New(m) == SubSeq(m, Len(Initial) + 1, Len(m))

LEMMA NewOfOneMore ==
  ASSUME NEW m, Opens(m), NEW msg \in Messages
  PROVE  New(m) \in Seq(Messages) /\ New(Append(m, msg)) = Append(New(m), msg)
<1> DEFINE B == Len(Initial)
           N == Len(m)
           r == Append(m, msg)
<1>1. B \in Nat /\ N \in Nat /\ B <= N /\ \A i \in 1 .. N : m[i] \in Messages
  BY InitialAssumption, LenProperties, ElementOfSeq DEF Opens
<1>2. /\ r \in Seq(Messages)
      /\ Len(r) = N + 1
      /\ r[N + 1] = msg
      /\ \A i \in 1 .. N : r[i] = m[i]
  BY AppendProperties DEF Opens
<1> HIDE DEF B, N, r
<1>3. \A i \in B + 1 .. N : m[i] \in Messages
  BY <1>1
<1>4. /\ SubSeq(m, B + 1, N) \in Seq(Messages)
      /\ Len(SubSeq(m, B + 1, N)) = IF B + 1 <= N THEN N - (B + 1) + 1 ELSE 0
      /\ \A i \in 1 .. N - (B + 1) + 1 : SubSeq(m, B + 1, N)[i] = m[B + 1 + i - 1]
  BY <1>1, <1>3, SubSeqProperties
<1>5. \A i \in B + 1 .. N + 1 : r[i] \in Messages
  BY <1>1, <1>2
<1>6. /\ SubSeq(r, B + 1, N + 1) \in Seq(Messages)
      /\ Len(SubSeq(r, B + 1, N + 1)) = IF B + 1 <= N + 1 THEN N + 1 - (B + 1) + 1 ELSE 0
      /\ \A i \in 1 .. N + 1 - (B + 1) + 1 : SubSeq(r, B + 1, N + 1)[i] = r[B + 1 + i - 1]
  BY <1>1, <1>5, SubSeqProperties
<1>7. Len(New(m)) = N - B /\ New(m) \in Seq(Messages)
  BY <1>1, <1>4 DEF New, B, N
<1>8. /\ Append(New(m), msg) \in Seq(Messages)
      /\ Len(Append(New(m), msg)) = N - B + 1
      /\ \A i \in 1 .. N - B : Append(New(m), msg)[i] = New(m)[i]
      /\ Append(New(m), msg)[N - B + 1] = msg
  BY <1>7, AppendProperties
<1>9. New(r) = SubSeq(r, B + 1, N + 1) /\ New(m) = SubSeq(m, B + 1, N)
  BY <1>2 DEF New, B, N
<1>10. Len(New(r)) = N - B + 1 /\ New(r) \in Seq(Messages)
  BY <1>1, <1>6, <1>9
<1>11. ASSUME NEW i \in 1 .. N - B + 1
       PROVE  New(r)[i] = Append(New(m), msg)[i]
  <2>1. New(r)[i] = r[B + i]
    BY <1>1, <1>6, <1>9
  <2>2. CASE i = N - B + 1
    BY <1>1, <1>2, <1>8, <2>1, <2>2
  <2>3. CASE i # N - B + 1
    <3>1. i \in 1 .. N - B /\ B + i \in 1 .. N
      BY <1>1, <2>3
    <3>2. New(m)[i] = m[B + i]
      BY <1>1, <1>4, <1>9, <3>1
    <3>3. QED
      BY <1>2, <1>8, <2>1, <3>1, <3>2
  <2>4. QED
    BY <2>2, <2>3
<1>12. New(r) = Append(New(m), msg)
  BY <1>8, <1>10, <1>11, SeqEqual
<1>13. QED
  BY <1>7, <1>12 DEF r

(* What was dispatched is in the conversation.                             *)
ReachInv ==
  /\ at = "start" => dispatched = << >>
  /\ at \in {"poll", "asked", "dispatch"} => ToolMessages(New(history)) = dispatched
  /\ at # "returned" => err = "pending" /\ cause = "none"
  /\ ResultsReachTheModel

LEMMA ReachNext == TypeInv /\ ConversationInv /\ ReachInv /\ [Next]_vars => ReachInv'
<1> SUFFICES ASSUME TypeInv, ConversationInv, ReachInv, [Next]_vars
             PROVE  ReachInv'
  OBVIOUS
<1>1. ASSUME NEW code \in {"CANCELLED", "FAILED"}, NEW why, NEW last,
             why \notin {"final", "no calls", "turns", "arguments", "repeat"},
             Return(code, why, last)
      PROVE  ReachInv'
  BY <1>1 DEF Return, ReachInv, ResultsReachTheModel
<1>2. ASSUME NEW code, NEW why, NEW last, Return(code, why, last),
             code = "NONE" => why = "final",
             at = "asked", sent' = sent, dispatched' = dispatched
      PROVE  ReachInv'
  <2>1. sent = history
    BY <1>2 DEF ConversationInv
  <2>2. ToolMessages(New(sent)) = dispatched
    BY <1>2, <2>1 DEF ReachInv
  <2>3. ToolMessages(SubSeq(sent', Len(Initial) + 1, Len(sent'))) = dispatched'
    BY <1>2, <2>2 DEF New
  <2>4. ResultsReachTheModel'
    BY <1>2, <2>3 DEF Return, ResultsReachTheModel
  <2>5. QED
    BY <1>2, <2>4 DEF Return, ReachInv
<1>3. CASE CopyFails \/ AbortSeen \/ ChatFails \/ HistoryFails
  BY <1>1, <1>3 DEF CopyFails, AbortSeen, ChatFails, HistoryFails
<1>4. CASE DispatchFails \/ OutputRefused \/ OutputLost
  BY <1>1, <1>4 DEF DispatchFails, OutputRefused, OutputLost
<1>5. CASE NoTurns
  <2>1. maxTurns' = 0
    BY <1>5 DEF NoTurns, limits
  <2>2. QED
    BY <1>5, <2>1 DEF NoTurns, Return, ReachInv, ResultsReachTheModel
<1>6. CASE Copied
  <2>1. InitialAssumption /\ Len(Initial) \in Nat
    BY InitialAssumption, LenProperties
  <2>2. New(Initial) = << >>
    BY <2>1, SubSeqEmpty DEF New
  <2>3. ToolMessages(New(history')) = dispatched'
    BY <1>6, <2>2, ToolMessagesOfOneMore DEF Copied, ReachInv, record
  <2>4. QED
    BY <1>6, <2>3 DEF Copied, ReachInv, ResultsReachTheModel, record
<1>7. CASE Ask
  BY <1>7 DEF Ask, ReachInv, ResultsReachTheModel
<1>8. CASE AnswerFinal
  BY <1>2, <1>8 DEF AnswerFinal, record
<1>9. CASE AnswerRefused
  <2>1. PICK a \in Answers : Return("FAILED", Refusal(a), lastError)
    BY <1>9 DEF AnswerRefused
  <2>2. QED
    BY <1>2, <1>9, <2>1 DEF AnswerRefused, record
<1>10. CASE TurnTaken
  <2>1. PICK a \in Answers : history' = Append(history, AssistantMessage(a))
    BY <1>10 DEF TurnTaken
  <2>2. AssistantMessage(a) \in Messages /\ AssistantMessage(a).role # "tool"
    BY DEF Messages, Asks, AssistantMessage
  <2>3. Opens(history)
    BY <1>10 DEF TurnTaken, ConversationInv, WellFormed
  <2>4. ToolMessages(New(history')) = ToolMessages(New(history))
    BY <2>1, <2>2, <2>3, NewOfOneMore, ToolMessagesOfOneMore
  <2>5. QED
    BY <1>10, <2>4 DEF TurnTaken, ReachInv, ResultsReachTheModel
<1>11. CASE OutputTaken
  <2>1. PICK len \in Outputs :
          /\ history' = Append(history, ToolMessage(IdOfCall(next), len))
          /\ dispatched' = Append(dispatched, ToolMessage(IdOfCall(next), len))
    BY <1>11 DEF OutputTaken
  <2> DEFINE msg == ToolMessage(IdOfCall(next), len)
  <2>2. msg \in Messages /\ msg.role = "tool"
    <3>1. IdOfCall(next) \in STRING /\ len \in 0 .. SizeMax
      BY <1>11, NextId, ToolsAssumption DEF OutputTaken
    <3>2. msg \in Results
      BY <3>1 DEF Results
    <3>3. QED
      BY <3>2 DEF Messages, ToolMessage
  <2> HIDE DEF msg
  <2>3. Opens(history)
    BY <1>11 DEF OutputTaken, Dispatching, ConversationInv, InTurn
  <2>4. ToolMessages(New(Append(history, msg))) = Append(ToolMessages(New(history)), msg)
    BY <2>2, <2>3, NewOfOneMore, ToolMessagesOfOneMore
  <2>5. ToolMessages(New(history')) = dispatched'
    BY <1>11, <2>1, <2>4 DEF OutputTaken, Dispatching, ReachInv, msg
  <2>6. at = "dispatch" /\ at' = at /\ err' = err /\ cause' = cause
    BY <1>11 DEF OutputTaken, Dispatching
  <2>7. QED
    BY <2>5, <2>6 DEF ReachInv, ResultsReachTheModel
<1>12. CASE TurnDone
  <2>1. at' = "poll" /\ history' = history /\ err' = err /\ cause' = cause
    BY <1>12, LimitsAssumption DEF TurnDone, TypeInv, TypeOK, InTurns
  <2>2. QED
    BY <1>12, <2>1 DEF TurnDone, ReachInv, ResultsReachTheModel, record
<1>13. CASE RequestAbort
  BY <1>13 DEF RequestAbort, ReachInv, ResultsReachTheModel, record, limits
<1>14. CASE UNCHANGED vars
  BY <1>14 DEF vars, ReachInv, ResultsReachTheModel, record, limits
<1>15. QED
  BY <1>3, <1>4, <1>5, <1>6, <1>7, <1>8, <1>9, <1>10, <1>11, <1>12, <1>13, <1>14
  DEF Next, Step

(* No tool runs in vain: when the loop ends on an answer, every result     *)
(* that was accepted has been sent to the model, each once and in order,   *)
(* and no error is returned only after the model's last word.              *)
THEOREM ResultsReach == Spec => []ResultsReachTheModel
<1>1. Init => ReachInv
  BY DEF Init, ReachInv, ResultsReachTheModel
<1>2. Spec => []ReachInv
  BY <1>1, ReachNext, TypeInvariant, ConversationInvariant, PTL DEF Spec
<1>3. QED
  BY <1>2, PTL DEF ReachInv
=============================================================================
