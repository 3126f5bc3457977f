---------------------------- MODULE RequestsProofs ----------------------------
(***************************************************************************)
(* The bodies of responses have one owner each, for every number of calls, *)
(* every way to cut a body and every limit; and the state has its types.   *)
(***************************************************************************)
EXTENDS Requests, TLAPS

InCall == at \in {"begun", "transfer", "answered"}

LEMMA FilledParts ==
  ASSUME NEW code, NEW stage, NEW http, NEW body
  PROVE  /\ Filled(code, stage, http, body).body = body
         /\ Filled(code, stage, http, body).code = code
         /\ Filled(code, stage, http, body).spans \in {NoBlock, body}
  BY DEF Filled

LEMMA Emptiness == Empty.body = NoBlock /\ Empty.spans = NoBlock /\ Empty.code = "NONE"
  BY DEF Empty

(* A new block is not the one that stands for none, and a block per use.   *)
LEMMA NewBlocks ==
  /\ New("body") # NoBlock /\ New("copy") # NoBlock /\ New("models") # NoBlock
  /\ New("copy") # New("body") /\ New("models") # New("body")
  BY DEF New, NoBlock

-----------------------------------------------------------------------------
(***************************************************************************)
(* Types.                                                                  *)
(***************************************************************************)

TypeInv == TypeOK /\ (InCall => call > 0)

LEMMA FilledType ==
  ASSUME received \in 0 .. ReceiveBound,
         NEW code \in Codes, NEW stage \in Stages, NEW http \in Statuses,
         NEW body \in Block \cup {NoBlock}, buffer \in Block \cup {NoBlock}
  PROVE  Filled(code, stage, http, body) \in DetailType
<1>1. 0 \in 0 .. ReceiveBound
  BY BoundsAssumption
<1> QED
  BY <1>1 DEF Filled, DetailType

LEMMA EmptyType == Empty \in DetailType
<1>1. 0 \in 0 .. ReceiveBound
  BY BoundsAssumption
<1> QED
  BY <1>1 DEF Empty, DetailType, Codes, Stages, Statuses

LEMMA NewType ==
  ASSUME TypeInv, InCall
  PROVE  /\ New("body") \in Block /\ New("copy") \in Block /\ New("models") \in Block
<1>1. call \in 1 .. CallBound
  BY BoundsAssumption DEF TypeInv, TypeOK
<1> QED
  BY <1>1 DEF New, Block

LEMMA MemoryType ==
  ASSUME TypeOK, NEW freed, NEW allocated \in SUBSET Block, Memory(freed, allocated)
  PROVE  heap' \subseteq Block /\ badFree' \in BOOLEAN
  BY DEF TypeOK, Memory

LEMMA FailsType ==
  ASSUME TypeInv, InCall, NEW extra,
         NEW code \in Codes, NEW stage \in Stages, NEW http \in Statuses,
         NEW body \in {NoBlock, buffer},
         Fails(code, stage, http, body, extra)
  PROVE  TypeInv'
<1> USE DEF TypeInv
<1>1. body \in Block \cup {NoBlock} /\ buffer \in Block \cup {NoBlock}
  BY DEF TypeOK
<1>2. \A b \in {NoBlock, New("copy"), body} : Filled(code, stage, http, b) \in DetailType
  BY <1>1, FilledType, NewType DEF TypeOK
<1>3. Copies(body) \subseteq {NoBlock, New("copy")}
  BY DEF Copies
<1>4. detail' \in DetailType /\ lastError' \in DetailType
  BY <1>2, <1>3 DEF Fails, Capture, TypeOK
<1>5. heap' \subseteq Block /\ badFree' \in BOOLEAN
  <2>1. \A copy \in Copies(body) : {copy} \ {NoBlock} \in SUBSET Block
    BY <1>3, NewType
  <2>2. {} \in SUBSET Block
    OBVIOUS
  <2>3. \E freed : \E allocated \in SUBSET Block : Memory(freed, allocated)
    BY <2>1, <2>2 DEF Fails, Capture, Unchanged
  <2> QED
    BY <2>3, MemoryType
<1>6. outOfMemory' \in BOOLEAN
  BY DEF Fails, Capture, TypeOK
<1> QED
  BY <1>4, <1>5, <1>6, BoundsAssumption DEF Fails, Returns, InCall, TypeOK, arguments

LEMMA TypeInit == Init => TypeInv
<1>1. {0, 1} \ {1} = {0} /\ 0 \in 0 .. ReceiveBound /\ 0 \in 0 .. CallBound
  BY BoundsAssumption
<1> QED
  BY <1>1, EmptyType DEF Init, TypeInv, TypeOK, InCall, Ops, Streams, Statuses, Codes

LEMMA SucceedsType ==
  ASSUME TypeInv, NEW what, Succeeds(what), Keeps \/ Drops
  PROVE  TypeInv'
<1>1. heap' \subseteq Block /\ badFree' \in BOOLEAN
  <2>1. \E freed : Memory(freed, {})
    BY DEF Keeps, Drops, Unchanged
  <2> QED
    BY <2>1, MemoryType DEF TypeInv
<1>2. result' \in Block \cup {NoBlock}
  BY DEF Keeps, Drops, TypeInv, TypeOK
<1> QED
  BY <1>1, <1>2 DEF Succeeds, Returns, TypeInv, TypeOK, InCall, arguments, Codes

LEMMA TypeNext == TypeInv /\ [Next]_vars => TypeInv'
<1> SUFFICES ASSUME TypeInv, [Next]_vars PROVE TypeInv'
  OBVIOUS
<1>1. ASSUME NEW o \in Ops, NEW withDetail \in BOOLEAN, Begin(o, withDetail) PROVE TypeInv'
  <2>1. heap' \subseteq Block /\ badFree' \in BOOLEAN
    <3>1. \E freed : Memory(freed, {})
      BY <1>1 DEF Begin, Unchanged
    <3> QED
      BY <3>1, MemoryType DEF TypeInv
  <2>2. call' \in 0 .. CallBound /\ call' > 0 /\ 0 \in 0 .. ReceiveBound
    BY <1>1, BoundsAssumption DEF Begin, TypeInv, TypeOK
  <2>3. detail' \in DetailType /\ lastError' \in DetailType
    BY <1>1, EmptyType DEF Begin, TypeInv, TypeOK
  <2> QED
    BY <1>1, <2>1, <2>2, <2>3 DEF Begin, TypeInv, TypeOK, InCall, Statuses, Codes
<1>2. CASE SetupFails
  BY <1>2, FailsType DEF SetupFails, InCall, Codes, Stages, Statuses
<1>3. CASE NoHandle
  <2>1. PICK tls \in BOOLEAN, http \in {"none", "garbage"} :
          Fails("FAILED", Stage(tls), http, NoBlock, {})
    BY <1>3 DEF NoHandle
  <2> QED
    BY <1>3, <2>1, FailsType DEF NoHandle, InCall, Codes, Stage, Stages, Statuses
<1>4. CASE Perform
  <2>1. InCall
    BY <1>4 DEF Perform, InCall
  <2>2. heap' \subseteq Block /\ badFree' \in BOOLEAN
    <3>1. CASE Memory({}, {New("body")})
      BY <2>1, <3>1, NewType, MemoryType DEF TypeInv
    <3>2. CASE UNCHANGED << heap, badFree >>
      BY <3>2 DEF TypeInv, TypeOK
    <3> QED
      BY <1>4, <3>1, <3>2 DEF Perform
  <2>3. buffer' \in Block \cup {NoBlock} /\ outOfMemory' \in BOOLEAN
    BY <1>4, <2>1, NewType DEF Perform, TypeInv, TypeOK
  <2> QED
    BY <1>4, <2>1, <2>2, <2>3 DEF Perform, TypeInv, TypeOK, InCall, arguments, owners
<1>5. ASSUME NEW n \in ChunkLengths, Receive(n) PROVE TypeInv'
  <2>1. received' \in 0 .. ReceiveBound
    BY <1>5, BoundsAssumption DEF Receive, TypeInv, TypeOK
  <2> QED
    BY <1>5, <2>1 DEF Receive, TypeInv, TypeOK, InCall, arguments, owners
<1>6. ASSUME NEW n \in ChunkLengths, CaptureLost(n) PROVE TypeInv'
  <2>1. received' \in 0 .. ReceiveBound
    BY <1>6, BoundsAssumption DEF CaptureLost, TypeInv, TypeOK
  <2>2. heap' \subseteq Block /\ badFree' \in BOOLEAN
    BY <1>6, MemoryType DEF CaptureLost, Unchanged, TypeInv
  <2> QED
    BY <1>6, <2>1, <2>2 DEF CaptureLost, TypeInv, TypeOK, InCall, arguments, owners
<1>7. CASE TransferFails
  <2>1. PICK tls \in BOOLEAN : Fails("FAILED", Stage(tls), "none", NoBlock, {buffer})
    BY <1>7 DEF TransferFails
  <2> QED
    BY <1>7, <2>1, FailsType DEF TransferFails, InCall, Codes, Stage, Stages, Statuses
<1>8. CASE StreamStops
  <2>1. PICK code \in Codes, stage \in Stages : Fails(code, stage, "none", NoBlock, {buffer})
    BY <1>8 DEF StreamStops, Codes, Stages
  <2> QED
    BY <1>8, <2>1, FailsType DEF StreamStops, InCall, Statuses
<1>9. CASE TransferEnds
  <2>1. status' \in Statuses \ {"garbage"}
    BY <1>9 DEF TransferEnds, Statuses
  <2>2. describesItself' \in BOOLEAN
    <3>1. describesItself' \in {FALSE, received > 0}
      BY <1>9 DEF TransferEnds
    <3>2. (received > 0) \in BOOLEAN
      BY DEF TypeInv, TypeOK
    <3> QED
      BY <3>1, <3>2, Zenon
  <2>3. toolCallsFail' \in BOOLEAN
    <3>1. toolCallsFail' \in {FALSE, op = "chat_stream" /\ received > 0}
      BY <1>9 DEF TransferEnds
    <3>2. (op = "chat_stream" /\ received > 0) \in BOOLEAN
      BY DEF TypeInv, TypeOK
    <3> QED
      BY <3>1, <3>2, Zenon
  <2> QED
    BY <1>9, <2>1, <2>2, <2>3 DEF TransferEnds, TypeInv, TypeOK, InCall, arguments, owners
<1>10. CASE ChatStreamFails
  <2>1. PICK code \in Codes, stage \in Stages : Fails(code, stage, status, NoBlock, {buffer})
    BY <1>10 DEF ChatStreamFails, Codes, Stages
  <2>2. status \in Statuses
    BY DEF TypeInv, TypeOK
  <2> QED
    BY <1>10, <2>1, <2>2, FailsType DEF ChatStreamFails, InCall
<1>11. CASE HttpError
  <2>1. status \in Statuses
    BY DEF TypeInv, TypeOK
  <2> QED
    BY <1>11, <2>1, FailsType DEF HttpError, InCall, Codes, Stages
<1>12. CASE ParseFails
  <2>1. PICK stage \in Stages : Fails("FAILED", stage, status, buffer, {})
    BY <1>12 DEF ParseFails, Stages
  <2>2. status \in Statuses
    BY DEF TypeInv, TypeOK
  <2> QED
    BY <1>12, <2>1, <2>2, FailsType DEF ParseFails, InCall, Codes
<1>13. CASE HealthEnds \/ StreamEnds \/ PropsEnd \/ ParsedEnds
  BY <1>13, SucceedsType DEF HealthEnds, StreamEnds, PropsEnd, ParsedEnds
<1>14. CASE ModelsEnd
  <2>1. CASE Drops
    BY <1>14, <2>1, SucceedsType DEF ModelsEnd
  <2>2. CASE result' = New("models") /\ Memory({buffer}, {New("models")})
    <3>1. InCall
      BY <1>14 DEF ModelsEnd, Succeeds, InCall
    <3>2. heap' \subseteq Block /\ badFree' \in BOOLEAN
      BY <2>2, <3>1, NewType, MemoryType DEF TypeInv
    <3> QED
      BY <1>14, <2>2, <3>1, <3>2, NewType
      DEF ModelsEnd, Succeeds, Returns, TypeInv, TypeOK, InCall, arguments, Codes
  <2> QED
    BY <1>14, <2>1, <2>2 DEF ModelsEnd
<1>15. CASE FreeDetail
  <2>1. heap' \subseteq Block /\ badFree' \in BOOLEAN
    BY <1>15, MemoryType DEF FreeDetail, Unchanged, TypeInv
  <2> QED
    BY <1>15, <2>1, EmptyType DEF FreeDetail, TypeInv, TypeOK, InCall, response
<1>16. CASE FreeResult
  <2>1. heap' \subseteq Block /\ badFree' \in BOOLEAN
    BY <1>16, MemoryType DEF FreeResult, Unchanged, TypeInv
  <2> QED
    BY <1>16, <2>1 DEF FreeResult, TypeInv, TypeOK, InCall, response, arguments
<1>17. CASE Destroy
  <2>1. heap' \subseteq Block /\ badFree' \in BOOLEAN
    BY <1>17, MemoryType DEF Destroy, Unchanged, TypeInv
  <2> QED
    BY <1>17, <2>1, EmptyType DEF Destroy, TypeInv, TypeOK, InCall, response, arguments
<1>18. CASE UNCHANGED vars
  BY <1>18 DEF vars, arguments, response, owners, TypeInv, TypeOK, InCall
<1> QED
  BY <1>1, <1>2, <1>3, <1>4, <1>5, <1>6, <1>7, <1>8, <1>9, <1>10, <1>11, <1>12, <1>13,
     <1>14, <1>15, <1>16, <1>17, <1>18 DEF Next

LEMMA TypeInvariant == Spec => []TypeInv
<1>1. Init => TypeInv
  BY TypeInit
<1>2. TypeInv /\ [Next]_vars => TypeInv'
  BY TypeNext
<1> QED
  BY <1>1, <1>2, PTL DEF Spec

(* The client's and the caller's state has its types, for every number of  *)
(* calls and every length of the pieces of a body (src/src/llm.c).         *)
THEOREM TypeCorrect == Spec => []TypeOK
<1>1. TypeInv => TypeOK
  BY DEF TypeInv
<1> QED
  BY <1>1, TypeInvariant, PTL

-----------------------------------------------------------------------------
(***************************************************************************)
(* Ownership.  During a call the heap holds the body that is arriving and  *)
(* what a detail that was not passed still has of an earlier call: the     *)
(* blocks the call allocates are new ones.                                 *)
(***************************************************************************)

OwnersApart(d, l, r, b) ==
  /\ d = l => d = NoBlock
  /\ d = r => d = NoBlock
  /\ d = b => d = NoBlock
  /\ l = r => l = NoBlock
  /\ l = b => l = NoBlock
  /\ r = b => r = NoBlock

OneOwner(h, d, l, r, b) == h = {d, l, r, b} \ {NoBlock} /\ OwnersApart(d, l, r, b)

CallInv ==
  /\ ~InCall \/ at = "begun" => buffer = NoBlock
  /\ InCall =>
       /\ result = NoBlock
       /\ hasDetail => detail.body = NoBlock
       /\ lastError.body = NoBlock
       /\ buffer \in {NoBlock, New("body")}
       /\ \A holds : detail.body # New(holds)
  /\ ~lastErrorEnabled => lastError.body = NoBlock

Fresh == \A b \in heap : b.call <= call

OwnInv ==
  /\ ~badFree
  /\ OneOwner(heap, detail.body, lastError.body, result, buffer)
  /\ CallInv
  /\ Fresh

LEMMA Restated == OwnInv => BlocksHaveOneOwner
<1> SUFFICES ASSUME OwnInv PROVE BlocksHaveOneOwner
  OBVIOUS
<1>1. DOMAIN Owned = 1 .. 4
  BY DEF Owned
<1>2. /\ Owned[1] = detail.body /\ Owned[2] = lastError.body
      /\ Owned[3] = result /\ Owned[4] = buffer
  BY DEF Owned
<1>3. heap = {Owned[i] : i \in DOMAIN Owned} \ {NoBlock}
  BY <1>1, <1>2 DEF OwnInv, OneOwner
<1>4. \A i, j \in DOMAIN Owned : Owned[i] = Owned[j] => i = j \/ Owned[i] = NoBlock
  BY <1>1, <1>2 DEF OwnInv, OneOwner, OwnersApart
<1> QED
  BY <1>3, <1>4 DEF OwnInv, BlocksHaveOneOwner

(* A failing call gives its body away, or frees it.                        *)
LEMMA FailsOwners ==
  ASSUME TypeInv, OwnInv, InCall,
         NEW code, NEW stage, NEW http, NEW body, NEW extra,
         \/ body = NoBlock /\ extra = {buffer}
         \/ body = NoBlock /\ extra = {} /\ buffer = NoBlock
         \/ body = buffer /\ extra = {},
         Fails(code, stage, http, body, extra)
  PROVE  OwnInv'
<1> DEFINE F(b) == Filled(code, stage, http, b)
<1>1. \A b : F(b).body = b
  BY FilledParts
<1>2. Copies(body) \subseteq {NoBlock, New("copy")}
  BY DEF Copies
<1>3. /\ lastError.body = NoBlock /\ result = NoBlock
      /\ hasDetail => detail.body = NoBlock
      /\ buffer \in {NoBlock, New("body")}
      /\ \A holds : detail.body # New(holds)
  BY DEF OwnInv, CallInv
<1>4. heap = {detail.body, buffer} \ {NoBlock}
  BY <1>3 DEF OwnInv, OneOwner
<1>5. buffer' = NoBlock /\ result' = NoBlock /\ at' = "idle"
  BY <1>3 DEF Fails, Returns
<1> HIDE DEF F
<1>6. \E copy \in {NoBlock, New("copy")}, lost \in SUBSET (heap \cup {NoBlock}) :
        /\ Memory(lost, {copy} \ {NoBlock})
        /\ OneOwner(heap', detail'.body, lastError'.body, NoBlock, NoBlock)
        /\ lastErrorEnabled \/ lastError'.body = NoBlock
  <2>1. CASE hasDetail /\ lastErrorEnabled
    <3>1. PICK copy \in {NoBlock, New("copy")} :
            /\ lastError' = F(copy)
            /\ Memory({detail.body, lastError.body} \cup extra, {copy} \ {NoBlock})
      BY <1>2, <2>1 DEF Fails, Capture, F
    <3>2. detail' = F(body)
      BY <2>1 DEF Fails, Capture, F
    <3>3. detail'.body = body /\ lastError'.body = copy
      BY <1>1, <3>1, <3>2
    <3>4. heap' = ({buffer, copy} \ {NoBlock}) \ extra
      BY <1>3, <1>4, <2>1, <3>1 DEF Memory
    <3>5. OneOwner(heap', detail'.body, lastError'.body, NoBlock, NoBlock)
      BY <1>3, <3>3, <3>4, NewBlocks DEF OneOwner, OwnersApart
    <3>6. {detail.body, lastError.body} \cup extra \subseteq heap \cup {NoBlock}
      BY <1>3, <1>4, <2>1
    <3> QED
      BY <2>1, <3>1, <3>5, <3>6
  <2>2. CASE hasDetail /\ ~lastErrorEnabled
    <3>1. detail' = F(body) /\ lastError' = lastError /\ Memory({detail.body} \cup extra, {})
      BY <2>2 DEF Fails, Capture, F, Unchanged
    <3>2. detail'.body = body
      BY <1>1, <3>1
    <3>3. heap' = ({buffer} \ {NoBlock}) \ extra
      BY <1>3, <1>4, <2>2, <3>1 DEF Memory
    <3>4. OneOwner(heap', detail'.body, lastError'.body, NoBlock, NoBlock)
      BY <1>3, <3>1, <3>2, <3>3 DEF OneOwner, OwnersApart
    <3>5. {detail.body} \cup extra \subseteq heap \cup {NoBlock} /\ {NoBlock} \ {NoBlock} = {}
      BY <1>3, <1>4, <2>2
    <3> QED
      BY <1>3, <3>1, <3>4, <3>5
  <2>3. CASE ~hasDetail /\ lastErrorEnabled
    <3>1. lastError' = F(body) /\ detail' = detail /\ Memory({lastError.body} \cup extra, {})
      BY <2>3 DEF Fails, Capture, F, Unchanged
    <3>2. lastError'.body = body
      BY <1>1, <3>1
    <3>3. heap' = ({detail.body, buffer} \ {NoBlock}) \ extra
      BY <1>3, <1>4, <3>1 DEF Memory
    <3>4. OneOwner(heap', detail'.body, lastError'.body, NoBlock, NoBlock)
      BY <1>3, <3>1, <3>2, <3>3 DEF OneOwner, OwnersApart
    <3>5. {lastError.body} \cup extra \subseteq heap \cup {NoBlock} /\ {NoBlock} \ {NoBlock} = {}
      BY <1>3, <1>4
    <3> QED
      BY <2>3, <3>1, <3>4, <3>5
  <2>4. CASE ~hasDetail /\ ~lastErrorEnabled
    <3>1. lastError' = lastError /\ detail' = detail /\ Memory({body} \cup extra, {})
      BY <2>4 DEF Fails, Capture, Unchanged
    <3>2. heap' = {detail.body} \ {NoBlock}
      BY <1>3, <1>4, <3>1 DEF Memory
    <3>3. OneOwner(heap', detail'.body, lastError'.body, NoBlock, NoBlock)
      BY <1>3, <3>1, <3>2 DEF OneOwner, OwnersApart
    <3>4. {body} \cup extra \subseteq heap \cup {NoBlock} /\ {NoBlock} \ {NoBlock} = {}
      BY <1>3, <1>4
    <3> QED
      BY <1>3, <3>1, <3>3, <3>4
  <2>5. hasDetail \in BOOLEAN /\ lastErrorEnabled \in BOOLEAN
    BY DEF TypeInv, TypeOK
  <2> QED
    BY <2>1, <2>2, <2>3, <2>4, <2>5
<1>7. ~badFree' /\ OneOwner(heap, detail.body, lastError.body, result, buffer)'
  BY <1>5, <1>6 DEF OwnInv, Memory
<1>8. CallInv'
  BY <1>5, <1>6 DEF CallInv, InCall, Fails, Returns, arguments
<1>9. Fresh'
  <2>1. \A b \in heap' : b \in heap \/ b = New("copy")
    BY <1>6 DEF Memory
  <2>2. New("copy").call = call /\ call \in Nat /\ call' = call
    BY BoundsAssumption DEF New, TypeInv, TypeOK, Fails, Returns
  <2> QED
    BY <2>1, <2>2 DEF OwnInv, Fresh
<1> QED
  BY <1>7, <1>8, <1>9 DEF OwnInv

(* So does one that succeeds.                                              *)
LEMMA SucceedsOwners ==
  ASSUME TypeInv, OwnInv, NEW what, Succeeds(what), Keeps \/ Drops
  PROVE  OwnInv'
<1>1. InCall /\ at' = "idle" /\ buffer' = NoBlock
  BY DEF Succeeds, Returns, InCall
<1>2. result = NoBlock /\ UNCHANGED << detail, lastError, lastErrorEnabled, call >>
  BY <1>1 DEF OwnInv, CallInv, Succeeds, Returns, arguments
<1>3. CASE Keeps
  <2>1. heap' = heap /\ ~badFree' /\ result' = buffer
    BY <1>3 DEF Keeps, Unchanged, Memory, OwnInv
  <2> QED
    BY <1>1, <1>2, <2>1 DEF OwnInv, OneOwner, OwnersApart, CallInv, InCall, Fresh
<1>4. CASE Drops
  <2>1. heap' = heap \ {buffer} /\ ~badFree' /\ result' = NoBlock
    BY <1>2, <1>4 DEF Drops, Unchanged, Memory, OwnInv, OneOwner
  <2> QED
    BY <1>1, <1>2, <2>1 DEF OwnInv, OneOwner, OwnersApart, CallInv, InCall, Fresh
<1> QED
  BY <1>3, <1>4

LEMMA OwnersInit == Init => OwnInv
  BY EmptyType, Emptiness DEF Init, OwnInv, OneOwner, OwnersApart, CallInv, InCall, Fresh

LEMMA OwnersNext == TypeInv /\ OwnInv /\ [Next]_vars => OwnInv'
<1> SUFFICES ASSUME TypeInv, OwnInv, [Next]_vars PROVE OwnInv'
  OBVIOUS
<1>1. ASSUME NEW o \in Ops, NEW withDetail \in BOOLEAN, Begin(o, withDetail) PROVE OwnInv'
  <2> DEFINE lost == (IF withDetail THEN {detail.body} ELSE {})
                       \cup (IF Reset THEN {lastError.body} ELSE {})
  <2>1. /\ call \in Nat /\ call' = call + 1 /\ at' = "begun" /\ hasDetail' = withDetail
        /\ result' = NoBlock /\ result = NoBlock /\ buffer' = NoBlock /\ buffer = NoBlock
        /\ UNCHANGED lastErrorEnabled
    BY <1>1, BoundsAssumption DEF Begin, TypeInv, TypeOK, OwnInv, CallInv, InCall
  <2>2. heap = {detail.body, lastError.body} \ {NoBlock} /\ ~badFree
    BY <2>1 DEF OwnInv, OneOwner
  <2>3. heap' = heap \ lost /\ ~badFree'
    BY <1>1, <2>2 DEF Begin, Unchanged, Memory
  <2>4. /\ detail'.body = IF withDetail THEN NoBlock ELSE detail.body
        /\ lastError'.body = NoBlock
    BY <1>1, <2>2, Emptiness DEF Begin, Reset, OwnInv, CallInv
  <2>5. lastErrorEnabled \/ lastError.body = NoBlock
    BY DEF OwnInv, CallInv
  <2>6. OneOwner(heap', detail'.body, lastError'.body, NoBlock, NoBlock)
    <3>1. heap' = IF withDetail THEN {} ELSE {detail.body} \ {NoBlock}
      BY <2>2, <2>3, <2>5 DEF Reset, OwnInv, OneOwner, OwnersApart
    <3> QED
      BY <2>4, <3>1 DEF OneOwner, OwnersApart
  <2>7. \A holds : detail'.body # New(holds)'
    <3>1. \A holds : New(holds)'.call = call + 1 /\ New(holds)' # NoBlock
      BY <2>1 DEF New, NoBlock
    <3>2. CASE detail'.body = NoBlock
      BY <3>1, <3>2
    <3>3. CASE detail'.body \in heap
      <4>1. detail'.body.call <= call
        BY <3>3 DEF OwnInv, Fresh
      <4> QED
        BY <2>1, <3>1, <4>1
    <3> QED
      BY <2>2, <2>4, <3>2, <3>3
  <2>8. CallInv'
    BY <2>1, <2>4, <2>7 DEF CallInv
  <2>9. Fresh'
    <3>1. \A b \in heap : b \in Block
      BY DEF TypeInv, TypeOK
    <3> QED
      BY <2>1, <2>3, <3>1 DEF OwnInv, Fresh, Block
  <2> QED
    BY <2>1, <2>3, <2>6, <2>8, <2>9 DEF OwnInv
<1>2. CASE SetupFails
  <2>1. InCall /\ buffer = NoBlock
    BY <1>2 DEF SetupFails, InCall, OwnInv, CallInv
  <2> QED
    BY <1>2, <2>1, FailsOwners DEF SetupFails
<1>3. CASE NoHandle
  <2>1. InCall /\ buffer = NoBlock
    BY <1>3 DEF NoHandle, InCall, OwnInv, CallInv
  <2>2. \E stage, http : Fails("FAILED", stage, http, NoBlock, {})
    BY <1>3 DEF NoHandle
  <2> QED
    BY <2>1, <2>2, FailsOwners
<1>4. CASE Perform
  <2>1. InCall /\ InCall' /\ at' = "transfer" /\ buffer = NoBlock /\ result = NoBlock
    BY <1>4 DEF Perform, InCall, OwnInv, CallInv
  <2>2. UNCHANGED << detail, lastError, result, call, hasDetail, lastErrorEnabled >>
    BY <1>4 DEF Perform, owners, arguments
  <2>3. CASE buffer' = New("body") /\ Memory({}, {New("body")})
    <3>1. heap' = heap \cup {New("body")} /\ ~badFree'
      BY <2>3 DEF Memory, OwnInv
    <3>2. detail.body # New("body") /\ lastError.body = NoBlock
      BY <2>1 DEF OwnInv, CallInv
    <3>3. OneOwner(heap', detail.body, NoBlock, NoBlock, New("body"))
      BY <2>1, <3>1, <3>2, NewBlocks DEF OwnInv, OneOwner, OwnersApart
    <3>4. Fresh'
      <4>1. New("body").call = call /\ call \in Nat
        BY BoundsAssumption DEF New, TypeInv, TypeOK
      <4> QED
        BY <2>2, <3>1, <4>1 DEF OwnInv, Fresh
    <3>5. CallInv'
      BY <2>1, <2>2, <2>3 DEF OwnInv, CallInv, New
    <3> QED
      BY <2>1, <2>2, <2>3, <3>1, <3>2, <3>3, <3>4, <3>5 DEF OwnInv
  <2>4. CASE UNCHANGED << buffer, heap, badFree >>
    BY <2>1, <2>2, <2>4 DEF OwnInv, OneOwner, OwnersApart, CallInv, Fresh, New
  <2> QED
    BY <1>4, <2>3, <2>4 DEF Perform
<1>5. ASSUME NEW n \in ChunkLengths, Receive(n) PROVE OwnInv'
  BY <1>5 DEF Receive, arguments, owners, OwnInv, OneOwner, OwnersApart, CallInv, InCall,
              Fresh, New
<1>6. ASSUME NEW n \in ChunkLengths, CaptureLost(n) PROVE OwnInv'
  <2>1. /\ InCall /\ InCall' /\ at' = "transfer" /\ at # "begun" /\ buffer' = NoBlock
        /\ UNCHANGED << detail, lastError, result, call, hasDetail, lastErrorEnabled >>
    BY <1>6 DEF CaptureLost, InCall, owners, arguments
  <2>2. heap' = heap \ {buffer} /\ ~badFree'
    BY <1>6 DEF CaptureLost, Unchanged, Memory, OwnInv, OneOwner
  <2> QED
    BY <2>1, <2>2 DEF OwnInv, OneOwner, OwnersApart, CallInv, Fresh, New
<1>7. CASE TransferFails
  <2>1. \E stage : Fails("FAILED", stage, "none", NoBlock, {buffer})
    BY <1>7 DEF TransferFails
  <2> QED
    BY <1>7, <2>1, FailsOwners DEF TransferFails, InCall
<1>8. CASE StreamStops
  <2>1. \E code, stage : Fails(code, stage, "none", NoBlock, {buffer})
    BY <1>8 DEF StreamStops
  <2> QED
    BY <1>8, <2>1, FailsOwners DEF StreamStops, InCall
<1>9. CASE TransferEnds
  BY <1>9 DEF TransferEnds, arguments, owners, OwnInv, OneOwner, OwnersApart, CallInv, InCall,
              Fresh, New
<1>10. CASE ChatStreamFails
  <2>1. \E code, stage : Fails(code, stage, status, NoBlock, {buffer})
    BY <1>10 DEF ChatStreamFails
  <2> QED
    BY <1>10, <2>1, FailsOwners DEF ChatStreamFails, InCall
<1>11. CASE HttpError
  BY <1>11, FailsOwners DEF HttpError, InCall, Released
<1>12. CASE ParseFails
  <2>1. \E stage : Fails("FAILED", stage, status, buffer, {})
    BY <1>12 DEF ParseFails
  <2> QED
    BY <1>12, <2>1, FailsOwners DEF ParseFails, InCall
<1>13. CASE HealthEnds \/ StreamEnds \/ PropsEnd \/ ParsedEnds
  BY <1>13, SucceedsOwners DEF HealthEnds, StreamEnds, PropsEnd, ParsedEnds
<1>14. CASE ModelsEnd
  <2>1. CASE Drops
    BY <1>14, <2>1, SucceedsOwners DEF ModelsEnd
  <2>2. CASE result' = New("models") /\ Memory({buffer}, {New("models")})
    <3>1. /\ InCall /\ at' = "idle" /\ buffer' = NoBlock
          /\ UNCHANGED << detail, lastError, lastErrorEnabled, call >>
      BY <1>14 DEF ModelsEnd, Succeeds, Returns, InCall, arguments
    <3>2. /\ result = NoBlock /\ lastError.body = NoBlock /\ detail.body # New("models")
          /\ buffer \in {NoBlock, New("body")}
      BY <3>1 DEF OwnInv, CallInv
    <3>3. heap' = (heap \cup {New("models")}) \ {buffer} /\ ~badFree'
      BY <2>2 DEF Memory, OwnInv, OneOwner
    <3>4. OneOwner(heap', detail.body, NoBlock, New("models"), NoBlock)
      BY <3>2, <3>3, NewBlocks DEF OwnInv, OneOwner, OwnersApart
    <3>5. Fresh'
      <4>1. New("models").call = call /\ call \in Nat
        BY BoundsAssumption DEF New, TypeInv, TypeOK
      <4> QED
        BY <3>1, <3>3, <4>1 DEF OwnInv, Fresh
    <3>6. CallInv'
      BY <3>1, <3>2 DEF CallInv, InCall
    <3> QED
      BY <2>2, <3>1, <3>2, <3>3, <3>4, <3>5, <3>6 DEF OwnInv
  <2> QED
    BY <1>14, <2>1, <2>2 DEF ModelsEnd
<1>15. CASE FreeDetail
  <2>1. /\ at = "idle" /\ at' = "idle" /\ detail'.body = NoBlock
        /\ UNCHANGED << lastError, lastErrorEnabled, result, buffer, call >>
    BY <1>15, Emptiness DEF FreeDetail, response
  <2>2. heap' = heap \ {detail.body} /\ ~badFree'
    BY <1>15 DEF FreeDetail, Unchanged, Memory, OwnInv, OneOwner
  <2> QED
    BY <2>1, <2>2 DEF OwnInv, OneOwner, OwnersApart, CallInv, InCall, Fresh
<1>16. CASE FreeResult
  <2>1. /\ at = "idle" /\ at' = "idle" /\ result' = NoBlock
        /\ UNCHANGED << detail, lastError, lastErrorEnabled, buffer, call >>
    BY <1>16 DEF FreeResult, response, arguments
  <2>2. heap' = heap \ {result} /\ ~badFree'
    BY <1>16 DEF FreeResult, Unchanged, Memory, OwnInv, OneOwner
  <2> QED
    BY <2>1, <2>2 DEF OwnInv, OneOwner, OwnersApart, CallInv, InCall, Fresh
<1>17. CASE Destroy
  <2>1. /\ at = "idle" /\ at' = "destroyed" /\ lastError'.body = NoBlock
        /\ UNCHANGED << detail, result, lastErrorEnabled, buffer, call >>
    BY <1>17, Emptiness DEF Destroy, response, arguments
  <2>2. heap' = heap \ {lastError.body} /\ ~badFree'
    BY <1>17 DEF Destroy, Unchanged, Memory, OwnInv, OneOwner
  <2> QED
    BY <2>1, <2>2 DEF OwnInv, OneOwner, OwnersApart, CallInv, InCall, Fresh
<1>18. CASE UNCHANGED vars
  BY <1>18 DEF vars, arguments, response, owners, OwnInv, OneOwner, OwnersApart, CallInv,
               InCall, Fresh, New
<1> QED
  BY <1>1, <1>2, <1>3, <1>4, <1>5, <1>6, <1>7, <1>8, <1>9, <1>10, <1>11, <1>12, <1>13,
     <1>14, <1>15, <1>16, <1>17, <1>18 DEF Next

(* Every block in use has exactly one owner and none is freed twice,       *)
(* whatever calls a client makes and however they end (error_detail_fill,  *)
(* error_detail_capture and the ends of the calls in src/src/llm.c).       *)
THEOREM OwnersKept == Spec => []BlocksHaveOneOwner
<1>1. Init => OwnInv
  BY OwnersInit
<1>2. TypeInv /\ OwnInv /\ [Next]_vars => OwnInv'
  BY OwnersNext
<1>3. OwnInv => BlocksHaveOneOwner
  BY Restated
<1> QED
  BY <1>1, <1>2, <1>3, TypeInvariant, PTL DEF Spec

-----------------------------------------------------------------------------
(***************************************************************************)
(* Whose errors they are.  Until a call ends, the detail it was passed and *)
(* the client's last error are empty.                                      *)
(***************************************************************************)

(* The limit of a call, like the call itself, stays.                       *)
LEMMA LimitType ==
  ASSUME TypeInv
  PROVE  Limit \in Nat
  BY BoundsAssumption DEF Limit, TypeInv, TypeOK

ErrorsInv ==
  /\ InCall =>
       /\ err = "NONE"
       /\ hasDetail => detail = Empty
       /\ lastErrorEnabled => lastError = Empty
  /\ Limit > 0 => received <= Limit
  /\ SpansPointHome
  /\ ErrorsAreThisCalls

LEMMA FilledTells ==
  ASSUME TypeInv, Limit > 0 => received <= Limit,
         NEW code \in {"FAILED", "CANCELLED"}, NEW stage, NEW http,
         NEW body, body # NoBlock => body.call = call
  PROVE  LET d == Filled(code, stage, http, body)
         IN  /\ d.code = code /\ d.code # "NONE" /\ d # Empty
             /\ d.stage = stage /\ d.http = http
             /\ d.body # NoBlock => d.body.call = call /\ d.len = received
             /\ Limit > 0 => d.len <= Limit
             /\ d.spans \in {NoBlock, d.body}
<1>1. received \in Nat /\ Limit \in Nat
  BY BoundsAssumption, LimitType DEF TypeInv, TypeOK
<1> QED
  BY <1>1 DEF Filled, Empty

LEMMA FailsErrors ==
  ASSUME TypeInv, OwnInv, ErrorsInv, InCall,
         NEW code \in {"FAILED", "CANCELLED"}, NEW stage, NEW http,
         NEW body \in {NoBlock, buffer}, NEW extra,
         Fails(code, stage, http, body, extra)
  PROVE  ErrorsInv'
<1> DEFINE F(b) == Filled(code, stage, http, b)
<1>1. \A b \in {NoBlock, body, New("copy")} :
        /\ F(b).code = code /\ F(b).code # "NONE" /\ F(b) # Empty
        /\ F(b).stage = stage /\ F(b).http = http
        /\ F(b).body # NoBlock => F(b).body.call = call /\ F(b).len = received
        /\ Limit > 0 => F(b).len <= Limit
        /\ F(b).spans \in {NoBlock, F(b).body}
  <2>1. \A b \in {NoBlock, body, New("copy")} : b # NoBlock => b.call = call
    BY DEF OwnInv, CallInv, New
  <2> QED
    BY <2>1, FilledTells DEF ErrorsInv
<1>2. Copies(body) \subseteq {NoBlock, New("copy")}
  BY DEF Copies
<1>3. hasDetail \in BOOLEAN /\ lastErrorEnabled \in BOOLEAN
  BY DEF TypeInv, TypeOK
<1>4. /\ hasDetail => \E b \in {NoBlock, body, New("copy")} : detail' = F(b)
      /\ lastErrorEnabled => \E b \in {NoBlock, body, New("copy")} : lastError' = F(b)
      /\ ~hasDetail => detail' = detail
      /\ ~lastErrorEnabled => lastError' = lastError
  BY <1>2, <1>3 DEF Fails, Capture, F
<1>5. /\ at' = "idle" /\ err' = code /\ ~InCall'
      /\ UNCHANGED << call, received, Limit, hasDetail, lastErrorEnabled >>
  BY DEF Fails, Returns, arguments, InCall, Limit
<1> HIDE DEF F
<1>6. SpansPointHome'
  BY <1>1, <1>3, <1>4 DEF ErrorsInv, SpansPointHome
<1>7. ErrorsAreThisCalls'
  <2>1. hasDetail' => Tells(detail)'
    BY <1>1, <1>4, <1>5 DEF Tells, Empty
  <2>2. lastErrorEnabled' => Tells(lastError)'
    BY <1>1, <1>4, <1>5 DEF Tells, Empty
  <2>3. hasDetail' /\ lastErrorEnabled' =>
          detail'.stage = lastError'.stage /\ detail'.http = lastError'.http
    BY <1>1, <1>4, <1>5
  <2> QED
    BY <2>1, <2>2, <2>3 DEF ErrorsAreThisCalls
<1> QED
  BY <1>5, <1>6, <1>7 DEF ErrorsInv

LEMMA SucceedsErrors ==
  ASSUME TypeInv, ErrorsInv, NEW what, Succeeds(what)
  PROVE  ErrorsInv'
<1>1. /\ InCall /\ ~InCall' /\ err' = "NONE"
      /\ UNCHANGED << detail, lastError, call, received, Limit, hasDetail,
                      lastErrorEnabled >>
  BY DEF Succeeds, Returns, InCall, arguments, Limit
<1>2. Empty.code = "NONE" /\ Empty.body = NoBlock /\ Empty.len = 0
  BY DEF Empty
<1>3. Limit \in Nat
  BY LimitType
<1>4. hasDetail => Tells(detail)'
  BY <1>1, <1>2, <1>3 DEF ErrorsInv, Tells, Empty
<1>5. lastErrorEnabled => Tells(lastError)'
  BY <1>1, <1>2, <1>3 DEF ErrorsInv, Tells, Empty
<1> QED
  BY <1>1, <1>4, <1>5 DEF ErrorsInv, SpansPointHome, ErrorsAreThisCalls

LEMMA ErrorsInit == Init => ErrorsInv
<1> SUFFICES ASSUME Init PROVE ErrorsInv
  OBVIOUS
<1>1. Limit \in Nat /\ received = 0
  BY BoundsAssumption DEF Init, Limit
<1> QED
  BY <1>1, Emptiness DEF Init, ErrorsInv, InCall, SpansPointHome, ErrorsAreThisCalls

LEMMA ErrorsNext == TypeInv /\ OwnInv /\ ErrorsInv /\ [Next]_vars => ErrorsInv'
<1> SUFFICES ASSUME TypeInv, OwnInv, ErrorsInv, [Next]_vars PROVE ErrorsInv'
  OBVIOUS
<1>1. ASSUME NEW o \in Ops, NEW withDetail \in BOOLEAN, Begin(o, withDetail) PROVE ErrorsInv'
  <2>1. /\ at' = "begun" /\ err' = "NONE" /\ received' = 0
        /\ hasDetail' = withDetail /\ lastErrorEnabled' = lastErrorEnabled
        /\ detail' = IF withDetail THEN Empty ELSE detail
        /\ lastError' = IF lastErrorEnabled THEN Empty ELSE lastError
    BY <1>1 DEF Begin, Reset
  <2>2. SpansPointHome'
    BY <2>1, Emptiness DEF ErrorsInv, SpansPointHome
  <2>3. Limit' \in Nat
    BY <1>1, BoundsAssumption DEF Begin, Limit, TypeInv, TypeOK
  <2> QED
    BY <2>1, <2>2, <2>3 DEF ErrorsInv, ErrorsAreThisCalls
<1>2. CASE SetupFails
  BY <1>2, FailsErrors DEF SetupFails, InCall
<1>3. CASE NoHandle
  <2>1. \E stage, http : Fails("FAILED", stage, http, NoBlock, {})
    BY <1>3 DEF NoHandle
  <2> QED
    BY <1>3, <2>1, FailsErrors DEF NoHandle, InCall
<1>4. CASE Perform \/ TransferEnds
  <2>1. /\ InCall /\ at' # "idle"
        /\ UNCHANGED << detail, lastError, received, Limit, hasDetail,
                        lastErrorEnabled, err >>
    BY <1>4 DEF Perform, TransferEnds, InCall, arguments, owners, Limit
  <2> QED
    BY <2>1 DEF ErrorsInv, SpansPointHome, ErrorsAreThisCalls
<1>5. ASSUME NEW n \in ChunkLengths, Receive(n) \/ CaptureLost(n) PROVE ErrorsInv'
  <2>1. /\ InCall /\ at' # "idle" /\ received' = received + n /\ ~TooLong(n)
        /\ UNCHANGED << detail, lastError, Limit, hasDetail, lastErrorEnabled, err >>
    BY <1>5 DEF Receive, CaptureLost, InCall, arguments, owners, Limit
  <2>2. Limit > 0 => received + n <= Limit
    <3>1. Limit \in Nat /\ received \in Nat /\ n \in Nat
      BY BoundsAssumption, LimitType DEF TypeInv, TypeOK
    <3> QED
      BY <2>1, <3>1 DEF TooLong
  <2> QED
    BY <2>1, <2>2 DEF ErrorsInv, SpansPointHome, ErrorsAreThisCalls
<1>6. CASE TransferFails
  <2>1. \E stage : Fails("FAILED", stage, "none", NoBlock, {buffer})
    BY <1>6 DEF TransferFails
  <2> QED
    BY <1>6, <2>1, FailsErrors DEF TransferFails, InCall
<1>7. CASE StreamStops
  <2>1. \E code \in {"FAILED", "CANCELLED"}, stage \in Stages :
          Fails(code, stage, "none", NoBlock, {buffer})
    BY <1>7 DEF StreamStops, Stages
  <2> QED
    BY <1>7, <2>1, FailsErrors DEF StreamStops, InCall
<1>8. CASE ChatStreamFails
  <2>1. \E code \in {"FAILED", "CANCELLED"}, stage \in Stages :
          Fails(code, stage, status, NoBlock, {buffer})
    BY <1>8 DEF ChatStreamFails, Stages
  <2> QED
    BY <1>8, <2>1, FailsErrors DEF ChatStreamFails, InCall
<1>9. CASE HttpError
  BY <1>9, FailsErrors DEF HttpError, InCall
<1>10. CASE ParseFails
  <2>1. \E stage : Fails("FAILED", stage, status, buffer, {})
    BY <1>10 DEF ParseFails
  <2> QED
    BY <1>10, <2>1, FailsErrors DEF ParseFails, InCall
<1>11. CASE HealthEnds \/ StreamEnds \/ PropsEnd \/ ParsedEnds \/ ModelsEnd
  BY <1>11, SucceedsErrors DEF HealthEnds, StreamEnds, PropsEnd, ParsedEnds, ModelsEnd
<1>12. CASE FreeDetail
  <2>1. /\ at = "idle" /\ at' = "idle" /\ detail' = Empty /\ hasDetail' = FALSE
        /\ UNCHANGED << lastError, lastErrorEnabled, Limit, received, call, err >>
    BY <1>12 DEF FreeDetail, response, Limit
  <2> QED
    BY <2>1, Emptiness DEF ErrorsInv, SpansPointHome, ErrorsAreThisCalls, Tells, InCall
<1>13. CASE FreeResult \/ UNCHANGED vars
  <2>1. UNCHANGED << at, detail, lastError, hasDetail, lastErrorEnabled, Limit,
                     received, call, err >>
    BY <1>13 DEF FreeResult, vars, arguments, response, owners, Limit
  <2> QED
    BY <2>1 DEF ErrorsInv, SpansPointHome, ErrorsAreThisCalls, Tells, InCall
<1>14. CASE Destroy
  <2>1. /\ at' = "destroyed" /\ lastError' = Empty
        /\ UNCHANGED << detail, Limit, received >>
    BY <1>14 DEF Destroy, arguments, response, Limit
  <2> QED
    BY <2>1, Emptiness DEF ErrorsInv, SpansPointHome, ErrorsAreThisCalls, InCall
<1> QED
  BY <1>1, <1>2, <1>3, <1>4, <1>5, <1>6, <1>7, <1>8, <1>9, <1>10, <1>11, <1>12, <1>13,
     <1>14 DEF Next

(* After a call the detail passed and the client's last error tell of that *)
(* call and not of an earlier one, say the same, and hold no more of its   *)
(* body than the limit of the call: llm_health's own 1024 bytes, or the    *)
(* client's max_response_bytes (last_error_reset, error_detail_capture and *)
(* llm_health in src/src/llm.c).                                           *)
THEOREM ErrorsAreOfTheCall == Spec => [](ErrorsAreThisCalls /\ SpansPointHome)
<1>1. Init => OwnInv /\ ErrorsInv
  BY OwnersInit, ErrorsInit
<1>2. TypeInv /\ OwnInv /\ ErrorsInv /\ [Next]_vars => OwnInv' /\ ErrorsInv'
  BY OwnersNext, ErrorsNext
<1>3. ErrorsInv => ErrorsAreThisCalls /\ SpansPointHome
  BY DEF ErrorsInv
<1> QED
  BY <1>1, <1>2, <1>3, TypeInvariant, PTL DEF Spec

(* The texts of an error are read in the body the same struct holds, so    *)
(* that freeing the caller's detail leaves the last error's alone, and the *)
(* other way round (error_detail_capture, llm_error_detail_free).          *)
THEOREM SpansStayHome == Spec => []SpansPointHome
<1>1. ErrorsAreThisCalls /\ SpansPointHome => SpansPointHome
  OBVIOUS
<1> QED
  BY <1>1, ErrorsAreOfTheCall, PTL

-----------------------------------------------------------------------------
(* What has come of a body is in the buffer, unless memory was short or    *)
(* nobody wants a stream's; and until a transfer ends it has no status.    *)
BodyInv ==
  /\ at \in {"begun", "transfer"} => status = "none"
  /\ at \in {"transfer", "answered"} /\ ~outOfMemory /\ (op \in Streams => hasDetail) =>
       buffer # NoBlock
  /\ ErrorBodyIsKept

(* A failing call without a status, or one without a body to be kept.      *)
LEMMA NothingToKeep ==
  ASSUME at' # "begun", at' # "transfer", at' # "answered",
         \/ at' = "destroyed" \/ status' = "none" \/ err' # "FAILED"
         \/ received' = 0 \/ toolCallsFail'
  PROVE  BodyInv'
<1>1. received' = 0 => ~(received' > 0)
  OBVIOUS
<1> QED
  BY <1>1 DEF BodyInv, ErrorBodyIsKept

(* A failing call gives its body to the detail, and a copy to the client.  *)
LEMMA FailsKeepsBody ==
  ASSUME BodyInv, at = "answered", NEW code, NEW stage, NEW http, NEW extra,
         hasDetail \in BOOLEAN, lastErrorEnabled \in BOOLEAN,
         Fails(code, stage, http, buffer, extra)
  PROVE  BodyInv'
<1>1. /\ at' = "idle"
      /\ UNCHANGED << op, hasDetail, lastErrorEnabled, received, status, toolCallsFail >>
  BY DEF Fails, Returns, arguments
<1>2. ~outOfMemory' => ~outOfMemory
  BY DEF Fails, Capture
<1>3. ASSUME ~outOfMemory', received > 0, op \in Streams => hasDetail
      PROVE  /\ hasDetail => detail'.body # NoBlock
             /\ lastErrorEnabled => lastError'.body # NoBlock
  <2>1. buffer # NoBlock
    BY <1>2, <1>3 DEF BodyInv
  <2>2. \A b : Filled(code, stage, http, b).body = b
    BY DEF Filled
  <2>3. hasDetail => detail' = Filled(code, stage, http, buffer)
    BY DEF Fails, Capture
  <2>4. lastErrorEnabled => \E copy : /\ copy # NoBlock
                                      /\ lastError' = Filled(code, stage, http, copy)
    <3>1. CASE hasDetail /\ lastErrorEnabled
      <4>1. PICK copy \in Copies(buffer) :
              /\ lastError' = Filled(code, stage, http, copy)
              /\ outOfMemory' = (outOfMemory
                                   \/ (copy = NoBlock /\ buffer # NoBlock /\ received > 0))
        BY <3>1, Zenon DEF Fails, Capture
      <4>2. copy # NoBlock
        BY <1>3, <2>1, <4>1, Zenon
      <4> QED
        BY <4>1, <4>2
    <3>2. CASE ~hasDetail /\ lastErrorEnabled
      BY <2>1, <3>2 DEF Fails, Capture
    <3> QED
      BY <3>1, <3>2
  <2> QED
    BY <2>1, <2>2, <2>3, <2>4
<1> QED
  BY <1>1, <1>3 DEF BodyInv, ErrorBodyIsKept

LEMMA BodyNext == TypeInv /\ BodyInv /\ [Next]_vars => BodyInv'
<1> SUFFICES ASSUME TypeInv, BodyInv, [Next]_vars PROVE BodyInv'
  OBVIOUS
<1>t. hasDetail \in BOOLEAN /\ lastErrorEnabled \in BOOLEAN
  BY DEF TypeInv, TypeOK
<1> USE DEF arguments, response, owners
<1>1. ASSUME NEW o \in Ops, NEW withDetail \in BOOLEAN, Begin(o, withDetail) PROVE BodyInv'
  BY <1>1 DEF Begin, BodyInv, ErrorBodyIsKept
<1>2. CASE SetupFails \/ NoHandle \/ TransferFails \/ StreamStops
  <2>1. /\ at \in {"begun", "transfer"}
        /\ \E code, stage, http, extra : Fails(code, stage, http, NoBlock, extra)
    BY <1>2 DEF SetupFails, NoHandle, TransferFails, StreamStops
  <2>2. at' = "idle" /\ status' = status
    BY <2>1 DEF Fails, Returns
  <2>3. status = "none"
    BY <2>1 DEF BodyInv
  <2> QED
    BY <2>2, <2>3, NothingToKeep
<1>3. CASE Perform
  <2>1. New("body") # NoBlock
    BY DEF New, NoBlock
  <2>2. /\ at = "begun" /\ at' = "transfer"
        /\ \/ buffer' = New("body")
           \/ outOfMemory' = TRUE
           \/ op \in Streams /\ ~hasDetail
        /\ UNCHANGED << status, op, hasDetail >>
    BY <1>3 DEF Perform
  <2> QED
    BY <2>1, <2>2 DEF BodyInv, ErrorBodyIsKept
<1>4. ASSUME NEW n \in ChunkLengths, Receive(n) \/ CaptureLost(n) PROVE BodyInv'
  <2>1. /\ at = "transfer" /\ at' = "transfer"
        /\ outOfMemory' \/ UNCHANGED << buffer, outOfMemory >>
        /\ UNCHANGED << status, op, hasDetail >>
    BY <1>4 DEF Receive, CaptureLost
  <2> QED
    BY <2>1 DEF BodyInv, ErrorBodyIsKept
<1>5. CASE TransferEnds
  BY <1>5 DEF TransferEnds, BodyInv, ErrorBodyIsKept
<1>6. CASE ChatStreamFails
  <2>1. /\ toolCallsFail \/ received = 0
        /\ \E code, stage, http, extra : Fails(code, stage, http, NoBlock, extra)
    BY <1>6 DEF ChatStreamFails
  <2>2. at' = "idle" /\ toolCallsFail' = toolCallsFail /\ received' = received
    BY <2>1 DEF Fails, Returns
  <2>3. toolCallsFail' \/ received' = 0
    BY <2>1, <2>2
  <2> QED
    BY <2>2, <2>3, NothingToKeep
<1>7. CASE HttpError \/ ParseFails
  <2>1. /\ at = "answered"
        /\ \E code, stage, http, extra : Fails(code, stage, http, buffer, extra)
    BY <1>7 DEF HttpError, ParseFails
  <2> QED
    BY <1>t, <2>1, FailsKeepsBody
<1>8. CASE HealthEnds \/ StreamEnds \/ PropsEnd \/ ParsedEnds \/ ModelsEnd
  <2>1. at' = "idle" /\ err' = "NONE"
    BY <1>8 DEF HealthEnds, StreamEnds, PropsEnd, ParsedEnds, ModelsEnd, Succeeds, Returns
  <2> QED
    BY <2>1, NothingToKeep
<1>9. CASE FreeDetail
  <2>1. /\ at = "idle" /\ at' = "idle" /\ hasDetail' = FALSE
        /\ UNCHANGED << op, lastErrorEnabled, lastError, received, status, toolCallsFail, err,
                        outOfMemory >>
    BY <1>9 DEF FreeDetail
  <2> QED
    BY <2>1 DEF BodyInv, ErrorBodyIsKept
<1>10. CASE FreeResult \/ UNCHANGED vars
  BY <1>10 DEF FreeResult, vars, BodyInv, ErrorBodyIsKept
<1>11. CASE Destroy
  BY <1>11, NothingToKeep DEF Destroy
<1> QED
  BY <1>1, <1>2, <1>3, <1>4, <1>5, <1>6, <1>7, <1>8, <1>9, <1>10, <1>11 DEF Next

(* The body of a response that arrived whole and made a call fail is kept  *)
(* by the detail and the last error, as long as memory lasts; a stream     *)
(* keeps it for a caller with a detail only, and a chat stream not if its  *)
(* tool calls are incomplete at its end, which is looked at before the     *)
(* status (src/src/llm.c, 1860-1875).                                      *)
THEOREM BodiesKept == Spec => []ErrorBodyIsKept
<1>1. Init => BodyInv
  BY DEF Init, BodyInv, ErrorBodyIsKept
<1>2. BodyInv => ErrorBodyIsKept
  BY DEF BodyInv
<1> QED
  BY <1>1, <1>2, BodyNext, TypeInvariant, PTL DEF Spec

=============================================================================
