------------------------- MODULE LachainStartProofs -------------------------
(***************************************************************************)
(* Proofs about one invocation of `start` (module LachainStart), for every *)
(* value of the constants that satisfies StartAssumption.                  *)
(***************************************************************************)
EXTENDS LachainStart, TLAPS

USE StartAssumption, ValueAssumption DEF StartAssumption, ValueAssumption

(* The storage operations keep the storage state well typed.              *)
LEMMA StorageStepTypeOK ==
  ASSUME St!StorageTypeOK, St!StorageNext
  PROVE  St!StorageTypeOK'
<1> USE DEF St!StorageTypeOK, St!Bytes, St!Word, St!String, St!Buffer
<1>1. ASSUME NEW s \in Slot, NEW v \in St!Bytes(SlotWidth[s]), St!SetStorage(s, v)
      PROVE  St!StorageTypeOK'
  <2>1. St!StorageWord(v, SlotWidth[s]) \in St!Word
    BY DEF St!StorageWord
  <2>2. v \in UNION {St!Bytes(n) : n \in 1..WordLen}
    BY SlotWidth[s] \in 1..WordLen
  <2>3. request' \in St!Request
    BY <1>1, <2>2 DEF St!SetStorage, St!Request
  <2>4. QED BY <1>1, <2>1, <2>3 DEF St!SetStorage
<1>2. ASSUME NEW s \in Slot, St!GetStorageInt(s)
      PROVE  St!StorageTypeOK'
  <2>1. request' \in St!Request
    BY <1>2 DEF St!GetStorageInt, St!Request
  <2>2. St!LoadInt(store[s], SlotWidth[s]) \in St!Bytes(SlotWidth[s])
    BY DEF St!LoadInt
  <2>3. QED BY <1>2, <2>1, <2>2 DEF St!GetStorageInt
<1>3. ASSUME NEW s \in Slot, St!StorageDeleteSingleSlot(s)
      PROVE  St!StorageTypeOK'
  <2>1. request' \in St!Request
    BY <1>3 DEF St!StorageDeleteSingleSlot, St!Request
  <2>2. QED BY <1>3, <2>1 DEF St!StorageDeleteSingleSlot, St!ZeroWord
<1>4. ASSUME NEW s \in Slot, NEW buf \in St!ProgramBuffer, St!SetStorageString(s, buf)
      PROVE  St!StorageTypeOK'
  <2>1. PICK n \in 0..StrLen : buf.data \in [1..n -> ByteVal]
    BY <1>4 DEF St!ProgramBuffer
  <2>2. n = buf.size /\ buf.len <= n
    BY <2>1, <1>4 DEF St!ProgramBuffer
  <2>3. St!VectorBytes(buf) \in [1..buf.len -> ByteVal]
    BY <2>1, <2>2, <1>4 DEF St!ProgramBuffer, St!VectorBytes
  <2>4. buf.len \in 0..StrLen
    BY <1>4 DEF St!ProgramBuffer
  <2>5. request' \in St!Request
    BY <1>4 DEF St!SetStorageString, St!Request
  <2>6. QED BY <1>4, <2>3, <2>4, <2>5 DEF St!SetStorageString
<1>5. ASSUME NEW s \in Slot, St!GetStorageString(s)
      PROVE  St!StorageTypeOK'
  <2>1. PICK n \in 0..StrLen : strStore[s] \in [1..n -> ByteVal]
    OBVIOUS
  <2>2. Len(strStore[s]) = n
    BY <2>1
  <2>3. QED BY <1>5, <2>1, <2>2 DEF St!GetStorageString, St!Request
<1>6. QED BY <1>1, <1>2, <1>3, <1>4, <1>5 DEF St!StorageNext

(* The branch after a host call keeps the control state well typed.      *)
LEMMA SuccessBranchType ==
  ASSUME TypeOK, NEW fl \in BOOLEAN, NEW ok \in BOOLEAN, SuccessBranch(fl, ok)
  PROVE  /\ success' \in BOOLEAN
         /\ pc' \in {"prelude", "dispatch", "body", "halted"}
         /\ out' \in Outcome \cup {NoOutcome}
<1>1. CASE fl
  BY <1>1 DEF SuccessBranch, TypeOK
<1>2. CASE ~fl /\ ok
  BY <1>2 DEF SuccessBranch, TypeOK
<1>3. CASE ~fl /\ ~ok
  BY <1>3 DEF SuccessBranch, TypeOK, AssertFailure, Halt, Outcome
<1>4. QED BY <1>1, <1>2, <1>3

(* Every step, stuttering included, keeps TypeOK.                          *)
LEMMA TypeStep == TypeOK /\ [Next]_vars => TypeOK'
  <1> SUFFICES ASSUME TypeOK, [Next]_vars PROVE TypeOK'
    OBVIOUS
  <1> USE DEF TypeOK, Outcome, NoOutcome, Halt, AssertFailure, St!StorageTypeOK,
             storageVars
  <1>1. CASE AbortIfValueTransfer
    BY <1>1 DEF AbortIfValueTransfer
  <1>2. CASE RuntimePrelude
    BY <1>2 DEF RuntimePrelude
  <1>3. CASE FunctionDispatch
    BY <1>3 DEF FunctionDispatch
  <1>4. CASE StorageOp
    BY <1>4, StorageStepTypeOK DEF StorageOp, BodyStep
  <1>5. ASSUME NEW k \in DOMAIN CallPrimitive, NEW f \in BOOLEAN,
               NEW v \in Value, NEW st \in {0, 1}, ExternalCall(k, f, v, st)
        PROVE  TypeOK'
    <2>1. lastCall' \in HostCall
      BY <1>5 DEF ExternalCall, HostCall, CallPrim, CallPrimitive, Be32ToLeN, Value
    <2>2. IsSuccess(st) \in BOOLEAN
      BY DEF IsSuccess
    <2>3. QED BY <1>5, <2>1, <2>2, SuccessBranchType DEF ExternalCall, BodyStep
  <1>6. ASSUME NEW f \in BOOLEAN, NEW v \in Value, NEW st \in {0, 1},
               ValueTransfer(f, v, st)
        PROVE  TypeOK'
    <2>1. lastCall' \in HostCall
      BY <1>6 DEF ValueTransfer, HostCall, Be32ToLeN, Value
    <2>2. IsSuccess(st) \in BOOLEAN
      BY DEF IsSuccess
    <2>3. QED BY <1>6, <2>1, <2>2, SuccessBranchType DEF ValueTransfer, BodyStep
  <1>7. ASSUME NEW f \in BOOLEAN, NEW salted \in BOOLEAN, NEW v \in Value,
               NEW st \in {0, 1}, CreateContract(f, salted, v, st)
        PROVE  TypeOK'
    <2>1. lastCall' \in HostCall
      BY <1>7 DEF CreateContract, HostCall, CreatePrim
    <2>2. QED BY <1>7, <2>1 DEF CreateContract, BodyStep, SuccessBranch,
                                 IsSuccess, CreateRet
  <1>8. CASE FunctionReturn
    BY <1>8 DEF FunctionReturn, ReturnAbi, ReturnEmptyAbi, ReturnCode
  <1>9. CASE Done
    BY <1>9 DEF Done, vars
  <1>10. CASE UNCHANGED vars
    BY <1>10 DEF vars
  <1>11. QED BY <1>1, <1>2, <1>3, <1>4, <1>5, <1>6, <1>7, <1>8, <1>9, <1>10 DEF Next

(* Init establishes TypeOK.                                                *)
LEMMA TypeInit == Init => TypeOK
<1> SUFFICES ASSUME Init PROVE TypeOK
  OBVIOUS
<1>1. << >> \in St!Bytes(0) /\ 0 \in 0..StrLen /\ 0 \in 0..WordLen
  BY DEF St!Bytes
<1>2. St!StorageTypeOK
  <2>1. St!NoRequest \in St!Request
    BY DEF St!Request
  <2>2. QED BY <1>1, <2>1 DEF Init, St!StorageInit, St!StorageTypeOK, St!Word,
                              St!ZeroWord, St!String, St!Buffer, St!Bytes
<1>3. NoCall \in HostCall \cup {NoCall} /\ NoOutcome \in Outcome \cup {NoOutcome}
  OBVIOUS
<1>4. ops \in 0..MaxOps
  BY DEF Init
<1>5. QED BY <1>2, <1>3, <1>4, Zenon DEF Init, TypeOK

(* The invocation state is well typed in every reachable state.           *)
THEOREM TypeCorrect == Spec => []TypeOK
BY TypeInit, TypeStep, PTL DEF Spec

-----------------------------------------------------------------------------
(* DispatchCorrect is not inductive by itself: a step from "dispatch" to  *)
(* "body" must know that the prelude let a nonzero value through only     *)
(* when early aborts are off, and a halt before any body must know that   *)
(* no body was entered. ControlInv says where each control point stands.  *)
ControlInv ==
  /\ (pc = "halted") <=> (out # NoOutcome)
  /\ pc \in {"prelude", "dispatch"} => entered = NoFunction
  /\ pc = "body" => entered \in Selector
  /\ pc \in {"dispatch", "body"} => ~(EarlyValueAborts /\ NonZero(msgValue))

IInv == TypeOK /\ ControlInv /\ DispatchCorrect

(* A halt sets an outcome that is not NoOutcome.                           *)
LEMMA HaltOutcome ==
  ASSUME NEW c, NEW d \in {"empty", "data"}, Halt(c, d)
  PROVE  pc' = "halted" /\ out' # NoOutcome
BY DEF Halt, NoOutcome

(* A body step that leaves the inputs and the entered function alone and  *)
(* either stays in the body or halts with an outcome keeps IInv.          *)
LEMMA BodyStepKeepsIInv ==
  ASSUME IInv, TypeOK', pc = "body",
         UNCHANGED <<selector, argsOk, msgValue, entered>>,
         \/ pc' = "body" /\ out' = out
         \/ pc' = "halted" /\ out' # NoOutcome
  PROVE  IInv'
BY DEF IInv, ControlInv, DispatchCorrect

(* The branch after a host call either stays in the body or halts.        *)
LEMMA SuccessBranchControl ==
  ASSUME pc = "body", NEW fl \in BOOLEAN, NEW ok \in BOOLEAN, SuccessBranch(fl, ok)
  PROVE  \/ pc' = "body" /\ out' = out
         \/ pc' = "halted" /\ out' # NoOutcome
<1>1. CASE fl \/ ok
  BY <1>1 DEF SuccessBranch
<1>2. CASE ~fl /\ ~ok
  BY <1>2, HaltOutcome DEF SuccessBranch, AssertFailure
<1>3. QED BY <1>1, <1>2

LEMMA InitIInv == Init => IInv
BY TypeInit DEF Init, IInv, ControlInv, DispatchCorrect, NoOutcome

LEMMA IInvStep == IInv /\ [Next]_vars => IInv'
<1> SUFFICES ASSUME IInv, [Next]_vars PROVE IInv'
  OBVIOUS
<1>0. TypeOK'
  BY TypeStep DEF IInv
<1> USE <1>0
<1>1. CASE AbortIfValueTransfer
  BY <1>1 DEF AbortIfValueTransfer, AssertFailure, Halt, IInv, ControlInv,
              DispatchCorrect, NoOutcome, RevertEmpty
<1>2. CASE RuntimePrelude
  BY <1>2 DEF RuntimePrelude, IInv, ControlInv, DispatchCorrect
<1>3. CASE FunctionDispatch
  <2> USE DEF IInv, ControlInv, DispatchCorrect
  <2>1. CASE pc' = "halted"
    <3>1. out' = RevertEmpty /\ entered' = NoFunction
      BY <1>3, <2>1 DEF FunctionDispatch, AssertFailure, Halt, RevertEmpty
    <3>2. QED BY <2>1, <3>1 DEF RevertEmpty, NoOutcome
  <2>2. CASE pc' # "halted"
    <3>1. /\ selector \in Selector /\ argsOk
          /\ ~(NonpayableCheck(selector) /\ NonZero(msgValue))
          /\ pc' = "body" /\ entered' = selector /\ out' = out
      BY <1>3, <2>2 DEF FunctionDispatch, AssertFailure, Halt
    <3>2. NonZero(msgValue) => selector \in Payable
      BY <1>3, <3>1 DEF NonpayableCheck, FunctionDispatch
    <3>3. QED BY <1>3, <3>1, <3>2 DEF FunctionDispatch
  <2>3. QED BY <2>1, <2>2
<1>4. CASE StorageOp
  BY <1>4, BodyStepKeepsIInv DEF StorageOp, BodyStep
<1>5. ASSUME NEW k \in DOMAIN CallPrimitive, NEW f \in BOOLEAN,
             NEW v \in Value, NEW st \in {0, 1}, ExternalCall(k, f, v, st)
      PROVE  IInv'
  BY <1>5, SuccessBranchControl, BodyStepKeepsIInv DEF ExternalCall, BodyStep, IsSuccess
<1>6. ASSUME NEW f \in BOOLEAN, NEW v \in Value, NEW st \in {0, 1},
             ValueTransfer(f, v, st)
      PROVE  IInv'
  BY <1>6, SuccessBranchControl, BodyStepKeepsIInv DEF ValueTransfer, BodyStep, IsSuccess
<1>7. ASSUME NEW f \in BOOLEAN, NEW salted \in BOOLEAN, NEW v \in Value,
             NEW st \in {0, 1}, CreateContract(f, salted, v, st)
      PROVE  IInv'
  BY <1>7, SuccessBranchControl, BodyStepKeepsIInv DEF CreateContract, BodyStep,
     IsSuccess, CreateRet
<1>8. CASE FunctionReturn
  <2>1. pc' = "halted" /\ out' # NoOutcome
    BY <1>8, HaltOutcome DEF FunctionReturn, ReturnAbi, ReturnEmptyAbi, ReturnCode,
                             AssertFailure
  <2>2. QED BY <1>8, <2>1, BodyStepKeepsIInv DEF FunctionReturn
<1>9. CASE Done \/ UNCHANGED vars
  BY <1>9 DEF Done, vars, IInv, ControlInv, DispatchCorrect
<1>10. QED BY <1>1, <1>2, <1>3, <1>4, <1>5, <1>6, <1>7, <1>8, <1>9 DEF Next

(* The dispatcher is correct in every reachable state, for every dispatch *)
(* table, payability and value width (DispatchCorrect).                   *)
THEOREM DispatchSafety == Spec => []DispatchCorrect
<1>1. IInv => DispatchCorrect
  BY DEF IInv
<1>2. QED BY InitIInv, IInvStep, <1>1, PTL DEF Spec

(* system_halt is final (HaltIsFinal): once an outcome exists, the only   *)
(* step is Done, which changes nothing.                                   *)
THEOREM HaltFinal == Spec => HaltIsFinal
<1>1. IInv /\ [Next]_vars =>
        [out # NoOutcome => UNCHANGED <<out, store, strStore, lastCall, success>>]_vars
  <2> SUFFICES ASSUME IInv, [Next]_vars, out # NoOutcome
               PROVE  UNCHANGED <<out, store, strStore, lastCall, success>>
    OBVIOUS
  <2>1. pc = "halted"
    BY DEF IInv, ControlInv
  <2>2. QED
    BY <2>1 DEF Next, vars, Done, AbortIfValueTransfer, RuntimePrelude, FunctionDispatch,
                StorageOp, BodyStep, ExternalCall, ValueTransfer, CreateContract,
                FunctionReturn
<1>2. QED BY InitIInv, IInvStep, <1>1, PTL DEF Spec, HaltIsFinal
-----------------------------------------------------------------------------
(* The call properties need only TypeOK: a step that leaves lastCall alone *)
(* either leaves success and the outcome alone too, or starts from the    *)
(* body, which an unflagged failed call has already left for "halted".    *)
CallInv == TypeOK /\ CallStatusRespected /\ CallValueOrder

(* The conversion external_call and value_transfer apply is the host's    *)
(* byte order.                                                            *)
LEMMA Be32ToLeNIsHostOrder ==
  ASSUME NEW v \in Value
  PROVE  Be32ToLeN(v) = HostOrder(v)
BY DEF Be32ToLeN, HostOrder

(* After a call or transfer of status st, the branch respects st.        *)
LEMMA SuccessBranchRespects ==
  ASSUME NEW fl \in BOOLEAN, NEW st \in {0, 1},
         SuccessBranch(fl, IsSuccess(st))
  PROVE  IF fl THEN success' = (st = 0)
               ELSE st # 0 => (pc' = "halted" /\ out'.code = 1)
BY DEF SuccessBranch, IsSuccess, AssertFailure, Halt

LEMMA CallInvStep == CallInv /\ [Next]_vars => CallInv'
<1> SUFFICES ASSUME CallInv, [Next]_vars PROVE CallInv'
  OBVIOUS
<1>0. TypeOK'
  BY TypeStep DEF CallInv
<1> USE <1>0 DEF CallInv, CallStatusRespected, StatusRespected, CallValueOrder,
                 ValueOrder
<1>1. ASSUME NEW k \in DOMAIN CallPrimitive, NEW f \in BOOLEAN,
             NEW v \in Value, NEW st \in {0, 1}, ExternalCall(k, f, v, st)
      PROVE  CallInv'
  BY <1>1, SuccessBranchRespects, Be32ToLeNIsHostOrder DEF ExternalCall
<1>2. ASSUME NEW f \in BOOLEAN, NEW v \in Value, NEW st \in {0, 1},
             ValueTransfer(f, v, st)
      PROVE  CallInv'
  BY <1>2, SuccessBranchRespects, Be32ToLeNIsHostOrder DEF ValueTransfer
<1>3. ASSUME NEW f \in BOOLEAN, NEW salted \in BOOLEAN, NEW v \in Value,
             NEW st \in {0, 1}, CreateContract(f, salted, v, st)
      PROVE  CallInv'
  <2>1. lastCall'.prim \in CreatePrim
    BY <1>3 DEF CreateContract, CreatePrim
  <2>2. CreatePrim \cap (CallPrim \cup {"transfer"}) = {}
    BY DEF CreatePrim, CallPrim, CallPrimitive
  <2>3. QED BY <2>1, <2>2
(* The remaining steps leave lastCall alone; those that may change the    *)
(* outcome or the flag start outside "halted".                            *)
<1>4. ASSUME UNCHANGED lastCall,
             \/ UNCHANGED <<pc, out, success>>
             \/ pc # "halted" /\ UNCHANGED success
      PROVE  CallInv'
  BY <1>4
<1>5. CASE AbortIfValueTransfer \/ RuntimePrelude \/ FunctionDispatch
            \/ FunctionReturn
  BY <1>5, <1>4 DEF AbortIfValueTransfer, RuntimePrelude, FunctionDispatch,
                    FunctionReturn
<1>6. CASE StorageOp
  BY <1>6, <1>4 DEF StorageOp
<1>7. CASE Done \/ UNCHANGED vars
  BY <1>7, <1>4 DEF Done, vars
<1>8. QED BY <1>1, <1>2, <1>3, <1>5, <1>6, <1>7 DEF Next

LEMMA InitCallInv == Init => CallInv
BY TypeInit DEF Init, CallInv, CallStatusRespected, StatusRespected,
                CallValueOrder, ValueOrder, NoCall, CallPrim, CallPrimitive

(* Every host status of an external call or value transfer is respected  *)
(* (CallStatusRespected): with a success output the flag is the status,   *)
(* without one a failure has reverted, for every operation bound.         *)
THEOREM CallStatusSafety == Spec => []CallStatusRespected
<1>1. CallInv => CallStatusRespected
  BY DEF CallInv
<1>2. QED BY <1>1, InitCallInv, CallInvStep, PTL DEF Spec

(* Every value of an external call or value transfer reaches the host    *)
(* byte-reversed by __be32toleN (CallValueOrder), for every value width.  *)
THEOREM CallValueSafety == Spec => []CallValueOrder
<1>1. CallInv => CallValueOrder
  BY DEF CallInv
<1>2. QED BY <1>1, InitCallInv, CallInvStep, PTL DEF Spec
-----------------------------------------------------------------------------
(* The shadowed `ret` of create_contract, for every instance: after a     *)
(* create or create2 that asked for a success output, the flag is true    *)
(* whatever status the host returned. The create_status run shows one     *)
(* failed creation; this says every flagged creation reports success.     *)
CreateReportsSuccess ==
  (lastCall.prim \in CreatePrim /\ lastCall.flagged) => success

LEMMA CreateReportsStep ==
  TypeOK /\ CreateReportsSuccess /\ [Next]_vars => CreateReportsSuccess'
<1> SUFFICES ASSUME TypeOK, CreateReportsSuccess, [Next]_vars
             PROVE  CreateReportsSuccess'
  OBVIOUS
<1>1. ASSUME NEW f \in BOOLEAN, NEW salted \in BOOLEAN, NEW v \in Value,
             NEW st \in {0, 1}, CreateContract(f, salted, v, st)
      PROVE  CreateReportsSuccess'
  BY <1>1 DEF CreateContract, SuccessBranch, IsSuccess, CreateRet,
              CreateReportsSuccess
<1>2. ASSUME NEW k \in DOMAIN CallPrimitive, NEW f \in BOOLEAN,
             NEW v \in Value, NEW st \in {0, 1},
             ExternalCall(k, f, v, st) \/ ValueTransfer(f, v, st)
      PROVE  CreateReportsSuccess'
  <2>1. lastCall'.prim \notin CreatePrim
    BY <1>2 DEF ExternalCall, ValueTransfer, CreatePrim, CallPrimitive
  <2>2. QED BY <2>1 DEF CreateReportsSuccess
<1>3. CASE UNCHANGED <<lastCall, success>>
  BY <1>3 DEF CreateReportsSuccess
<1>4. QED
  <2>1. CASE \E k \in DOMAIN CallPrimitive, f \in BOOLEAN, v \in Value,
                st \in {0, 1} : ExternalCall(k, f, v, st)
    BY <2>1, <1>2
  <2>2. CASE \E f \in BOOLEAN, v \in Value, st \in {0, 1} : ValueTransfer(f, v, st)
    <3>1. "Regular" \in DOMAIN CallPrimitive
      BY DEF CallPrimitive
    <3>2. QED BY <2>2, <3>1, <1>2
  <2>3. CASE \E f, salted \in BOOLEAN, v \in Value, st \in {0, 1} :
                CreateContract(f, salted, v, st)
    BY <2>3, <1>1
  <2>4. CASE AbortIfValueTransfer \/ RuntimePrelude \/ FunctionDispatch
              \/ StorageOp \/ FunctionReturn \/ Done \/ UNCHANGED vars
    BY <2>4, <1>3 DEF AbortIfValueTransfer, RuntimePrelude, FunctionDispatch,
                      StorageOp, FunctionReturn, Done, vars
  <2>5. QED BY <2>1, <2>2, <2>3, <2>4 DEF Next

(* Every create or create2 with a success output reports success, for     *)
(* every value of the constants (the create_contract code bug).           *)
THEOREM CreateAlwaysReportsSuccess == Spec => []CreateReportsSuccess
<1>1. Init => CreateReportsSuccess
  BY DEF Init, CreateReportsSuccess, NoCall, CreatePrim
<1>2. QED BY <1>1, TypeInit, TypeStep, CreateReportsStep, PTL DEF Spec
=============================================================================
