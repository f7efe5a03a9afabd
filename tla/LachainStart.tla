---------------------------- MODULE LachainStart ----------------------------
(***************************************************************************)
(* One invocation of the `start` function the Lachain backend emits       *)
(* (src/emit/lachain.rs): the prelude and dispatcher of function_dispatch  *)
(* and runtime_prelude, a function body issuing storage operations (module *)
(* LachainStorage), external calls, value transfers and contract          *)
(* creations, and the termination primitives return_abi, return_empty_abi, *)
(* return_code and assert_failure, which all end in the non-returning     *)
(* system_halt.                                                            *)
(*                                                                         *)
(* The host's inputs are chosen in Init: the selector in the call data     *)
(* (one of the dispatch table or NoMatch), whether the remaining bytes     *)
(* decode, and msg.value. A host call's status is chosen per call. A value *)
(* is the sequence of ValLen bytes of its scratch word in memory.          *)
(***************************************************************************)
EXTENDS Naturals, Sequences, LachainValue

CONSTANTS
  Selector,    \* selectors of the message-call dispatch table
  Payable,     \* the ones whose function is payable
  NoMatch,     \* leading bytes that match no entry
  NoFunction,  \* marker: no function body entered yet
  MaxOps,      \* bound on the host operations one body issues
  Slot, SlotWidth, WordLen, StrLen

ASSUME StartAssumption ==
  /\ Payable \subseteq Selector
  /\ NoMatch \notin Selector
  /\ NoFunction \notin Selector
  /\ MaxOps \in Nat
  \* the storage module's assumption, for the constants passed through St
  /\ WordLen \in Nat \ {0}
  /\ SlotWidth \in [Slot -> 1..WordLen]
  /\ StrLen \in Nat

VARIABLES
  pc,          \* "prelude", "dispatch", "body" or "halted"
  selector,    \* host input: the selector of the call data
  argsOk,      \* host input: whether the arguments decode
  msgValue,    \* host input: the value sent with the invocation
  entered,     \* the function whose body runs, or NoFunction
  ops,         \* host operations the body has issued
  lastCall,    \* the last call/transfer/create handed to the host
  success,     \* the success output of the last call that asked for one
  out,         \* the HaltOutcome: status code and return data
  store, strStore, loaded, loadedStr, request

storageVars == <<store, strStore, loaded, loadedStr, request>>
vars == <<pc, selector, argsOk, msgValue, entered, ops, lastCall, success,
          out, store, strStore, loaded, loadedStr, request>>

St == INSTANCE LachainStorage

(* binary.function_abort_value_transfers, set by set_early_value_aborts   *)
(* outside src/: TRUE when no function of the contract is payable.        *)
EarlyValueAborts == Payable = {}

(* The host primitive external_call invokes for each ast::CallTy.         *)
CallPrimitive ==
  [Regular |-> "invoke_contract", Static |-> "invoke_static_contract",
   Delegate |-> "invoke_delegate_contract"]
CallPrim == {CallPrimitive[k] : k \in DOMAIN CallPrimitive}
CreatePrim == {"create", "create2"}

HostCall ==
  [prim : CallPrim \cup {"transfer"} \cup CreatePrim, flagged : BOOLEAN,
   status : {0, 1}, value : Value, hostValue : Value]
NoCall ==
  [prim |-> "none", flagged |-> FALSE, status |-> 0, value |-> ZeroValue,
   hostValue |-> ZeroValue]

Outcome == [code : {0, 1}, data : {"empty", "data"}]
NoOutcome == [code |-> 0, data |-> "none"]
RevertEmpty == [code |-> 1, data |-> "empty"]

(* Nonzero return codes a generated function hands to return_code.        *)
ErrorCode == {1, 2}

TypeOK ==
  /\ pc \in {"prelude", "dispatch", "body", "halted"}
  /\ selector \in Selector \cup {NoMatch}
  /\ argsOk \in BOOLEAN
  /\ msgValue \in Value
  /\ entered \in Selector \cup {NoFunction}
  /\ ops \in 0..MaxOps
  /\ lastCall \in HostCall \cup {NoCall}
  /\ success \in BOOLEAN
  /\ out \in Outcome \cup {NoOutcome}
  /\ St!StorageTypeOK

Init ==
  /\ pc = "prelude"
  /\ selector \in Selector \cup {NoMatch}
  /\ argsOk \in BOOLEAN
  /\ msgValue \in Value
  /\ entered = NoFunction
  /\ ops = 0
  /\ lastCall = NoCall
  /\ success = FALSE
  /\ out = NoOutcome
  /\ St!StorageInit

-----------------------------------------------------------------------------
(* Mutants: a halt that falls through; return_code passing the function's *)
(* code to system_halt.                                                   *)
AssertFailureReturns(data) ==
  /\ pc' = pc
  /\ out' = [code |-> 1, data |-> data]

ReturnCodePassed(ret) == /\ pc' = "halted"
                         /\ out' = [code |-> ret, data |-> "empty"]

(* Termination: set_return(data, len) then system_halt(code), which never *)
(* returns.                                                               *)
Halt(code, data) ==
  /\ pc' = "halted"
  /\ out' = [code |-> code, data |-> data]

AssertFailure(data) == Halt(1, data)
ReturnAbi == Halt(0, "data")
ReturnEmptyAbi == Halt(0, "empty")
(* "lachain start cannot return any value": the code is dropped.          *)
ReturnCode(ret) == AssertFailure("empty")

(* runtime_prelude, first step: with early value aborts, a nonzero        *)
(* msg.value reverts before the heap is even initialised.                 *)
AbortIfValueTransfer ==
  /\ pc = "prelude"
  /\ EarlyValueAborts
  /\ NonZero(msgValue)
  /\ AssertFailure("empty")
  /\ UNCHANGED <<selector, argsOk, msgValue, entered, ops, lastCall, success,
                 storageVars>>

(* Mutant: the prelude goes on after its abort check.                    *)
RuntimePreludeUnguarded ==
  /\ pc = "prelude"
  /\ pc' = "dispatch"
  /\ UNCHANGED <<selector, argsOk, msgValue, entered, ops, lastCall, success,
                 out, storageVars>>

(* runtime_prelude, the rest: __init_heap, get_call_size, __malloc and    *)
(* copy_call_value put the call data on the heap for the dispatcher.      *)
RuntimePrelude ==
  /\ pc = "prelude"
  /\ ~(EarlyValueAborts /\ NonZero(msgValue))
  /\ pc' = "dispatch"
  /\ UNCHANGED <<selector, argsOk, msgValue, entered, ops, lastCall, success,
                 out, storageVars>>

(* Mutant: the per-function value check dropped.                         *)
NonpayableCheckDropped(f) == FALSE

(* The predicate function_dispatch hands the dispatcher: whether this     *)
(* function must refuse value itself.                                     *)
NonpayableCheck(f) == ~EarlyValueAborts /\ f \notin Payable

(* function_dispatch: match the selector against the table; refuse value  *)
(* for a non-payable target before decoding; revert if the arguments do   *)
(* not decode; otherwise run the body.                                    *)
FunctionDispatch ==
  /\ pc = "dispatch"
  /\ \/ /\ selector = NoMatch
        /\ AssertFailure("empty")
        /\ UNCHANGED entered
     \/ /\ selector \in Selector
        /\ NonpayableCheck(selector) /\ NonZero(msgValue)
        /\ AssertFailure("empty")
        /\ UNCHANGED entered
     \/ /\ selector \in Selector
        /\ ~(NonpayableCheck(selector) /\ NonZero(msgValue))
        /\ ~argsOk
        /\ AssertFailure("empty")
        /\ UNCHANGED entered
     \/ /\ selector \in Selector
        /\ ~(NonpayableCheck(selector) /\ NonZero(msgValue))
        /\ argsOk
        /\ pc' = "body"
        /\ entered' = selector
        /\ UNCHANGED out
  /\ UNCHANGED <<selector, argsOk, msgValue, ops, lastCall, success,
                 storageVars>>

-----------------------------------------------------------------------------
(* The body: each host operation is one step, at most MaxOps of them.     *)
BodyStep ==
  /\ pc = "body"
  /\ ops < MaxOps
  /\ ops' = ops + 1

StorageOp ==
  /\ BodyStep
  /\ St!StorageNext
  /\ UNCHANGED <<pc, selector, argsOk, msgValue, entered, lastCall, success,
                 out>>

(* Mutant: the status never read, as in create_contract.                  *)
IsSuccessUnread(ret) == TRUE

(* is_success: the host status compared with 0.                           *)
IsSuccess(ret) == ret = 0

(* After a call: with a success output the flag takes is_success and      *)
(* execution goes on; without one, failure is assert_failure(null, 0).    *)
SuccessBranch(flagged, isSuccess) ==
  IF flagged
  THEN /\ success' = isSuccess
       /\ UNCHANGED <<pc, out>>
  ELSE /\ UNCHANGED success
       /\ IF isSuccess THEN UNCHANGED <<pc, out>> ELSE AssertFailure("empty")

(* external_call: the value goes through __be32toleN into a second        *)
(* scratch word, gas is staged, and the primitive of the call kind runs.  *)
ExternalCall(kind, flagged, v, status) ==
  /\ BodyStep
  /\ lastCall' = [prim |-> CallPrimitive[kind], flagged |-> flagged,
                  status |-> status, value |-> v, hostValue |-> Be32ToLeN(v)]
  /\ SuccessBranch(flagged, IsSuccess(status))
  /\ UNCHANGED <<selector, argsOk, msgValue, entered, storageVars>>

(* value_transfer: the same conversion, then the transfer primitive.      *)
ValueTransfer(flagged, v, status) ==
  /\ BodyStep
  /\ lastCall' = [prim |-> "transfer", flagged |-> flagged,
                  status |-> status, value |-> v, hostValue |-> Be32ToLeN(v)]
  /\ SuccessBranch(flagged, IsSuccess(status))
  /\ UNCHANGED <<selector, argsOk, msgValue, entered, storageVars>>

(* create_contract compares `ret` declared as const_zero() before the     *)
(* branch; the status of create/create2 is bound to an inner `let ret`    *)
(* that shadows it and is never read.                                     *)
CreateRet == 0

(* create_contract: the value is stored into value_ptr and passed as it   *)
(* is; create2 when a salt is given, create otherwise.                    *)
CreateContract(flagged, salted, v, status) ==
  /\ BodyStep
  /\ lastCall' = [prim |-> IF salted THEN "create2" ELSE "create",
                  flagged |-> flagged, status |-> status, value |-> v,
                  hostValue |-> v]
  /\ SuccessBranch(flagged, IsSuccess(CreateRet))
  /\ UNCHANGED <<selector, argsOk, msgValue, entered, storageVars>>

(* The body ends at a termination primitive.                              *)
FunctionReturn ==
  /\ pc = "body"
  /\ \/ ReturnAbi
     \/ ReturnEmptyAbi
     \/ \E ret \in ErrorCode : ReturnCode(ret)
     \/ \E d \in {"empty", "data"} : AssertFailure(d)
  /\ UNCHANGED <<selector, argsOk, msgValue, entered, ops, lastCall, success,
                 storageVars>>

(* After system_halt the host reclaims the invocation; nothing runs.      *)
Done ==
  /\ pc = "halted"
  /\ UNCHANGED vars

Next ==
  \/ AbortIfValueTransfer
  \/ RuntimePrelude
  \/ FunctionDispatch
  \/ StorageOp
  \/ \E k \in DOMAIN CallPrimitive, f \in BOOLEAN, v \in Value, st \in {0, 1} :
       ExternalCall(k, f, v, st)
  \/ \E f \in BOOLEAN, v \in Value, st \in {0, 1} : ValueTransfer(f, v, st)
  \/ \E f, salted \in BOOLEAN, v \in Value, st \in {0, 1} :
       CreateContract(f, salted, v, st)
  \/ FunctionReturn
  \/ Done

Spec == Init /\ [][Next]_vars

-----------------------------------------------------------------------------
(* Dispatch (spec 4.2): a body runs only for the selector of the call     *)
(* data and only once its arguments decoded; a non-payable body never     *)
(* runs with value, whether runtime_prelude's early abort or the          *)
(* dispatcher's per-function check refuses it; and an invocation that     *)
(* stops before any body reverts with empty data.                         *)
DispatchCorrect ==
  /\ entered \in Selector =>
       /\ entered = selector
       /\ argsOk
       /\ NonZero(msgValue) => entered \in Payable
  /\ (pc = "halted" /\ entered = NoFunction) => out = RevertEmpty

(* The host's status of a call handed to one of prims is respected (spec *)
(* 4.5): with a success output the flag is true exactly when the status   *)
(* was 0; without one, a nonzero status has ended the invocation with a   *)
(* revert.                                                                *)
StatusRespected(prims) ==
  lastCall.prim \in prims =>
    IF lastCall.flagged
    THEN success = (lastCall.status = 0)
    ELSE lastCall.status # 0 => (pc = "halted" /\ out.code = 1)

(* ... for external calls and value transfers.                            *)
CallStatusRespected == StatusRespected(CallPrim \cup {"transfer"})

(* ... for create and create2.                                            *)
CreateStatusRespected == StatusRespected(CreatePrim)

(* The host's call ABI takes the value word little-endian, the reverse of *)
(* the word the code holds (spec 4.5).                                    *)
HostOrder(v) == [i \in 1..ValLen |-> v[ValLen + 1 - i]]

(* Every value handed to one of prims reaches the host in its byte order. *)
ValueOrder(prims) ==
  lastCall.prim \in prims => lastCall.hostValue = HostOrder(lastCall.value)

(* ... for external calls and value transfers.                            *)
CallValueOrder == ValueOrder(CallPrim \cup {"transfer"})

(* ... for create and create2.                                            *)
CreateValueOrder == ValueOrder(CreatePrim)

(* system_halt never returns (spec 4.7): once an outcome exists it never  *)
(* changes, and no storage write, host call or flag update follows it.    *)
HaltIsFinal ==
  [][out # NoOutcome =>
       UNCHANGED <<out, store, strStore, lastCall, success>>]_vars
=============================================================================
