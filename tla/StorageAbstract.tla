-------------------------- MODULE StorageAbstract --------------------------
(***************************************************************************)
(* What the Storage Accessor promises to generated code (spec section 4.4  *)
(* and the storage items of section 8): every slot holds a typed value of  *)
(* its static width, or a byte string; a write stores the value the        *)
(* program passed, a read returns what the last write or delete of that    *)
(* slot left there, and a delete leaves the zero value. Each operation     *)
(* records itself and its arguments in request, so that a step of an       *)
(* implementation maps to the operation the program asked for and to no    *)
(* other. Bytes are listed least significant first.                        *)
(***************************************************************************)
EXTENDS Naturals, Sequences

CONSTANTS
  Slot,       \* storage keys of the contract
  SlotWidth,  \* the static width of each fixed slot, in bytes
  ByteVal,    \* byte values the model distinguishes
  StrLen      \* bound on the length of a stored string

VARIABLES
  absStore,   \* slot -> its typed value
  absStr,     \* slot -> its string value
  result,     \* the value the last fixed-width read returned
  resultStr,  \* the string the last string read returned
  request     \* the last operation the program asked for, with its arguments

absVars == <<absStore, absStr, result, resultStr, request>>

Value(s) == [1..SlotWidth[s] -> ByteVal]
ZeroValue(s) == [i \in 1..SlotWidth[s] |-> 0]
String == UNION {[1..n -> ByteVal] : n \in 0..StrLen}
NoRequest == [op |-> "none"]

Init ==
  /\ absStore = [s \in Slot |-> ZeroValue(s)]
  /\ absStr = [s \in Slot |-> << >>]
  /\ result = << >>
  /\ resultStr = << >>
  /\ request = NoRequest

Write(s, v) ==
  /\ absStore' = [absStore EXCEPT ![s] = v]
  /\ request' = [op |-> "int", slot |-> s, val |-> v]
  /\ UNCHANGED <<absStr, result, resultStr>>

Delete(s) ==
  /\ absStore' = [absStore EXCEPT ![s] = ZeroValue(s)]
  /\ request' = [op |-> "delete", slot |-> s]
  /\ UNCHANGED <<absStr, result, resultStr>>

Read(s) ==
  /\ result' = absStore[s]
  /\ request' = [op |-> "read", slot |-> s]
  /\ UNCHANGED <<absStore, absStr, resultStr>>

WriteString(s, b) ==
  /\ absStr' = [absStr EXCEPT ![s] = b]
  /\ request' = [op |-> "string", slot |-> s, val |-> b]
  /\ UNCHANGED <<absStore, result, resultStr>>

ReadString(s) ==
  /\ resultStr' = absStr[s]
  /\ request' = [op |-> "readString", slot |-> s]
  /\ UNCHANGED <<absStore, absStr, result>>

Next ==
  \E s \in Slot :
    \/ \E v \in Value(s) : Write(s, v)
    \/ Delete(s)
    \/ Read(s)
    \/ \E b \in String : WriteString(s, b)
    \/ ReadString(s)

Spec == Init /\ [][Next]_absVars
=============================================================================
