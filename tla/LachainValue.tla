---------------------------- MODULE LachainValue ----------------------------
(***************************************************************************)
(* The value word of src/emit/lachain.rs: msg.value, call and transfer    *)
(* values and 256-bit builtins are words of value_length bytes, held in   *)
(* memory as ValLen bytes; __be32toleN, the conversion external_call and  *)
(* value_transfer apply before the host sees a value, reverses them.      *)
(***************************************************************************)
EXTENDS Naturals

CONSTANTS
  ValLen,      \* bytes in a value word (value_length: 32)
  ByteVal      \* the byte values a model enumerates

ASSUME ValueAssumption ==
  /\ ValLen \in Nat \ {0}
  /\ 0 \in ByteVal

Value == [1..ValLen -> ByteVal]
ZeroValue == [i \in 1..ValLen |-> 0]
NonZero(v) == \E i \in 1..ValLen : v[i] # 0

(* Mutant: the conversion left out.                                      *)
Be32ToLeNSkipped(v) == v

(* __be32toleN(src, dst, n): reverses the n bytes of a word.              *)
Be32ToLeN(v) == [i \in 1..ValLen |-> v[ValLen + 1 - i]]
=============================================================================
