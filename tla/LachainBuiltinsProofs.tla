------------------------ MODULE LachainBuiltinsProofs ------------------------
(***************************************************************************)
(* Proofs about the builtins (module LachainBuiltins), for every width of *)
(* values, addresses and context words that satisfies the assumptions.    *)
(***************************************************************************)
EXTENDS LachainBuiltins, TLAPS

USE BuiltinsAssumption, ValueAssumption DEF BuiltinsAssumption, ValueAssumption

(* AddressRoundTrip is not inductive: a call step must know that the      *)
(* address the code holds is the one the host gave. Every source but     *)
(* `hash`, whose digest is reversed, holds what the host wrote.           *)
HeldIsGiven ==
  /\ DOMAIN held = Src
  /\ DOMAIN given = Src
  /\ \A s \in Src \ {"Hash"} : held[s] = given[s]

AInv == HeldIsGiven /\ AddressRoundTrip

(* Loading what the host wrote keeps every non-hash source equal to it.  *)
LEMMA HostWritesKeep ==
  ASSUME HeldIsGiven, NEW src \in Src, NEW b, HostWrites(src, b)
  PROVE  HeldIsGiven'
BY DEF HeldIsGiven, HostWrites

(* A call argument built from a held address carries the bytes the host  *)
(* gave for it.                                                           *)
LEMMA AddressArg ==
  ASSUME HeldIsGiven, NEW as \in Src, NEW a, a = Arg(as, AddressBuffer(held[as]))
  PROVE  a.src \in AddressSrc => a.bytes = a.gave
<1> SUFFICES ASSUME as \in AddressSrc PROVE a.bytes = a.gave
  BY DEF Arg
<1>1. as # Literal /\ as # "Hash"
  BY DEF AddressSrc, Literal
<1>2. QED BY <1>1 DEF HeldIsGiven, Arg, AddressBuffer

(* Init establishes AInv: no call has been issued.                       *)
LEMMA InitAInv == Init => AInv
BY DEF Init, AInv, HeldIsGiven, AddressRoundTrip, NoCall

LEMMA AInvStep == AInv /\ [Next]_vars => AInv'
<1> SUFFICES ASSUME AInv, [Next]_vars PROVE AInv'
  OBVIOUS
<1> USE DEF AInv
<1>1. ASSUME NEW b \in DOMAIN GetterWidth, SingleValueStack(b)
      PROVE  AInv'
  <2>1. PICK x \in Bytes(GetterWidth[b]) : HostWrites(b, x)
    BY <1>1 DEF SingleValueStack
  <2>2. b \in Src
    BY DEF Src
  <2>3. QED BY <1>1, <2>1, <2>2, HostWritesKeep DEF SingleValueStack, AddressRoundTrip
<1>2. CASE ValueTransferred
  <2>1. PICK x \in Value : HostWrites("ValueTransferred", x)
    BY <1>2 DEF ValueTransferred
  <2>2. "ValueTransferred" \in Src
    BY DEF Src
  <2>3. QED BY <1>2, <2>1, <2>2, HostWritesKeep DEF ValueTransferred, AddressRoundTrip
<1>3. ASSUME NEW k \in HashKind, Hash(k)
      PROVE  AInv'
  <2>1. "Hash" \in Src
    BY DEF Src
  <2>2. HeldIsGiven'
    BY <1>3, <2>1 DEF Hash, HeldIsGiven
  <2>3. QED BY <1>3, <2>2 DEF Hash, AddressRoundTrip
<1>4. ASSUME NEW ns \in ArgOf(Len64) \cup {Literal}, BlockHash(ns)
      PROVE  AInv'
  <2>1. PICK h \in Value : HostWrites("BlockHash", h)
    BY <1>4 DEF BlockHash
  <2>2. "BlockHash" \in Src
    BY DEF Src
  <2>3. "address" \notin DOMAIN sent'
    BY <1>4 DEF BlockHash
  <2>4. QED BY <2>1, <2>2, <2>3, HostWritesKeep DEF AddressRoundTrip
<1>5. ASSUME NEW as \in ArgOf(AddrLen), Balance(as)
      PROVE  AInv'
  <2>1. PICK x \in Value : HostWrites("Balance", x)
    BY <1>5 DEF Balance
  <2>2. "Balance" \in Src /\ as \in Src
    BY DEF Src, ArgOf
  <2>3. sent'.address = Arg(as, AddressBuffer(held[as]))
    BY <1>5 DEF Balance
  <2>4. HeldIsGiven'
    BY <2>1, <2>2, HostWritesKeep
  <2>5. sent'.address.src \in AddressSrc => sent'.address.bytes = sent'.address.gave
    BY <2>2, <2>3, AddressArg
  <2>6. QED BY <2>4, <2>5 DEF AddressRoundTrip
<1>6. ASSUME NEW hs \in ArgOf(ValLen), Ecrecover(hs)
      PROVE  AInv'
  <2>1. PICK r \in Bytes(AddrLen) : HostWrites("Recovered", r)
    BY <1>6 DEF Ecrecover
  <2>2. "Recovered" \in Src
    BY DEF Src
  <2>3. "address" \notin DOMAIN sent'
    BY <1>6 DEF Ecrecover
  <2>4. QED BY <2>1, <2>2, <2>3, HostWritesKeep DEF AddressRoundTrip
<1>7. ASSUME NEW p, NEW vs \in ArgOf(ValLen), NEW as \in ArgOf(AddrLen),
             ExternalCall(p, vs, as) \/ ValueTransfer(vs, as)
      PROVE  AInv'
  <2>1. as \in Src
    BY DEF ArgOf
  <2>2. /\ UNCHANGED <<held, given>>
        /\ sent'.address = Arg(as, AddressBuffer(held[as]))
        /\ "address" \in DOMAIN sent'
    <3>1. CASE ExternalCall(p, vs, as)
      BY <3>1 DEF ExternalCall
    <3>2. CASE ValueTransfer(vs, as)
      BY <3>2 DEF ValueTransfer
    <3>3. QED BY <1>7, <3>1, <3>2
  <2>3. QED BY <2>1, <2>2, AddressArg DEF AddressRoundTrip, HeldIsGiven
<1>8. CASE ReturnData \/ Done \/ UNCHANGED vars
  BY <1>8 DEF ReturnData, Done, vars, HeldIsGiven, AddressRoundTrip
<1>9. QED BY <1>1, <1>2, <1>3, <1>4, <1>5, <1>6, <1>7, <1>8 DEF Next

(* Every address the code read from the host and hands back to it, as a  *)
(* call or transfer target or a balance lookup, reaches the host as the   *)
(* bytes the host gave (AddressRoundTrip), for every address width.       *)
THEOREM AddressSafety == Spec => []AddressRoundTrip
<1>1. AInv => AddressRoundTrip
  BY DEF AInv
<1>2. QED BY InitAInv, AInvStep, <1>1, PTL DEF Spec
-----------------------------------------------------------------------------
(* The buffers the builtins read and write are byte strings of a fixed   *)
(* width; what each result is typed as is fixed by spec 4.6 (ResultType). *)
AnyValue == {NoValue} \cup UNION {Bytes(n) : n \in {Len64, Len160, AddrLen, ValLen}}

(* A buffer of n bytes is a sequence of n bytes.                          *)
LEMMA BytesIsSeq ==
  ASSUME NEW n \in Nat, NEW d \in Bytes(n)
  PROVE  d \in Seq(ByteVal) /\ Len(d) = n
BY DEF Bytes

(* Every value a source can hold is a byte sequence.                      *)
LEMMA AnyValueIsSeq ==
  ASSUME NEW d \in AnyValue
  PROVE  d \in Seq(ByteVal)
<1>1. CASE d = NoValue
  BY <1>1 DEF NoValue
<1>2. CASE d # NoValue
  <2>1. PICK n \in {Len64, Len160, AddrLen, ValLen} : d \in Bytes(n)
    BY <1>2 DEF AnyValue
  <2>2. QED BY <2>1, BytesIsSeq
<1>3. QED BY <1>1, <1>2

(* __beNtoleN keeps the width of the digest it reverses.                  *)
LEMMA BeNToLeNType ==
  ASSUME NEW n \in Nat, NEW d \in Bytes(n)
  PROVE  BeNToLeN(d) \in Bytes(n)
<1>1. Len(d) = n /\ DOMAIN d = 1..n
  BY BytesIsSeq DEF Bytes
<1>2. \A i \in 1..n : n + 1 - i \in 1..n
  OBVIOUS
<1>3. QED BY <1>1, <1>2 DEF BeNToLeN, Bytes

(* __be32toleN keeps a value a value.                                     *)
LEMMA Be32ToLeNType ==
  ASSUME NEW v \in Value
  PROVE  Be32ToLeN(v) \in Value
<1>1. \A i \in 1..ValLen : ValLen + 1 - i \in 1..ValLen
  OBVIOUS
<1>2. QED BY <1>1 DEF Be32ToLeN, Value

(* A call argument of width w built from a source or a literal is typed.  *)
LEMMA ArgType ==
  ASSUME TypeOK, NEW w \in Nat, NEW src \in Src \cup {Literal}, NEW b \in Bytes(w)
  PROVE  Arg(src, b) \in ArgVal(w)
<1>1. b \in Seq(ByteVal)
  BY BytesIsSeq
<1>2. src \in Src => given[src] \in AnyValue
  BY DEF TypeOK, AnyValue
<1>3. QED BY <1>1, <1>2, AnyValueIsSeq DEF Arg, ArgVal

(* Loading what the host wrote, of the width spec 4.6 gives the source,  *)
(* keeps held and given typed.                                            *)
LEMMA HostWritesType ==
  ASSUME TypeOK, NEW src \in Src, NEW w \in {Len64, Len160, AddrLen, ValLen},
         NEW b \in Bytes(w), b \in ResultType(src), HostWrites(src, b)
  PROVE  /\ held' \in [Src -> AnyValue]
         /\ given' \in [Src -> AnyValue]
         /\ \A s \in Src : held'[s] \in {NoValue} \cup ResultType(s)
<1>1. b \in AnyValue
  BY DEF AnyValue
<1>2. QED BY <1>1 DEF TypeOK, AnyValue, HostWrites

(* The widths of the getters are the ones spec 4.6 gives them.            *)
LEMMA GetterWidthResult ==
  ASSUME NEW b \in DOMAIN GetterWidth
  PROVE  /\ GetterWidth[b] \in {Len64, Len160, AddrLen, ValLen}
         /\ Bytes(GetterWidth[b]) \subseteq ResultType(b)
BY DEF GetterWidth, ResultType, AddressSrc, Value, Bytes

-----------------------------------------------------------------------------
(* The builtin state is well typed in every reachable state, for every   *)
(* width of values, addresses, 64-bit words and ripemd-160 digests.       *)
LEMMA BuiltinsTypeInit == Init => TypeOK
<1> SUFFICES ASSUME Init PROVE TypeOK
  OBVIOUS
<1>1. << >> \in String
  BY DEF String, Bytes
<1>2. QED BY <1>1 DEF Init, TypeOK, NoValue, NoCall, NoVector

LEMMA BuiltinsTypeStep == TypeOK /\ [Next]_vars => TypeOK'
<1> SUFFICES ASSUME TypeOK, [Next]_vars PROVE TypeOK'
  OBVIOUS
<1> DEFINE RestTypeOK ==
      /\ sent \in Call \cup {NoCall}
      /\ retBuf \in String
      /\ retVec \in Vector \cup {NoVector}
      /\ ops \in 0..MaxOps
<1> DEFINE HeldTypeOK ==
      /\ held \in [Src -> AnyValue]
      /\ given \in [Src -> AnyValue]
      /\ \A s \in Src : held[s] \in {NoValue} \cup ResultType(s)
<1>0. TypeOK <=> HeldTypeOK /\ RestTypeOK
  BY DEF TypeOK, AnyValue
<1>a. HeldTypeOK /\ RestTypeOK
  BY <1>0
<1>b. HeldTypeOK' /\ RestTypeOK' => TypeOK'
  BY DEF TypeOK, AnyValue
<1>1. ASSUME NEW b \in DOMAIN GetterWidth, SingleValueStack(b)
      PROVE  TypeOK'
  <2>1. PICK x \in Bytes(GetterWidth[b]) : HostWrites(b, x)
    BY <1>1 DEF SingleValueStack
  <2>2. b \in Src
    BY DEF Src
  <2>3. HeldTypeOK'
    BY <2>1, <2>2, GetterWidthResult, HostWritesType
  <2>4. RestTypeOK'
    BY <1>1, <1>a DEF SingleValueStack, Step
  <2>5. QED BY <2>3, <2>4, <1>b
<1>2. CASE ValueTransferred
  <2>1. PICK x \in Value : HostWrites("ValueTransferred", x)
    BY <1>2 DEF ValueTransferred
  <2>2. "ValueTransferred" \in Src /\ x \in Bytes(ValLen)
        /\ x \in ResultType("ValueTransferred")
    BY DEF Src, Value, Bytes, ResultType, AddressSrc
  <2>3. HeldTypeOK'
    BY <2>1, <2>2, HostWritesType
  <2>4. RestTypeOK'
    BY <1>2, <1>a DEF ValueTransferred, Step
  <2>5. QED BY <2>3, <2>4, <1>b
<1>3. ASSUME NEW k \in HashKind, Hash(k)
      PROVE  TypeOK'
  <2>1. PICK d \in Bytes(HashLen(k)) :
          /\ held' = [held EXCEPT !["Hash"] = BeNToLeN(d)]
          /\ given' = [given EXCEPT !["Hash"] = d]
    BY <1>3 DEF Hash
  <2>2. HashLen(k) \in {Len160, ValLen}
    BY DEF HashLen
  <2>3. BeNToLeN(d) \in Bytes(HashLen(k))
    BY <2>2, BeNToLeNType
  <2>4. d \in AnyValue /\ BeNToLeN(d) \in AnyValue
    BY <2>2, <2>3 DEF AnyValue
  <2>5. BeNToLeN(d) \in ResultType("Hash")
    BY <2>2, <2>3 DEF ResultType, AddressSrc
  <2>6. "Hash" \in Src
    BY DEF Src
  <2>7. HeldTypeOK'
    BY <1>a, <2>1, <2>4, <2>5, <2>6
  <2>8. RestTypeOK'
    BY <1>3, <1>a DEF Hash, Step
  <2>9. QED BY <2>7, <2>8, <1>b
<1>4. ASSUME NEW ns \in ArgOf(Len64) \cup {Literal}, BlockHash(ns)
      PROVE  TypeOK'
  <2>1. PICK h \in Value : HostWrites("BlockHash", h)
    BY <1>4 DEF BlockHash
  <2>2. "BlockHash" \in Src /\ h \in Bytes(ValLen) /\ h \in ResultType("BlockHash")
    BY DEF Src, Value, Bytes, ResultType, AddressSrc
  <2>3. HeldTypeOK'
    BY <2>1, <2>2, HostWritesType
  <2>4. (IF ns = Literal THEN [i \in 1..Len64 |-> 0] ELSE held[ns]) \in Bytes(Len64)
    BY DEF ArgOf, Bytes
  <2>5. ns \in Src \cup {Literal}
    BY DEF ArgOf
  <2>6. sent' \in Call
    BY <1>4, <2>4, <2>5, ArgType DEF BlockHash, Call
  <2>7. RestTypeOK'
    BY <1>4, <1>a, <2>6 DEF BlockHash, Step
  <2>8. QED BY <2>3, <2>7, <1>b
<1>5. ASSUME NEW as \in ArgOf(AddrLen), Balance(as)
      PROVE  TypeOK'
  <2>1. PICK x \in Value : HostWrites("Balance", x)
    BY <1>5 DEF Balance
  <2>2. "Balance" \in Src /\ x \in Bytes(ValLen) /\ x \in ResultType("Balance")
    BY DEF Src, Value, Bytes, ResultType, AddressSrc
  <2>3. HeldTypeOK'
    BY <2>1, <2>2, HostWritesType
  <2>4. as \in Src /\ AddressBuffer(held[as]) \in Bytes(AddrLen)
    BY DEF ArgOf, AddressBuffer
  <2>5. sent' \in Call
    BY <1>5, <2>4, ArgType DEF Balance, Call
  <2>6. /\ ops' \in 0..MaxOps
        /\ retBuf' = retBuf /\ retVec' = retVec
    BY <1>5, <1>a DEF Balance, Step
  <2>7. QED BY <2>3, <2>5, <2>6, <1>a, <1>b
<1>6. ASSUME NEW hs \in ArgOf(ValLen), Ecrecover(hs)
      PROVE  TypeOK'
  <2>1. PICK r \in Bytes(AddrLen) : HostWrites("Recovered", r)
    BY <1>6 DEF Ecrecover
  <2>2. "Recovered" \in Src /\ r \in ResultType("Recovered")
    BY DEF Src, ResultType, AddressSrc
  <2>3. HeldTypeOK'
    BY <2>1, <2>2, HostWritesType
  <2>4. hs \in Src /\ held[hs] \in Bytes(ValLen)
    BY DEF ArgOf
  <2>5. sent' \in Call
    BY <1>6, <2>4, ArgType DEF Ecrecover, Call
  <2>6. RestTypeOK'
    BY <1>6, <1>a, <2>5 DEF Ecrecover, Step
  <2>7. QED BY <2>3, <2>6, <1>b
<1>7. ASSUME NEW p \in {"invoke_contract", "invoke_static_contract",
                        "invoke_delegate_contract", "transfer"},
             NEW vs \in ArgOf(ValLen), NEW as \in ArgOf(AddrLen),
             \/ ExternalCall(p, vs, as)
             \/ p = "transfer" /\ ValueTransfer(vs, as)
      PROVE  TypeOK'
  <2>1. vs \in Src /\ as \in Src /\ held[vs] \in Value
        /\ AddressBuffer(held[as]) \in Bytes(AddrLen)
    BY DEF ArgOf, AddressBuffer, Value, Bytes
  <2>2. Be32ToLeN(held[vs]) \in Bytes(ValLen)
    BY <2>1, Be32ToLeNType DEF Value, Bytes
  <2>3. [prim |-> p, address |-> Arg(as, AddressBuffer(held[as])),
         value |-> Arg(vs, Be32ToLeN(held[vs]))] \in Call
    BY <2>1, <2>2, ArgType DEF Call
  <2>4. /\ sent' = [prim |-> p, address |-> Arg(as, AddressBuffer(held[as])),
                    value |-> Arg(vs, Be32ToLeN(held[vs]))]
        /\ ops' = ops + 1 /\ ops < MaxOps
        /\ held' = held /\ given' = given /\ retVec' = retVec
        /\ (retBuf' = retBuf \/ retBuf' \in String)
    <3>1. CASE ExternalCall(p, vs, as)
      BY <3>1 DEF ExternalCall, Step
    <3>2. CASE p = "transfer" /\ ValueTransfer(vs, as)
      BY <3>2 DEF ValueTransfer, Step
    <3>3. QED BY <1>7, <3>1, <3>2
  <2>5. HeldTypeOK'
    BY <2>4, <1>a
  <2>6. sent' \in Call
    BY <2>3, <2>4
  <2>7. ops' \in 0..MaxOps
    BY <2>4, <1>a
  <2>8. RestTypeOK'
    BY <2>4, <2>6, <2>7, <1>a
  <2>9. QED BY <2>5, <2>8, <1>b
<1>8. CASE ReturnData
  <2>1. PICK n \in 0..StrLen : retBuf \in Bytes(n)
    BY <1>a DEF String
  <2>2. Len(retBuf) = n
    BY <2>1, BytesIsSeq
  <2>3. retVec' \in Vector
    BY <1>8, <2>1, <2>2, <1>a DEF ReturnData, Vector, ReturnAlloc
  <2>4. QED BY <1>8, <2>3, <1>a, <1>b DEF ReturnData, Step
<1>9. CASE Done \/ UNCHANGED vars
  BY <1>9 DEF Done, vars, TypeOK
<1>10. QED BY <1>1, <1>2, <1>3, <1>4, <1>5, <1>6, <1>7, <1>8, <1>9 DEF Next

(* Every builtin result has the width spec 4.6 gives its builtin, and     *)
(* every host call and return vector is well formed (TypeOK).             *)
THEOREM BuiltinsTypeCorrect == Spec => []TypeOK
BY BuiltinsTypeInit, BuiltinsTypeStep, PTL DEF Spec

-----------------------------------------------------------------------------
(* ReturnCopyInBounds needs only TypeOK: the length return_data copies is *)
(* a natural number, so length + Header covers the header and the copy.   *)
LEMMA ReturnStep ==
  TypeOK /\ ReturnCopyInBounds /\ [Next]_vars => ReturnCopyInBounds'
<1> SUFFICES ASSUME TypeOK, ReturnCopyInBounds, [Next]_vars
             PROVE  ReturnCopyInBounds'
  OBVIOUS
<1>1. CASE ReturnData
  <2>1. PICK n \in 0..StrLen : retBuf \in Bytes(n)
    BY DEF TypeOK, String
  <2>2. Len(retBuf) \in Nat
    BY <2>1, BytesIsSeq
  <2>3. QED BY <1>1, <2>2 DEF ReturnData, ReturnAlloc, ReturnCopyInBounds
<1>2. CASE ~ReturnData
  <2>1. UNCHANGED retVec
    BY <1>2 DEF Next, SingleValueStack, ValueTransferred, Hash, BlockHash,
                Balance, Ecrecover, ExternalCall, ValueTransfer, Done, vars
  <2>2. QED BY <2>1 DEF ReturnCopyInBounds
<1>3. QED BY <1>1, <1>2

(* return_data's vector is copied within the block __malloc gave it, and  *)
(* its len and size state the length copied (ReturnCopyInBounds), for     *)
(* every header size and return-data bound.                               *)
THEOREM ReturnSafety == Spec => []ReturnCopyInBounds
<1>1. Init => ReturnCopyInBounds
  BY DEF Init, ReturnCopyInBounds
<1>2. QED BY <1>1, BuiltinsTypeInit, BuiltinsTypeStep, ReturnStep, PTL DEF Spec
=============================================================================
