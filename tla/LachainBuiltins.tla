--------------------------- MODULE LachainBuiltins ---------------------------
(***************************************************************************)
(* The host values a function body reads and hands back: the context      *)
(* getters of `builtin` (single_value_stack and get_address),             *)
(* value_transferred, `hash`, ecrecover, blockhash, balance, return_data, *)
(* and the address and value arguments of external_call and               *)
(* value_transfer (src/emit/lachain.rs).                                  *)
(*                                                                         *)
(* A value is the sequence of bytes of its scratch buffer in memory. For  *)
(* each source the code reads, `given` keeps the bytes the host wrote and *)
(* `held` the value the code then holds; `sent` is the last host call     *)
(* with the arguments it read from memory, each tagged with the source    *)
(* the code took it from.                                                  *)
(***************************************************************************)
EXTENDS Naturals, Sequences, LachainValue

CONSTANTS
  AddrLen,     \* bytes of an address (address_length)
  Len64,       \* bytes of a 64-bit context value
  Len160,      \* bytes of a ripemd-160 digest
  StrLen,      \* bound on the length of return data
  Header,      \* bytes of the struct.vector header (len and size)
  MaxOps       \* bound on the builtins one body evaluates

ASSUME BuiltinsAssumption ==
  /\ AddrLen \in Nat \ {0}
  /\ Len64 \in Nat \ {0}
  /\ Len160 \in Nat \ {0}
  /\ StrLen \in Nat
  /\ Header \in Nat
  /\ MaxOps \in Nat

VARIABLES held, given, sent, retBuf, retVec, ops

vars == <<held, given, sent, retBuf, retVec, ops>>

Bytes(n) == [1..n -> ByteVal]
String == UNION {Bytes(n) : n \in 0..StrLen}

(* Mutant: the gas price read into a 64-bit buffer.                      *)
GetterWidthGasNarrow ==
  [BlockNumber |-> Len64, GasLimit |-> Len64, Timestamp |-> Len64,
   ChainId |-> Len64, BlockDifficulty |-> ValLen, BlockCoinbase |-> AddrLen,
   Gasleft |-> Len64, Sender |-> AddrLen, Value |-> ValLen,
   Origin |-> AddrLen, Gasprice |-> Len64, GetAddress |-> AddrLen]

(* The width single_value_stack! allocates for each context builtin, and  *)
(* get_address's address_type.                                            *)
GetterWidth ==
  [BlockNumber |-> Len64, GasLimit |-> Len64, Timestamp |-> Len64,
   ChainId |-> Len64, BlockDifficulty |-> ValLen, BlockCoinbase |-> AddrLen,
   Gasleft |-> Len64, Sender |-> AddrLen, Value |-> ValLen,
   Origin |-> AddrLen, Gasprice |-> ValLen, GetAddress |-> AddrLen]

(* Where a value the code holds came from.                                *)
Src == DOMAIN GetterWidth \cup
         {"ValueTransferred", "Balance", "BlockHash", "Hash", "Recovered"}
NoValue == <<>>
Literal == "literal"

(* Amounts the host hands over in its value byte order, and addresses.    *)
AmountSrc == {"Value", "ValueTransferred", "Gasprice", "Balance"}
AddressSrc == {"BlockCoinbase", "Sender", "Origin", "GetAddress", "Recovered"}

HashKind == {"Keccak256", "Ripemd160", "Sha256"}
HashLen(k) == IF k = "Ripemd160" THEN Len160 ELSE ValLen

(* A call argument: the bytes the host reads, the source they hold, and   *)
(* (a ghost) the bytes the host gave for that source when it was read.    *)
Arg(src, b) == [src |-> src, bytes |-> b,
                gave |-> IF src = Literal THEN b ELSE given[src]]

ArgVal(w) == [src : Src \cup {Literal}, bytes : Bytes(w), gave : Seq(ByteVal)]

Call ==
  [prim : {"transfer", "invoke_contract", "invoke_static_contract",
           "invoke_delegate_contract"},
   address : ArgVal(AddrLen),
   value : ArgVal(ValLen)]
  \cup [prim : {"get_external_balance"},
        address : ArgVal(AddrLen)]
  \cup [prim : {"crypto_recover"},
        hash : ArgVal(ValLen)]
  \cup [prim : {"get_block_hash"},
        number : ArgVal(Len64)]
NoCall == [prim |-> "none"]

(* Spec 4.6's widths: 64-bit, address-length, value-length (msg.value,    *)
(* gas price, balance) and 256-bit (difficulty, block hash, bytes32).     *)
ResultType(s) ==
  CASE s \in {"BlockNumber", "GasLimit", "Timestamp", "ChainId", "Gasleft"}
         -> Bytes(Len64)
    [] s \in AddressSrc -> Bytes(AddrLen)
    [] s = "Hash" -> Bytes(ValLen) \cup Bytes(Len160)
    [] OTHER -> Value

Vector == [len : 0..StrLen, size : 0..StrLen, data : String,
           alloc : Nat, copyEnd : Nat]
NoVector == [len |-> 0, size |-> 0, data |-> <<>>, alloc |-> 0, copyEnd |-> 0]

TypeOK ==
  /\ held \in [Src -> {NoValue} \cup UNION {Bytes(n) : n \in {Len64, Len160, AddrLen, ValLen}}]
  /\ given \in [Src -> {NoValue} \cup UNION {Bytes(n) : n \in {Len64, Len160, AddrLen, ValLen}}]
  \* each result has the width spec 4.6 gives its builtin
  /\ \A s \in Src : held[s] \in {NoValue} \cup ResultType(s)
  /\ sent \in Call \cup {NoCall}
  /\ retBuf \in String
  /\ retVec \in Vector \cup {NoVector}
  /\ ops \in 0..MaxOps

Init ==
  /\ held = [s \in Src |-> NoValue]
  /\ given = [s \in Src |-> NoValue]
  /\ sent = NoCall
  /\ retBuf = <<>>
  /\ retVec = NoVector
  /\ ops = 0

-----------------------------------------------------------------------------
(* Each builtin is one step of a body, at most MaxOps of them.            *)
Step ==
  /\ ops < MaxOps
  /\ ops' = ops + 1

(* The code loads, unconverted, the bytes the host wrote into its buffer. *)
HostWrites(src, b) ==
  /\ held' = [held EXCEPT ![src] = b]
  /\ given' = [given EXCEPT ![src] = b]

(* Values the code holds of width w, as call arguments.                   *)
ArgOf(w) == {s \in Src : held[s] \in Bytes(w)}

(* single_value_stack!(name, func, width) and get_address: allocate a     *)
(* buffer of the width, let the primitive fill it, load it.               *)
SingleValueStack(b) ==
  /\ Step
  /\ \E x \in Bytes(GetterWidth[b]) : HostWrites(b, x)
  /\ UNCHANGED <<sent, retBuf, retVec>>

(* value_transferred: get_msgvalue into a value_type buffer, loaded.      *)
ValueTransferred ==
  /\ Step
  /\ \E x \in Value : HostWrites("ValueTransferred", x)
  /\ UNCHANGED <<sent, retBuf, retVec>>

(* __beNtoleN(res, temp, hashlen): reverses the digest's bytes.           *)
BeNToLeN(d) == [i \in DOMAIN d |-> d[Len(d) + 1 - i]]

(* hash: the crypto primitive writes its digest into `res`, which is      *)
(* reversed into the bytesN result.                                       *)
Hash(k) ==
  /\ Step
  /\ \E d \in Bytes(HashLen(k)) :
       /\ held' = [held EXCEPT !["Hash"] = BeNToLeN(d)]
       /\ given' = [given EXCEPT !["Hash"] = d]
  /\ UNCHANGED <<sent, retBuf, retVec>>

(* Mutant: an address converted like a value.                            *)
AddressBufferConverted(a) == BeNToLeN(a)

(* The bytes the host reads for an address: the address as stored, never *)
(* reversed.                                                              *)
AddressBuffer(a) == a

(* Builtin::BlockHash: the block number staged in an i64 buffer; the      *)
(* 256-bit hash loaded as the host wrote it.                              *)
BlockHash(ns) ==
  /\ Step
  /\ sent' = [prim |-> "get_block_hash",
              number |-> Arg(ns, IF ns = Literal THEN [i \in 1..Len64 |-> 0]
                                               ELSE held[ns])]
  /\ \E h \in Value : HostWrites("BlockHash", h)
  /\ UNCHANGED <<retBuf, retVec>>

(* Builtin::Balance: the address staged in its buffer, the balance loaded *)
(* from a value_type buffer.                                              *)
Balance(as) ==
  /\ Step
  /\ sent' = [prim |-> "get_external_balance",
              address |-> Arg(as, AddressBuffer(held[as]))]
  /\ \E x \in Value : HostWrites("Balance", x)
  /\ UNCHANGED <<retBuf, retVec>>

(* Builtin::Ecrecover: hash, r and s stored into value_type buffers as    *)
(* they are, v passed as a byte; the recovered address loaded.            *)
Ecrecover(hs) ==
  /\ Step
  /\ sent' = [prim |-> "crypto_recover", hash |-> Arg(hs, held[hs])]
  /\ \E r \in Bytes(AddrLen) : HostWrites("Recovered", r)
  /\ UNCHANGED <<retBuf, retVec>>

(* external_call and value_transfer: the value converted by __be32toleN,  *)
(* the address passed as stored. A call leaves return data behind.        *)
ExternalCall(prim, vs, as) ==
  /\ Step
  /\ sent' = [prim |-> prim, address |-> Arg(as, AddressBuffer(held[as])),
              value |-> Arg(vs, Be32ToLeN(held[vs]))]
  /\ \E r \in String : retBuf' = r
  /\ UNCHANGED <<held, given, retVec>>

ValueTransfer(vs, as) ==
  /\ Step
  /\ sent' = [prim |-> "transfer", address |-> Arg(as, AddressBuffer(held[as])),
              value |-> Arg(vs, Be32ToLeN(held[vs]))]
  /\ UNCHANGED <<held, given, retBuf, retVec>>

(* Mutant: the vector allocated without room for its header.             *)
ReturnAllocNoHeader(length) == length

(* __malloc(length + size_of(struct.vector)).                             *)
ReturnAlloc(length) == length + Header

(* return_data: get_return_size, __malloc, len and size set to the        *)
(* length, then copy_return_value(data, 0, length) after the header.      *)
ReturnData ==
  /\ Step
  /\ retVec' = [len |-> Len(retBuf), size |-> Len(retBuf), data |-> retBuf,
                alloc |-> ReturnAlloc(Len(retBuf)),
                copyEnd |-> Header + Len(retBuf)]
  /\ UNCHANGED <<held, given, sent, retBuf>>

(* The body has evaluated its builtins and goes on elsewhere.             *)
Done ==
  /\ ops = MaxOps
  /\ UNCHANGED vars

Next ==
  \/ \E b \in DOMAIN GetterWidth : SingleValueStack(b)
  \/ ValueTransferred
  \/ \E k \in HashKind : Hash(k)
  \/ \E ns \in ArgOf(Len64) \cup {Literal} : BlockHash(ns)
  \/ \E as \in ArgOf(AddrLen) : Balance(as)
  \/ \E hs \in ArgOf(ValLen) : Ecrecover(hs)
  \/ \E p \in {"invoke_contract", "invoke_static_contract",
               "invoke_delegate_contract"},
        vs \in ArgOf(ValLen), as \in ArgOf(AddrLen) : ExternalCall(p, vs, as)
  \/ \E vs \in ArgOf(ValLen), as \in ArgOf(AddrLen) : ValueTransfer(vs, as)
  \/ ReturnData
  \/ Done

Spec == Init /\ [][Next]_vars

-----------------------------------------------------------------------------
(* Addresses are never reversed (spec 4.6): an address the code read from *)
(* the host (sender, origin, coinbase, its own address, an ecrecover      *)
(* result) and hands back as a call target or a balance lookup reaches    *)
(* the host as the bytes the host gave.                                   *)
AddressRoundTrip ==
  ("address" \in DOMAIN sent /\ sent.address.src \in AddressSrc)
    => sent.address.bytes = sent.address.gave

(* A value read from the host (msg.value, gas price, a balance) and       *)
(* forwarded with a call or transfer reaches the host as the amount it    *)
(* gave: the bytes the host reads are the bytes it wrote.                 *)
ForwardedValuePreserved ==
  ("value" \in DOMAIN sent /\ sent.value.src \in AmountSrc)
    => sent.value.bytes = sent.value.gave

(* Signature recovery of a hash (spec 4.6, the reversal "mandatory,       *)
(* including for hash inputs feeding signature recovery"): when the hash  *)
(* argument of ecrecover is a digest computed by `hash`, crypto_recover   *)
(* reads the digest the host computed.                                    *)
RecoverDigestOrder ==
  (sent.prim = "crypto_recover" /\ sent.hash.src = "Hash")
    => sent.hash.bytes = sent.hash.gave

(* return_data's vector (spec 3, EncodedBuffer): copy_return_value writes *)
(* the return data after the header within the block __malloc gave, and  *)
(* the header's len and size both state the length copied.               *)
ReturnCopyInBounds ==
  retVec # NoVector =>
    /\ retVec.copyEnd <= retVec.alloc
    /\ retVec.len = retVec.copyEnd - Header
    /\ retVec.size = retVec.len
=============================================================================
