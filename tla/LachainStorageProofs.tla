------------------------ MODULE LachainStorageProofs ------------------------
(***************************************************************************)
(* Proofs about the Storage Accessor (module LachainStorage), for every    *)
(* set of slots, slot widths, word length and string bound that satisfy   *)
(* StorageAssumption: the storage state stays well typed, narrow slots    *)
(* keep their high bytes zero, and the byte-level store implements the    *)
(* typed store StorageAbstract under the refinement mapping Abs.          *)
(***************************************************************************)
EXTENDS LachainStorage, TLAPS

USE StorageAssumption DEF StorageAssumption

(* StorageInit establishes StorageTypeOK.                                  *)
LEMMA StorageTypeInit == StorageInit => StorageTypeOK
<1> SUFFICES ASSUME StorageInit PROVE StorageTypeOK
  OBVIOUS
<1>1. << >> \in Bytes(0) /\ 0 \in 0..StrLen /\ 0 \in 0..WordLen
  BY DEF Bytes
<1>2. ZeroWord \in Word
  BY DEF ZeroWord, Word, Bytes
<1>3. NoRequest \in Request
  BY DEF Request
<1>4. QED BY <1>1, <1>2, <1>3 DEF StorageInit, StorageTypeOK, String, Buffer

(* Every storage step keeps StorageTypeOK.                                 *)
LEMMA StorageTypeStep ==
  StorageTypeOK /\ [StorageNext]_storageVars => StorageTypeOK'
<1> SUFFICES ASSUME StorageTypeOK, [StorageNext]_storageVars
             PROVE  StorageTypeOK'
  OBVIOUS
<1> USE DEF StorageTypeOK, Bytes, Word, String, Buffer
<1>1. ASSUME NEW s \in Slot, NEW v \in Bytes(SlotWidth[s]), SetStorage(s, v)
      PROVE  StorageTypeOK'
  <2>1. StorageWord(v, SlotWidth[s]) \in Word
    BY DEF StorageWord
  <2>2. v \in UNION {Bytes(n) : n \in 1..WordLen}
    BY SlotWidth[s] \in 1..WordLen
  <2>3. request' \in Request
    BY <1>1, <2>2 DEF SetStorage, Request
  <2>4. QED BY <1>1, <2>1, <2>3 DEF SetStorage
<1>2. ASSUME NEW s \in Slot, GetStorageInt(s)
      PROVE  StorageTypeOK'
  <2>1. request' \in Request
    BY <1>2 DEF GetStorageInt, Request
  <2>2. LoadInt(store[s], SlotWidth[s]) \in Bytes(SlotWidth[s])
    BY DEF LoadInt
  <2>3. QED BY <1>2, <2>1, <2>2 DEF GetStorageInt
<1>3. ASSUME NEW s \in Slot, StorageDeleteSingleSlot(s)
      PROVE  StorageTypeOK'
  <2>1. request' \in Request
    BY <1>3 DEF StorageDeleteSingleSlot, Request
  <2>2. QED BY <1>3, <2>1 DEF StorageDeleteSingleSlot, ZeroWord
<1>4. ASSUME NEW s \in Slot, NEW buf \in ProgramBuffer, SetStorageString(s, buf)
      PROVE  StorageTypeOK'
  <2>1. PICK n \in 0..StrLen : buf.data \in [1..n -> ByteVal]
    BY DEF ProgramBuffer
  <2>2. n = buf.size /\ buf.len <= n
    BY <2>1 DEF ProgramBuffer
  <2>3. VectorBytes(buf) \in [1..buf.len -> ByteVal]
    BY <2>1, <2>2 DEF ProgramBuffer, VectorBytes
  <2>4. buf.len \in 0..StrLen
    BY DEF ProgramBuffer
  <2>5. request' \in Request
    BY <1>4 DEF SetStorageString, Request
  <2>6. QED BY <1>4, <2>3, <2>4, <2>5 DEF SetStorageString
<1>5. ASSUME NEW s \in Slot, GetStorageString(s)
      PROVE  StorageTypeOK'
  <2>1. PICK n \in 0..StrLen : strStore[s] \in [1..n -> ByteVal]
    OBVIOUS
  <2>2. Len(strStore[s]) = n
    BY <2>1
  <2>3. QED BY <1>5, <2>1, <2>2 DEF GetStorageString, Request
<1>6. CASE UNCHANGED storageVars
  BY <1>6 DEF storageVars
<1>7. QED BY <1>1, <1>2, <1>3, <1>4, <1>5, <1>6 DEF StorageNext

(* The storage state is well typed in every reachable state.               *)
THEOREM StorageTypeCorrect == StorageSpec => []StorageTypeOK
BY StorageTypeInit, StorageTypeStep, PTL DEF StorageSpec

-----------------------------------------------------------------------------
(* HighBytesZero is inductive given StorageTypeOK: only SetStorage and    *)
(* the delete change a word, and both leave the bytes above the slot's    *)
(* width at 0.                                                             *)
LEMMA HighBytesStep ==
  StorageTypeOK /\ HighBytesZero /\ [StorageNext]_storageVars => HighBytesZero'
<1> SUFFICES ASSUME StorageTypeOK, HighBytesZero, [StorageNext]_storageVars
             PROVE  HighBytesZero'
  OBVIOUS
<1> USE DEF StorageTypeOK, HighBytesZero
<1>1. ASSUME NEW s \in Slot, NEW v \in Bytes(SlotWidth[s]), SetStorage(s, v)
      PROVE  HighBytesZero'
  <2>1. \A i \in (SlotWidth[s] + 1)..WordLen : StorageWord(v, SlotWidth[s])[i] = 0
    <3>1. CASE SlotWidth[s] = WordLen
      BY <3>1
    <3>2. CASE SlotWidth[s] # WordLen
      BY <3>2 DEF StorageWord
    <3>3. QED BY <3>1, <3>2
  <2>2. QED BY <1>1, <2>1 DEF SetStorage, Word, Bytes
<1>2. ASSUME NEW s \in Slot, StorageDeleteSingleSlot(s)
      PROVE  HighBytesZero'
  BY <1>2 DEF StorageDeleteSingleSlot, ZeroWord, Word, Bytes
<1>3. CASE UNCHANGED store
  BY <1>3
<1>4. QED
  BY <1>1, <1>2, <1>3 DEF StorageNext, GetStorageInt, SetStorageString,
                          GetStorageString, storageVars

(* Narrow slots keep their unused high-order bytes zero (HighBytesZero),  *)
(* for every word length and every assignment of widths to slots.         *)
THEOREM HighBytesZeroHolds == StorageSpec => []HighBytesZero
<1>1. StorageInit => HighBytesZero
  BY DEF StorageInit, HighBytesZero, ZeroWord
<1>2. QED
  BY <1>1, StorageTypeInit, StorageTypeStep, HighBytesStep, PTL DEF StorageSpec
-----------------------------------------------------------------------------
(* The refinement mapping, named: a slot's typed value is the low         *)
(* SlotWidth bytes of its word.                                           *)
AbsOf(st) == [s \in Slot |-> [i \in 1..SlotWidth[s] |-> st[s][i]]]

(* The low bytes of the word set_storage writes are the value written.    *)
LEMMA StorageWordLow ==
  ASSUME NEW s \in Slot, NEW v \in Bytes(SlotWidth[s])
  PROVE  [i \in 1..SlotWidth[s] |-> StorageWord(v, SlotWidth[s])[i]] = v
<1>1. SlotWidth[s] \in 1..WordLen
  OBVIOUS
<1>2. CASE SlotWidth[s] = WordLen
  BY <1>2 DEF StorageWord, Bytes
<1>3. CASE SlotWidth[s] # WordLen
  BY <1>1, <1>3 DEF StorageWord, Bytes
<1>4. QED BY <1>2, <1>3

(* StorageInit maps to the abstract initial state.                        *)
LEMMA RefinementInit == StorageInit => Abs!Init
BY DEF StorageInit, Abs!Init, Abs!ZeroValue, ZeroWord, VectorBytes,
       RequestMeaning, NoRequest, Abs!NoRequest

(* Each storage step maps to the abstract step of the same operation.     *)
LEMMA RefinementStep ==
  StorageTypeOK /\ [StorageNext]_storageVars => [Abs!Next]_Abs!absVars
<1> SUFFICES ASSUME StorageTypeOK, [StorageNext]_storageVars
             PROVE  [Abs!Next]_Abs!absVars
  OBVIOUS
<1> USE DEF StorageTypeOK
<1>1. ASSUME NEW s \in Slot, NEW v \in Bytes(SlotWidth[s]), SetStorage(s, v)
      PROVE  Abs!Write(s, v) /\ v \in Abs!Value(s)
  <2>1. store' = [store EXCEPT ![s] = StorageWord(v, SlotWidth[s])]
    BY <1>1 DEF SetStorage
  <2>2. AbsOf(store') = [AbsOf(store) EXCEPT ![s] = v]
    BY <2>1, StorageWordLow DEF AbsOf
  <2>3. RequestMeaning(request') = [op |-> "int", slot |-> s, val |-> v]
    BY <1>1 DEF SetStorage, RequestMeaning
  <2>4. QED BY <1>1, <2>2, <2>3 DEF SetStorage, Abs!Write, AbsOf, Abs!Value, Bytes
<1>2. ASSUME NEW s \in Slot, GetStorageInt(s)
      PROVE  Abs!Read(s)
  <2>1. RequestMeaning(request') = [op |-> "read", slot |-> s]
    BY <1>2 DEF GetStorageInt, RequestMeaning
  <2>2. QED BY <1>2, <2>1 DEF GetStorageInt, LoadInt, Abs!Read
<1>3. ASSUME NEW s \in Slot, StorageDeleteSingleSlot(s)
      PROVE  Abs!Delete(s)
  <2>1. store' = [store EXCEPT ![s] = ZeroWord] /\ DOMAIN store = Slot
    BY <1>3 DEF StorageDeleteSingleSlot, Word
  <2>2. SlotWidth[s] \in 1..WordLen
    OBVIOUS
  <2>3. [i \in 1..SlotWidth[s] |-> ZeroWord[i]] = Abs!ZeroValue(s)
    BY <2>2 DEF ZeroWord, Abs!ZeroValue
  <2>4. AbsOf(store') = [AbsOf(store) EXCEPT ![s] = Abs!ZeroValue(s)]
    BY <2>1, <2>3 DEF AbsOf
  <2>5. RequestMeaning(request') = [op |-> "delete", slot |-> s]
    BY <1>3 DEF StorageDeleteSingleSlot, RequestMeaning
  <2>6. QED BY <1>3, <2>4, <2>5 DEF StorageDeleteSingleSlot, Abs!Delete, AbsOf
<1>4. ASSUME NEW s \in Slot, NEW buf \in ProgramBuffer, SetStorageString(s, buf)
      PROVE  Abs!WriteString(s, VectorBytes(buf)) /\ VectorBytes(buf) \in Abs!String
  <2>1. PICK n \in 0..StrLen : buf.data \in [1..n -> ByteVal]
    BY DEF ProgramBuffer, Buffer, String, Bytes
  <2>2. buf.len \in 0..StrLen /\ buf.len <= n
    BY <2>1 DEF ProgramBuffer, Buffer
  <2>3. VectorBytes(buf) \in Abs!String
    BY <2>1, <2>2 DEF Abs!String, VectorBytes
  <2>4. RequestMeaning(request') = [op |-> "string", slot |-> s, val |-> VectorBytes(buf)]
    BY <1>4 DEF SetStorageString, RequestMeaning
  <2>5. QED BY <1>4, <2>3, <2>4 DEF SetStorageString, Abs!WriteString
<1>5. ASSUME NEW s \in Slot, GetStorageString(s)
      PROVE  Abs!ReadString(s)
  <2>1. PICK n \in 0..StrLen : strStore[s] \in [1..n -> ByteVal]
    BY DEF String, Bytes
  <2>2. VectorBytes(loadedStr') = strStore[s]
    BY <1>5, <2>1 DEF GetStorageString, VectorBytes
  <2>3. RequestMeaning(request') = [op |-> "readString", slot |-> s]
    BY <1>5 DEF GetStorageString, RequestMeaning
  <2>4. QED BY <1>5, <2>2, <2>3 DEF GetStorageString, Abs!ReadString
<1>6. CASE UNCHANGED storageVars
  BY <1>6 DEF storageVars, Abs!absVars
<1>7. QED
  BY <1>1, <1>2, <1>3, <1>4, <1>5, <1>6 DEF StorageNext, Abs!Next

(* The emitted storage code implements the typed store (AbstractStorage), *)
(* for every slot layout: reads return what the last write, delete or     *)
(* string save of the slot left, whatever the widths of the other slots.  *)
THEOREM StorageRefinement == StorageSpec => AbstractStorage
<1>1. StorageSpec => []StorageTypeOK
  BY StorageTypeCorrect
<1>2. QED
  BY <1>1, RefinementInit, RefinementStep, PTL
     DEF StorageSpec, AbstractStorage, Abs!Spec
=============================================================================
