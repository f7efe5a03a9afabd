--------------------------- MODULE LachainStorage ---------------------------
(***************************************************************************)
(* Storage Accessor of the Lachain backend (src/emit/lachain.rs): the code *)
(* that set_storage, get_storage_int and storage_delete_single_slot emit   *)
(* around the host's save_storage/load_storage, and the code that          *)
(* set_storage_string and get_storage_string emit around                   *)
(* save_storage_string, get_storage_string_size and load_storage_string.   *)
(*                                                                         *)
(* Memory is modelled at byte level. A value of width w is the sequence of *)
(* the w bytes the target (wasm32, little-endian) keeps in memory, least   *)
(* significant first; a storage word is WordLen such bytes (32 in the      *)
(* code). Each slot has one static width (SlotWidth): the backend picks    *)
(* the path from the static type, never at run time. Each emitted sequence *)
(* runs without interruption (one invocation is single-threaded and every  *)
(* host call blocks), so each is one action.                               *)
(***************************************************************************)
EXTENDS Naturals, Sequences

CONSTANTS
  Slot,       \* storage keys used by the contract
  SlotWidth,  \* static width of each fixed slot, in bytes
  WordLen,    \* bytes in a storage word (i256: 32)
  ByteVal,    \* byte values the model distinguishes
  StrLen      \* bound on the capacity of a string buffer

ASSUME StorageAssumption ==
  /\ WordLen \in Nat \ {0}
  /\ SlotWidth \in [Slot -> 1..WordLen]
  /\ 0 \in ByteVal
  /\ StrLen \in Nat

VARIABLES
  store,      \* host fixed-word storage: slot -> word
  strStore,   \* host string storage: slot -> bytes
  loaded,     \* the value the last get_storage_int returned
  loadedStr,  \* the struct.vector the last get_storage_string returned
  request     \* the storage call the generated code last made, with its arguments

storageVars == <<store, strStore, loaded, loadedStr, request>>

Bytes(n) == [1..n -> ByteVal]
Word == Bytes(WordLen)
ZeroWord == [i \in 1..WordLen |-> 0]
String == UNION {Bytes(n) : n \in 0..StrLen}

(* A struct.vector: its len and size header fields and its data region.  *)
Buffer == [len : 0..StrLen, size : 0..StrLen, data : String]

(* Buffers the program can hand to set_storage_string: len <= size and    *)
(* the data region holds size bytes.                                      *)
ProgramBuffer ==
  {b \in Buffer : b.len <= b.size /\ DOMAIN b.data = 1..b.size}

(* The bytes a struct.vector stands for: the first len of its data.       *)
VectorBytes(b) == [i \in 1..b.len |-> b.data[i]]

(* Storage calls as the program makes them: set_storage of a value,       *)
(* set_storage_string of a buffer, and the reads and the delete of a slot. *)
NoRequest == [op |-> "none"]
Request ==
  {NoRequest}
  \cup [op : {"int"}, slot : Slot, val : UNION {Bytes(n) : n \in 1..WordLen}]
  \cup [op : {"string"}, slot : Slot, buf : ProgramBuffer]
  \cup [op : {"read", "delete", "readString"}, slot : Slot]

StorageTypeOK ==
  /\ store \in [Slot -> Word]
  /\ strStore \in [Slot -> String]
  /\ loaded \in UNION {Bytes(n) : n \in 0..WordLen}
  /\ loadedStr \in Buffer
  /\ request \in Request

StorageInit ==
  /\ store = [s \in Slot |-> ZeroWord]
  /\ strStore = [s \in Slot |-> << >>]
  /\ loaded = << >>
  /\ loadedStr = [len |-> 0, size |-> 0, data |-> << >>]
  /\ request = NoRequest

(* Mutants: the narrow value passed without widening; widened over a     *)
(* scratch word that was not cleared (1 stands for what the stack held).  *)
StorageWordUnwidened(v, w) == v

StorageWordUncleared(v, w) ==
  IF w = WordLen THEN v
  ELSE [i \in 1..WordLen |-> IF i <= w THEN v[i] ELSE 1]

(* Mutant: the value stored over the high end of the scratch word.        *)
StorageWordHighEnd(v, w) ==
  IF w = WordLen THEN v
  ELSE [i \in 1..WordLen |-> IF i > WordLen - w THEN v[i - (WordLen - w)] ELSE 0]

(* The word set_storage passes to save_storage for a value v of width w:  *)
(* a 256-bit value is passed as it is; a narrower one is stored over the  *)
(* low bytes of a scratch word that __bzero8 has cleared.                 *)
StorageWord(v, w) ==
  IF w = WordLen THEN v
  ELSE [i \in 1..WordLen |-> IF i <= w THEN v[i] ELSE 0]

(* Mutant: the value taken from the high end of the word.                 *)
LoadIntHighBytes(word, w) == [i \in 1..w |-> word[WordLen - w + i]]

(* get_storage_int: load_storage fills a 32-byte buffer, which is then    *)
(* loaded through a pointer to the target width, i.e. its low w bytes.    *)
LoadInt(word, w) == [i \in 1..w |-> word[i]]

SetStorage(s, v) ==
  /\ store' = [store EXCEPT ![s] = StorageWord(v, SlotWidth[s])]
  /\ request' = [op |-> "int", slot |-> s, val |-> v]
  /\ UNCHANGED <<strStore, loaded, loadedStr>>

GetStorageInt(s) ==
  /\ loaded' = LoadInt(store[s], SlotWidth[s])
  /\ request' = [op |-> "read", slot |-> s]
  /\ UNCHANGED <<store, strStore, loadedStr>>

(* storage_delete_single_slot: save_storage of a zeroed 256-bit word.     *)
StorageDeleteSingleSlot(s) ==
  /\ store' = [store EXCEPT ![s] = ZeroWord]
  /\ request' = [op |-> "delete", slot |-> s]
  /\ UNCHANGED <<strStore, loaded, loadedStr>>

(* Mutant: the whole data region (size bytes) passed instead of len.      *)
SetStorageStringWholeBuffer(s, buf) ==
  /\ strStore' = [strStore EXCEPT ![s] = buf.data]
  /\ request' = [op |-> "string", slot |-> s, buf |-> buf]
  /\ UNCHANGED <<store, loaded, loadedStr>>

(* set_storage_string passes the data pointer and vector_len; the host    *)
(* keeps that many bytes from the data region.                            *)
SetStorageString(s, buf) ==
  /\ strStore' = [strStore EXCEPT ![s] = VectorBytes(buf)]
  /\ request' = [op |-> "string", slot |-> s, buf |-> buf]
  /\ UNCHANGED <<store, loaded, loadedStr>>

(* get_storage_string: length from get_storage_string_size, __malloc of   *)
(* header + length, len and size both set to length, then                 *)
(* load_storage_string copies the stored bytes into the data region.      *)
GetStorageString(s) ==
  LET length == Len(strStore[s])
  IN  /\ loadedStr' = [len |-> length, size |-> length, data |-> strStore[s]]
      /\ request' = [op |-> "readString", slot |-> s]
      /\ UNCHANGED <<store, strStore, loaded>>

StorageNext ==
  \E s \in Slot :
    \/ \E v \in Bytes(SlotWidth[s]) : SetStorage(s, v)
    \/ GetStorageInt(s)
    \/ StorageDeleteSingleSlot(s)
    \/ \E buf \in ProgramBuffer : SetStorageString(s, buf)
    \/ GetStorageString(s)

StorageSpec == StorageInit /\ [][StorageNext]_storageVars

-----------------------------------------------------------------------------
(* Unused high-order bytes are zero (spec section 8): every byte of a     *)
(* slot's word above the slot's width is 0, whatever sequence of writes,  *)
(* deletes and reads of all slots came before. It fails if the narrow     *)
(* path of set_storage stores the value over an uncleared scratch word.   *)
HighBytesZero ==
  \A s \in Slot : \A i \in (SlotWidth[s] + 1)..WordLen : store[s][i] = 0

(* The abstract operation a storage call asks for: a string argument      *)
(* stands for the bytes of its buffer; the other calls are as made.        *)
RequestMeaning(r) ==
  IF r.op = "string"
  THEN [op |-> "string", slot |-> r.slot, val |-> VectorBytes(r.buf)]
  ELSE r

(* Refinement mapping: a fixed slot's abstract value is the low-order     *)
(* SlotWidth bytes of its word (the convention of spec 4.4); a string     *)
(* read's abstract result is the first len bytes of the returned buffer;  *)
(* the call made maps to the operation it asks for.                       *)
Abs == INSTANCE StorageAbstract WITH
         absStore <- [s \in Slot |-> [i \in 1..SlotWidth[s] |-> store[s][i]]],
         absStr <- strStore,
         result <- loaded,
         resultStr <- VectorBytes(loadedStr),
         request <- RequestMeaning(request)

(* The emitted storage code implements the typed store: set_storage of v  *)
(* leaves v as the slot's value and set_storage_string of a buffer leaves *)
(* the buffer's len bytes as the slot's string (each write stores what    *)
(* the program passed), every fixed read returns the value the last       *)
(* set_storage or delete of that slot put there, and every string read    *)
(* returns a buffer whose first len bytes are the bytes the last          *)
(* set_storage_string stored, across any interleaving of operations on    *)
(* slots of different widths.                                             *)
AbstractStorage == Abs!Spec
=============================================================================
