# Verification of the Lachain backend (`src/src/emit/lachain.rs`)

This directory holds TLA+ models of the code that the Lachain target of the
compiler emits. It also holds TLC configurations that check those models on
small instances, and TLAPS proofs of their main safety properties. The models
describe the *emitted program*: the `start` function that one invocation of a
deployed contract runs. Each action is one operation that `LachainTarget`
generates, and its guard and effect are read from the Rust that generates it.

## 1. Inventory of the system

`LachainTarget::build` emits the whole runtime. It makes the following calls,
in this order:
- `set_early_value_aborts`;
- `declare_externals`, which declares the host imports;
- the function bodies;
- `function_dispatch`.

The parts, and how they interact:

| Part | Source (lines) | State it touches | Operations |
|---|---|---|---|
| Runtime prelude | `runtime_prelude` 64-134 | msg.value, heap, call data | early value abort (74-77), `__init_heap`, `get_call_size`, `__malloc`, `copy_call_value` |
| Dispatcher | `function_dispatch` 565-590 | selector, body entered | selector match, per-function non-payable check (588), argument decode |
| Termination | `return_empty_abi`, `return_abi`, `return_code`, `assert_failure` 1086-1159 | outcome | `set_return` then `system_halt` (declared `noreturn`, 541-563) |
| Storage | `set_storage` 923-1004, `get_storage_int` 1006-1051, `storage_delete_single_slot` 665-705, `set_storage_string` 707-740, `get_storage_string` 742-862 | contract storage, 32-byte words | write/read an integer slot, delete, write/read a string |
| Host calls | `external_call` 1402-1537, `value_transfer` 1540-1646, `create_contract` 1218-1400 | last call, success flag, outcome | value conversion `__be32toleN`, host primitive, status check, success/bail branch |
| Codec | `encode`, `abi_encode*`, `abi_decode` 592-661, 1162-1208 | heap buffers | delegates to the shared ethabi encoder |
| Builtins | `hash` 1800-1857, `keccak256_hash`, `builtin` 1880-2129, `value_transferred` 1753-1775, `return_data` 1648-1750 | scratch buffers | one host call each, plus byte conversions |
| Events and stubs | `send_event` 1861-1877, `print`, `selfdestruct`, extended storage shapes | host log | `write_log(data, data_len)` with the topics dropped; the others panic or are `unimplemented!()` |

The behaviours that make this code hard to get right:
- **Two value guards.** Either the prelude refuses value for the whole
  contract, or each non-payable function refuses it itself. The predicate at
  line 588 switches the second guard off exactly when the first is on.
- **Byte order.** The code holds 256-bit values big-endian. The host ABI takes
  them little-endian, so each value must pass through `__be32toleN`.
- **Failure handling.** Each host status must either be reported through the
  success output or end the invocation with `assert_failure`.
- **Non-returning halt.** Every termination primitive ends in the
  non-returning `system_halt`.
- **Narrow writes.** Integers narrower than 256 bits are written over a scratch
  word cleared with `__bzero8`, and read back from the low bytes.

## 2. Modules

- **`StorageAbstract`** is what storage promises. Each slot holds a value of
  its declared width, a write stores the value the program passed, delete
  resets it to zero, a read returns the last value written, and a string slot
  holds the bytes last saved. Each operation records itself and its arguments
  in `request` (as a key-value store specification records its operation and
  arguments). So a write step can only map to the abstract write of the value
  the program passed, and not to a write of whatever the store happens to hold
  afterwards.
- **`LachainStorage`** is storage at byte level. It models words of `WordLen`
  bytes, least significant byte first, a string store, and the buffers a read
  fills.
  - `SetStorage` writes `StorageWord(v, w)`. A full-width value is written
    as-is. A narrower one is laid over a zeroed word (the `__bzero8` path).
  - `GetStorageInt` reads the low `w` bytes (`LoadInt`).
  - `SetStorageString` saves the first `len` bytes of a vector
    (`VectorBytes`, the `vector_len` the code passes).
  - Each action records the call it models and its arguments in `request`: the
    value of `set_storage`, the whole buffer of `set_storage_string`, and the
    slot of a read or delete.
  - `GetStorageString` returns a vector whose `len` and `size` both equal
    the stored length, as the code sets them.
  - The refinement mapping `Abs` truncates each word to its slot's width, and
    each loaded vector to its `len`. `RequestMeaning` maps a recorded call to
    the abstract operation it asks for: a string buffer stands for its first
    `len` bytes, the other calls stand for themselves.
- **`LachainValue`** holds what the host-call modules share: a value is the
  sequence of `ValLen` bytes of its scratch word, and `Be32ToLeN` is the
  reversal `__be32toleN` applies (1423-1453).
- **`LachainStart`** is one invocation of `start`. Its control point `pc`
  takes the values prelude, dispatch, body and halted. The host's inputs
  (selector, whether the arguments decode, msg.value) are chosen in `Init`,
  and the status of each host call is chosen when the call is made. Its
  actions:
  - `AbortIfValueTransfer` and `RuntimePrelude` model the prelude.
  - `FunctionDispatch` has four disjuncts: no match, value refused, decode
    failed, and body entered.
  - `StorageOp` is any `LachainStorage` step, through `INSTANCE`.
  - `ExternalCall`, `ValueTransfer` and `CreateContract` model the host calls.
    Each records the primitive, the value in the code and the value handed to
    the host. Each then takes `SuccessBranch`.
  - `FunctionReturn` models the four termination primitives.
  - `Done` is the stutter after `system_halt`.
  - `EarlyValueAborts` is modelled from the spec because
    `set_early_value_aborts` lies outside `src/`: it holds when no function is
    payable.
  - `CreateRet == 0` is the shadowed `ret` of `create_contract`.
- **`LachainBuiltins`** is the values a body reads from the host and hands
  back. `held` is what the code holds per source, `given` what the host wrote
  for it, `sent` the last host call with its arguments, each tagged with its
  source and (a ghost field `gave`) the bytes the host gave for that source.
  - `SingleValueStack` is the `single_value_stack!` getters and
    `get_address`, each with its buffer width (`GetterWidth`).
  - `ValueTransferred`, `BlockHash`, `Balance` and `Ecrecover` load their
    result as the host wrote it.
  - `Hash` reverses the digest (`BeNToLeN`, the `__beNtoleN` call).
  - `ExternalCall` and `ValueTransfer` pass the address as stored
    (`AddressBuffer`) and the value through `Be32ToLeN`; a call leaves
    return data behind.
  - `ReturnData` allocates `length + Header` and copies after the header.
- **`LachainStorageProofs`**, **`LachainStartProofs`** and
  **`LachainBuiltinsProofs`** hold the TLAPS proofs.
- **`MC_LachainStorage`**, **`MC_LachainStart`** and **`MC_LachainBuiltins`**
  give the model values and the slot widths for TLC.

## 3. Runs

| Run | cfg | Expect | What it shows |
|---|---|---|---|
| storage | `MC_LachainStorage.cfg` | pass | High bytes of narrow slots stay zero (`HighBytesZero`). The byte-level store implements `StorageAbstract` (`AbstractStorage`): each write stores the value, or the `len` bytes, the program passed, and each read returns what the last write or delete left. |
| start_mixed | `MC_LachainStart_mixed.cfg` | pass | With one payable and one non-payable function: `DispatchCorrect`, `CallStatusRespected`, `CallValueOrder`, and `HaltIsFinal`. |
| start_nonpayable | `MC_LachainStart_nonpayable.cfg` | pass | With no payable function, the prelude's early abort alone keeps value out of every body (`DispatchCorrect`); the dispatcher's own check is not generated there. |
| create_status | `MC_LachainStart_CreateStatusRespected.cfg` | violation | A failed `create`/`create2` is reported as a success. |
| create_value_order | `MC_LachainStart_CreateValueOrder.cfg` | violation | The create endowment reaches the host without the byte reversal. |
| builtins | `MC_LachainBuiltins.cfg` | pass | Every builtin result has its spec 4.6 width (`TypeOK`), addresses round-trip unreversed (`AddressRoundTrip`), and `return_data` copies within its block (`ReturnCopyInBounds`). |
| builtins_forwarded_value | `MC_LachainBuiltins_ForwardedValuePreserved.cfg` | violation | A forwarded `msg.value` reaches the host byte-reversed. |
| builtins_recover_digest | `MC_LachainBuiltins_RecoverDigestOrder.cfg` | violation | `ecrecover` of a computed digest hands the host the reversed digest. |

**Bounds.**
- The storage run uses two slots of widths 1 and 3 in 3-byte words, with bits
  as byte values and string buffers of capacity up to 1 byte. The width-3 slot
  takes the full-width path and the width-1 slot takes the narrow path. Both
  kinds of slot are written with nonzero bytes, and a buffer can have
  `len = 0 < size = 1` with a nonzero byte past its `len`, which is what a
  write that passed the capacity would store.
- The start runs use two selectors plus `NoMatch`, 2-byte values (so a
  reversal is visible, as `<<1,0>>` versus `<<0,1>>`), and at most 3 host
  operations per body. That is enough for a failed call to be followed by
  further steps, and for a storage write to follow a call.
- The builtins run uses 2-byte values and 3-byte addresses (so a reversal
  shows, and a getter that allocates a value's width for an address, or the
  other way round, yields a result of the wrong width),
  1-byte 64-bit words and ripemd-160 digests, return data of up to one byte
  after a 1-byte header, and three builtins per body. That is enough to read
  an address and an amount and forward both in one call, or to hash and then
  recover from the digest.

**Fairness.** Every run checks safety under `Spec`, without fairness. No
liveness property is checked: each body is cut off at `MaxOps` operations, so
"every invocation halts" would hold by that bound and not by the code.
Deadlock checking stays on in every run; the only terminal state is halted,
where `Done` stutters.

**Mutants.** Each property of each passing run is broken by a mutant of the
definition it depends on (see `mutants` in `PROJECT.json`):
- a dropped early-abort guard;
- a dropped non-payable check;
- an unread status;
- a skipped conversion;
- a halt that falls through;
- a high-byte read, a value stored over the high end of the word, and a
  string save that passes the buffer's capacity instead of its `len` (each
  breaks `AbstractStorage`);
- an uncleared scratch word;
- the gas price read into a 64-bit buffer;
- an address converted like a value;
- a vector allocated without its header.

## 4. Findings

1. **Code bug: `create_contract` ignores the creation status.** Line 1289
   binds `ret` to `const_zero()`. The status of `create`/`create2` is bound to
   inner `let ret` shadows (1298, 1338). `is_success` (1370) then compares the
   constant, so a failed creation sets the success flag to true, and without a
   flag the code never bails.
2. **Spec/code divergence: the create endowment is not converted.** The
   endowment is stored into `value_ptr` (1277-1287) and passed on unconverted.
   `external_call` and `value_transfer` pass it through `__be32toleN`, and
   spec §4.5 expects all three to convert.

3. **Spec gap: a forwarded amount is reversed.** The getters `get_msgvalue`,
   `get_tx_gas_price` and `get_external_balance` load what the host wrote,
   with no conversion (1937, 1943, 1753-1775, 2040). `external_call` and
   `value_transfer` reverse every value through `__be32toleN`. So
   `addr.call{value: msg.value}` hands the host the reversed bytes of the
   amount it gave. Spec §4.6 gives the getters no conversion, while §4.5
   requires one on the way out. Either the host writes the getters' values
   big-endian (which the spec does not say), or forwarding is broken.
4. **Spec/code divergence: `ecrecover` sees a reversed digest.** `hash`
   reverses the digest through `__beNtoleN` (1834-1855). `Ecrecover` stores
   its hash argument as it is (2052). Recovering from `keccak256(...)` thus
   hands `crypto_recover` the reversed digest. Spec §4.6 makes the reversal
   "mandatory, including for hash inputs feeding signature recovery", i.e.
   recovery must see the digest the host computed.

## 5. Proofs

All proofs hold for every value of the constants satisfying the named
assumptions of the modules that declare them:
- `StartAssumption`: payable functions are a subset of the selectors; the two
  markers lie outside the selectors; word length is positive and slot widths
  lie in `1..WordLen`;
- `ValueAssumption`: the value length is positive and 0 is a byte value;
- `StorageAssumption` and `BuiltinsAssumption`: positive widths, natural
  bounds.

**`LachainStorageProofs`.**
- **`StorageTypeCorrect`**: `StorageSpec => []StorageTypeOK`, inductive.
- **`HighBytesZeroHolds`**: `StorageSpec => []HighBytesZero`. It is inductive
  given `StorageTypeOK`: only `SetStorage` and the delete change a word, and
  both leave the bytes above the slot's width at 0.
- **`StorageRefinement`**: `StorageSpec => AbstractStorage`. The mapping
  truncates each word to its slot's width. `RefinementInit` maps the initial
  state. `RefinementStep` maps each step to the abstract step of the same
  operation with the same arguments: `SetStorage(s, v)` to `Write(s, v)`,
  `SetStorageString(s, buf)` to `WriteString(s, VectorBytes(buf))`, because
  the recorded call pins the abstract arguments. It rests on `StorageWordLow`:
  the low bytes of the word `set_storage` writes are the value written, on
  both the full-width and the narrow path.

**`LachainStartProofs`.**
- **`TypeCorrect`**: `Spec => []TypeOK`. `TypeOK` is inductive. The proof has
  one step per action. The storage actions are handled by the lemma
  `StorageStepTypeOK`, and the success/bail branch by `SuccessBranchType`.
- **`DispatchSafety`**: `Spec => []DispatchCorrect`. `DispatchCorrect` is not
  inductive, for two reasons. At dispatch, the step into a body has to know
  that the prelude let a nonzero value through only when early aborts are off.
  At a halt, the step has to know that no body was entered. The strengthening
  is `IInv == TypeOK /\ ControlInv /\ DispatchCorrect`. `ControlInv` says:
  - `pc = "halted"` exactly when an outcome exists;
  - no body has been entered at prelude or dispatch;
  - a selector has been entered in the body;
  - at dispatch or in the body, not (early aborts and nonzero value).

  The lemmas are `InitIInv`, `IInvStep` (one step per action, with the four
  dispatcher disjuncts split into halt and enter), `BodyStepKeepsIInv` and
  `SuccessBranchControl`. `IInv` was also checked by TLC as an invariant of
  both start runs.
- **`HaltFinal`**: `Spec => HaltIsFinal`. It follows from `IInv`: an outcome
  means `pc = "halted"`, where only `Done` (or a stutter) is enabled.
- **`CallStatusSafety`** and **`CallValueSafety`**: `Spec => []CallStatusRespected`
  and `Spec => []CallValueOrder`. The strengthening is
  `CallInv == TypeOK /\ CallStatusRespected /\ CallValueOrder`. A step that
  leaves `lastCall` alone either leaves the flag and outcome alone, or starts
  in the body, which an unflagged failed call has already left for halted.
  A call step is covered by `SuccessBranchRespects` and
  `Be32ToLeNIsHostOrder`.
- **`CreateAlwaysReportsSuccess`**: `Spec => []CreateReportsSuccess`. For
  every instance, a `create`/`create2` with a success output leaves the flag
  true whatever the host's status. The `create_status` run shows one failing
  creation; this theorem shows the finding holds for every dispatch table,
  value width and bound. With `TypeOK` it is inductive, because only a call
  step changes `success`, and every call step also replaces `lastCall`.
  TLC also checked it on the mixed instance.

**`LachainBuiltinsProofs`.**
- **`BuiltinsTypeCorrect`**: `Spec => []TypeOK`. `TypeOK` includes that each
  source holds a value of the width spec 4.6 gives it (`ResultType`). The
  proof has one step per builtin. It rests on operator lemmas:
  - `BytesIsSeq`: an n-byte buffer is a sequence of length n;
  - `BeNToLeNType` and `Be32ToLeNType`: the two reversals keep the width;
  - `ArgType`: a call argument is typed;
  - `HostWritesType`: a load of what the host wrote keeps the state typed;
  - `GetterWidthResult`: each getter's buffer width is its spec width.
- **`ReturnSafety`**: `Spec => []ReturnCopyInBounds`. With `TypeOK` it is
  inductive: the copied length is a natural number, and only `ReturnData`
  changes the vector.
- **`AddressSafety`**: `Spec => []AddressRoundTrip`. The strengthening
  `HeldIsGiven` says every source except `Hash` (whose digest is reversed)
  holds exactly what the host wrote. `AInv` was also checked by TLC on the
  builtins instance.

**Checked by TLC only:**
- the four violation runs. Their properties are false, and TLC's
  counterexamples show it. For the create status,
  `CreateAlwaysReportsSuccess` also proves the failure in general.

Every invariant of every passing run is now stated by a theorem. The run
shows it on a small instance, and the theorem proves it for every value of
the constants.

## 6. Not modelled

- **The callee side of a call.** Reentrancy into this contract during
  `external_call` and rollback of a failed callee are not modelled: the host
  is reduced to a status and return data per call. The emitted code caches no
  storage across a call, since every read is a `get_storage` host call.
- **ABI encoding and decoding.** The shared ethabi encoder lies outside this
  file. The model keeps only whether the arguments decode.
- **`keccak256_hash`.** It hashes storage keys and converts nothing; the
  models key storage by slot.
- **Events.** `send_event` calls the host's `write_log` with the event data
  and its length and drops the topics. spec.md states no rule for events, and
  no other part of the code reads the log, so the model keeps no log state.
- **Liveness.** Each body is cut off after `MaxOps` host operations, so
  termination of an invocation would follow from that bound, not from the
  code; no liveness property is claimed. TLAPS could not prove one either.
- **Unimplemented and broken primitives.** The
  extended storage shapes are `unimplemented!()`. `print` and `selfdestruct`
  call the undeclared imports `printMem` and `selfDestruct`, which is a
  compile-time panic that any compilation using them reaches.
