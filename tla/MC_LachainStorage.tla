------------------------- MODULE MC_LachainStorage -------------------------
(* Model-checking instance of the Storage Accessor: two slots, one of a   *)
(* narrow type (1 byte) and one of the full word width (3 bytes stand for *)
(* the 32 of an i256), so both branches of set_storage are taken; two     *)
(* byte values; string buffers of capacity up to 1, so that len < size    *)
(* occurs with a nonzero byte past len.                                   *)
EXTENDS LachainStorage, TLC

CONSTANTS k1, k2

MCSlotWidth == (k1 :> 1) @@ (k2 :> 3)
=============================================================================
