------------------------- MODULE MC_LachainBuiltins -------------------------
(* Model-checking instance of the builtins: 2-byte values and addresses   *)
(* (so that a reversal shows), 1-byte 64-bit values and ripemd-160        *)
(* digests, return data of up to one byte after a 1-byte header, and      *)
(* three builtins per body: enough to read an address and an amount and   *)
(* forward them, or to hash and recover from the digest.                  *)
EXTENDS LachainBuiltins, TLC
=============================================================================
