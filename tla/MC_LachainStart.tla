-------------------------- MODULE MC_LachainStart --------------------------
(* Model-checking instance of one invocation: a dispatch table of two     *)
(* selectors, call data that matches one of them or neither, a 2-byte     *)
(* value word (so that byte order shows: <<0, 1>> is not its own          *)
(* reverse), and bodies of up to three host operations, so that an        *)
(* operation can follow a call that failed.                               *)
EXTENDS LachainStart, TLC

CONSTANTS s1, s2, k1, k2

MCSlotWidth == (k1 :> 1) @@ (k2 :> 2)
=============================================================================
