--------------------------- MODULE MCBlockBuffer ---------------------------
(***************************************************************************)
(* BlockBuffer for TLC: BLAKE2b's key.                                     *)
(***************************************************************************)
EXTENDS BlockBuffer

MCKey == <<1, 0, 1>>
=============================================================================
