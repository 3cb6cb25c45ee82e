---------------------------- MODULE MCChBuffer ----------------------------
(***************************************************************************)
(* Bounded instances of ChBuffer.                                          *)
(***************************************************************************)
EXTENDS ChBuffer
=============================================================================
