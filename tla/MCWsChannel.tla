----------------------------- MODULE MCWsChannel -----------------------------
(***************************************************************************)
(* Bounded instances of WsChannel.                                         *)
(***************************************************************************)
EXTENDS WsChannel
=============================================================================
