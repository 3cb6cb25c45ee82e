--------------------------- MODULE MCAppCacheSync ---------------------------
(***************************************************************************)
(* A bounded instance of AppCacheSync: two collectors, one key with a TTL  *)
(* and one without, of which central refuses the second from b.            *)
(***************************************************************************)
EXTENDS AppCacheSync
CONSTANTS a, b, k1, k2
MCRefused == {<<b, k2>>}
=============================================================================
