--------------------------- MODULE MCRpcDispatcher ---------------------------
(***************************************************************************)
(* RpcDispatcher for TLC.                                                  *)
(***************************************************************************)
EXTENDS RpcDispatcher
=============================================================================
