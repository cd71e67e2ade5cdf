------------------------- MODULE MCPooledDispatcher --------------------------
(* The pooled dispatcher for TLC: MCPooledDispatcher.cfg names the requests. *)
EXTENDS PooledDispatcher
=============================================================================
