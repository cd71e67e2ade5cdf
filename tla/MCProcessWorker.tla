--------------------------- MODULE MCProcessWorker ---------------------------
(* The process worker for TLC: MCProcessWorker.cfg names the calls of Wait. *)
EXTENDS ProcessWorker
=============================================================================
