---------------------------- MODULE MCFileAdapter ----------------------------
(* The file adapter for TLC: MCFileAdapter.cfg names the requests.         *)
EXTENDS FileAdapter
=============================================================================
