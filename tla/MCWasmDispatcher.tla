--------------------------- MODULE MCWasmDispatcher ---------------------------
(* The WASM dispatcher for TLC: MCWasmDispatcher.cfg names the requests.    *)
EXTENDS WasmDispatcher
=============================================================================
