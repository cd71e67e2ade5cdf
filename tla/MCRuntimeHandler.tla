-------------------------- MODULE MCRuntimeHandler ---------------------------
(***************************************************************************)
(* RuntimeHandler for TLC: cases of every shape the code tells apart, and  *)
(* what README.md says of failures.                                        *)
(***************************************************************************)
EXTENDS RuntimeHandler

Complete == [kind : {"object"}, answer : {"given"}, feedback : {"text"},
             override : BOOLEAN, mark : {"none", "zero", "one"}]

Odd == [kind : {"object"}, answer : {"null", "missing"}, feedback : {"text"},
        override : {FALSE}, mark : {"none"}]
    \cup [kind : {"object"}, answer : {"given"}, feedback : {"missing"},
          override : {FALSE}, mark : {"none"}]
    \cup [kind : {"object"}, answer : {"given"}, feedback : {"other"},
          override : BOOLEAN, mark : {"none"}]
    \cup [kind : {"scalar"}, answer : {"missing"}, feedback : {"missing"},
          override : {FALSE}, mark : {"none"}]

MCCases == Complete \cup Odd

\* README.md:116: "On success the shim returns a JSON object with a `result`
\* field. On failure it returns an `error` field instead."
FailuresReported ==
    request.route = "legacy" /\ status # 0 => result.kind \in {"result", "error"}
=============================================================================
