----------------------------- MODULE MCLifecycle -----------------------------
(***************************************************************************)
(* Lifecycle for TLC, and what the repository says of the exit code.       *)
(***************************************************************************)
EXTENDS Lifecycle

\* "if app exited with ExitError, exit with given exit code" (root.go:205),
\* "return with 0 exit code" (shell.go:65).
ExitCodeGiven == pc = "exited" => exitCode = code
=============================================================================
