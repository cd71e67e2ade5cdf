------------------------- MODULE MCWorkerSupervisor --------------------------
(***************************************************************************)
(* WorkerSupervisor for TLC, and what the repository says of a supervisor  *)
(* that its code does not do.                                              *)
(***************************************************************************)
EXTENDS WorkerSupervisor

\* supervisor.go:31-32 says of Shutdown: "Both persistent and transient
\* workers will be terminated."  After a last call, of Shutdown, no process
\* of the supervisor is left.
ShutdownTerminatesWorkers ==
    \A c \in Calls :
        op[c] = "shutdown" /\ pc[c] = "terminate" /\ (\A d \in Calls \ {c} : pc[d] = "done")
            ~> \A w \in Calls : proc[w] # "running"
=============================================================================
