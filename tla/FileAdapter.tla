----------------------------- MODULE FileAdapter -----------------------------
(***************************************************************************)
(* The file interface from end to end: requests that hold a lease of the   *)
(* pool (WorkerLeases, here only a count) go through the file adapter      *)
(* (internal/execution/supervisor/adapter_file.go), which starts a process *)
(* for each message, waits for it and reads the response file; afterwards  *)
(* the transient supervisor's release function gives the process up.       *)
(* Shutdown of the dispatcher closes the pool under all of this.           *)
(*                                                                         *)
(* One process belongs to one request and is named by it.                  *)
(***************************************************************************)
EXTENDS Naturals, FiniteSets

CONSTANTS
    Requests,       \* the messages sent
    MaxWorkers      \* the leases of the pool

ASSUME FileAssumption ==
    /\ IsFiniteSet(Requests)
    /\ MaxWorkers \in Nat \ {0}

VARIABLES
    stage,        \* stage[q]: how far q has come
    result,       \* result[q]: what the adapter's Send returned
    sendDone,     \* sendDone[q]: the context of the Send has ended (timeout)
    workerDone,   \* workerDone[q]: the worker context has been cancelled
    files,        \* files[q]: what q has in the temporary directory
    deferred,     \* deferred[q]: the files whose removal Send has deferred
    proc,         \* proc[q]: q's process
    child,        \* child[q]: a process it has started shares its stdout
    stdout,       \* stdout[q]: the write end of its stdout
    response,     \* response[q]: the content of its response file
    shutdown      \* the pool's Close: "none", "closing", "returned"

fileVars == <<files, deferred>>
contextVars == <<sendDone, workerDone, shutdown>>
processVars == <<proc, child, stdout, response>>
vars == <<stage, result, fileVars, contextVars, processVars>>

Stages ==
    {"new", "directory", "request", "response", "write", "start", "stdout", "wait",
     "decode", "returned", "done"}

\* The stages in which the request's lease lasts.
Leased == {q \in Requests : stage[q] \notin {"new", "done"}}
Running == {q \in Requests : proc[q] = "running"}

TypeOK ==
    /\ stage \in [Requests -> Stages]
    /\ result \in [Requests -> {"none", "response", "error"}]
    /\ sendDone \in [Requests -> BOOLEAN]
    /\ workerDone \in [Requests -> BOOLEAN]
    /\ files \in [Requests -> SUBSET {"directory", "request", "response"}]
    /\ deferred \in [Requests -> SUBSET {"request", "response"}]
    /\ proc \in [Requests -> {"none", "running", "success", "failure"}]
    /\ child \in [Requests -> BOOLEAN]
    /\ stdout \in [Requests -> {"open", "closed"}]
    /\ response \in [Requests -> {"empty", "partial", "whole"}]
    /\ shutdown \in {"none", "closing", "returned"}

Init ==
    /\ stage = [q \in Requests |-> "new"]
    /\ result = [q \in Requests |-> "none"]
    /\ sendDone = [q \in Requests |-> FALSE]
    /\ workerDone = [q \in Requests |-> FALSE]
    /\ files = [q \in Requests |-> {}]
    /\ deferred = [q \in Requests |-> {}]
    /\ proc = [q \in Requests |-> "none"]
    /\ child = [q \in Requests |-> FALSE]
    /\ stdout = [q \in Requests |-> "closed"]
    /\ response = [q \in Requests |-> "empty"]
    /\ shutdown = "none"

-----------------------------------------------------------------------------
(* The adapter's Send.                                                      *)

\* The pool leases a supervisor to q, which calls the adapter's Send.
Lease(q) ==
    /\ stage[q] = "new" /\ shutdown = "none"
    /\ Cardinality(Leased) < MaxWorkers
    /\ stage' = [stage EXCEPT ![q] = "directory"]
    /\ UNCHANGED <<result, fileVars, contextVars, processVars>>

\* The timeout of the message passes, or its request ends.
EndSend(q) ==
    /\ stage[q] \in Stages \ {"new", "returned", "done"}
    /\ ~sendDone[q]
    /\ sendDone' = [sendDone EXCEPT ![q] = TRUE]
    /\ UNCHANGED <<stage, result, fileVars, workerDone, shutdown, processVars>>

\* Send returns r, from wherever it is; the calls deferred so far remove what
\* they are for.  Nothing removes the directory.
Return(q, r) ==
    /\ stage' = [stage EXCEPT ![q] = "returned"]
    /\ result' = [result EXCEPT ![q] = r]
    /\ files' = [files EXCEPT ![q] = @ \ deferred[q]]
    /\ UNCHANGED deferred

\* Mkdir or MkdirTemp may fail.
MakeDirectory(q) ==
    /\ stage[q] = "directory"
    /\ \/ /\ files' = [files EXCEPT ![q] = @ \cup {"directory"}]
          /\ stage' = [stage EXCEPT ![q] = "request"]
          /\ UNCHANGED <<result, deferred>>
       \/ Return(q, "error")
    /\ UNCHANGED <<contextVars, processVars>>

\* Mutant of MakeFile: the removals are deferred together, once both files
\* have been made.
MakeFileDeferLate(q, file, next) ==
    /\ stage[q] = file
    /\ \/ /\ files' = [files EXCEPT ![q] = @ \cup {file}]
          /\ deferred' = [deferred EXCEPT ![q] =
                            IF next = "write" THEN {"request", "response"} ELSE @]
          /\ stage' = [stage EXCEPT ![q] = next]
          /\ UNCHANGED result
       \/ Return(q, "error")
    /\ UNCHANGED <<contextVars, processVars>>

\* A temporary file is made and its removal deferred, or Send returns.
MakeFile(q, file, next) ==
    /\ stage[q] = file
    /\ \/ /\ files' = [files EXCEPT ![q] = @ \cup {file}]
          /\ deferred' = [deferred EXCEPT ![q] = @ \cup {file}]
          /\ stage' = [stage EXCEPT ![q] = next]
          /\ UNCHANGED result
       \/ Return(q, "error")
    /\ UNCHANGED <<contextVars, processVars>>

MakeRequestFile(q) == MakeFile(q, "request", "response")
MakeResponseFile(q) == MakeFile(q, "response", "write")

\* The request is encoded, its file closed, the worker made and its stdout
\* asked for; each of these may fail.
WriteRequest(q) ==
    /\ stage[q] = "write"
    /\ \/ /\ stage' = [stage EXCEPT ![q] = "start"]
          /\ UNCHANGED <<result, fileVars>>
       \/ Return(q, "error")
    /\ UNCHANGED <<contextVars, processVars>>

\* worker.Start: refused when the send's context or the worker context has
\* ended; and it may fail.
StartWorker(q) ==
    /\ stage[q] = "start"
    /\ \/ /\ ~sendDone[q] /\ ~workerDone[q]
          /\ proc' = [proc EXCEPT ![q] = "running"]
          /\ stdout' = [stdout EXCEPT ![q] = "open"]
          /\ stage' = [stage EXCEPT ![q] = "stdout"]
          /\ UNCHANGED <<result, fileVars, child, response>>
       \/ Return(q, "error") /\ UNCHANGED processVars
    /\ UNCHANGED contextVars

\* stdoutWg.Wait() returns: no process has stdout open for writing any more.
\* The send's context is not looked at.
StdoutEnds(q) ==
    /\ stage[q] = "stdout"
    /\ stdout[q] = "closed"
    /\ stage' = [stage EXCEPT ![q] = "wait"]
    /\ UNCHANGED <<result, fileVars, contextVars, processVars>>

\* Mutant of Succeeded: the exit status is not looked at.
HasExited(q) == proc[q] \in {"success", "failure"}

\* The exit event of the process is one of success.
Succeeded(q) == proc[q] = "success"

\* worker.Wait returns because the process has exited, or because the send's
\* context has ended; only a success goes on to the response.
WaitEnds(q) ==
    /\ stage[q] = "wait"
    /\ \/ /\ Succeeded(q)
          /\ stage' = [stage EXCEPT ![q] = "decode"]
          /\ UNCHANGED <<result, fileVars>>
       \/ /\ proc[q] = "failure" \/ sendDone[q]
          /\ Return(q, "error")
    /\ UNCHANGED <<contextVars, processVars>>

\* Mutant of Decode: neither data nor an error.
DecodeNil(q) ==
    /\ stage[q] = "decode"
    /\ Return(q, IF response[q] = "whole" THEN "response" ELSE "nil")
    /\ UNCHANGED <<contextVars, processVars>>

\* The JSON decoder fails on a response file that is empty or breaks off.
Decode(q) ==
    /\ stage[q] = "decode"
    /\ Return(q, IF response[q] = "whole" THEN "response" ELSE "error")
    /\ UNCHANGED <<contextVars, processVars>>

-----------------------------------------------------------------------------
(* The release of the worker, and the shutdown of the pool.                 *)

\* dispose(): the file adapter's Stop and wait do nothing, so the supervisor
\* goes back to the pool, or is destroyed, at once.
Dispose(q) ==
    /\ stage[q] = "returned"
    /\ stage' = [stage EXCEPT ![q] = "done"]
    /\ UNCHANGED <<result, fileVars, contextVars, processVars>>

\* The goroutine that the release function has started cancels the worker
\* context, as wait has returned.
CancelWorker(q) ==
    /\ stage[q] \in {"returned", "done"}
    /\ ~workerDone[q]
    /\ workerDone' = [workerDone EXCEPT ![q] = TRUE]
    /\ UNCHANGED <<stage, result, fileVars, sendDone, shutdown, processVars>>

\* Shutdown closes the pool: no lease is given any more, and the pool's base
\* context, of which every worker context is a child, is cancelled.
ClosePool ==
    /\ shutdown = "none"
    /\ shutdown' = "closing"
    /\ workerDone' = [q \in Requests |-> TRUE]
    /\ UNCHANGED <<stage, result, fileVars, sendDone, processVars>>

\* The pool waits for the leases to come back; there is no worker that the
\* destructors of the supervisors would stop.
ShutdownReturns ==
    /\ shutdown = "closing" /\ Leased = {}
    /\ shutdown' = "returned"
    /\ UNCHANGED <<stage, result, fileVars, sendDone, workerDone, processVars>>

-----------------------------------------------------------------------------
(* The process, and a child of it that has inherited its stdout.            *)

WriteResponse(q) ==
    /\ proc[q] = "running"
    /\ "response" \in files[q]
    /\ \/ response[q] = "empty" /\ response' = [response EXCEPT ![q] = "partial"]
       \/ response[q] = "partial" /\ response' = [response EXCEPT ![q] = "whole"]
    /\ UNCHANGED <<stage, result, fileVars, contextVars, proc, child, stdout>>

\* At most one child: what matters is whether there is one.
Fork(q) ==
    /\ proc[q] = "running" /\ stdout[q] = "open" /\ ~child[q]
    /\ child' = [child EXCEPT ![q] = TRUE]
    /\ UNCHANGED <<stage, result, fileVars, contextVars, proc, stdout, response>>

\* The process goes on without a stdout and without a child that has it.
CloseStdout(q) ==
    /\ proc[q] = "running"
    /\ stdout[q] = "open" /\ ~child[q]
    /\ stdout' = [stdout EXCEPT ![q] = "closed"]
    /\ UNCHANGED <<stage, result, fileVars, contextVars, proc, child, response>>

\* The process ends, and stdout with it unless a child has it.
Ends(q, how) ==
    /\ proc[q] = "running"
    /\ proc' = [proc EXCEPT ![q] = how]
    /\ stdout' = IF child[q] THEN stdout ELSE [stdout EXCEPT ![q] = "closed"]
    /\ UNCHANGED <<stage, result, fileVars, contextVars, child, response>>

Exit(q) == \E how \in {"success", "failure"} : Ends(q, how)

\* The child ends, or lets go of stdout; nobody but itself makes it.
ChildExits(q) ==
    /\ child[q]
    /\ child' = [child EXCEPT ![q] = FALSE]
    /\ stdout' = IF proc[q] = "running" THEN stdout ELSE [stdout EXCEPT ![q] = "closed"]
    /\ UNCHANGED <<stage, result, fileVars, contextVars, proc, response>>

\* Mutant of Kill: cmd.Cancel closes the pipe but does not kill.
CancelOnly(q) == workerDone[q] /\ UNCHANGED vars

\* os/exec kills the process, and no child of it, when the worker context has
\* ended.  It does not close the read end of stdout: cmd.Wait would, but runs
\* only once worker.Wait has been called.
Kill(q) == workerDone[q] /\ Ends(q, "failure")

-----------------------------------------------------------------------------
Step(q) ==
    \/ MakeDirectory(q) \/ MakeRequestFile(q) \/ MakeResponseFile(q) \/ WriteRequest(q)
    \/ StartWorker(q) \/ StdoutEnds(q) \/ WaitEnds(q) \/ Decode(q) \/ Dispose(q)

Next ==
    \/ ClosePool \/ ShutdownReturns
    \/ \E q \in Requests :
        \/ Lease(q) \/ EndSend(q) \/ Step(q) \/ CancelWorker(q)
        \/ WriteResponse(q) \/ Fork(q) \/ CloseStdout(q) \/ Exit(q) \/ ChildExits(q)
        \/ Kill(q)

Spec == Init /\ [][Next]_vars

\* The shim's own goroutines run and a killed process dies.  Neither a process
\* nor its child has to exit, a timeout need not pass, nobody has to call
\* Shutdown.
Fairness ==
    /\ WF_vars(ShutdownReturns)
    /\ \A q \in Requests :
        WF_vars(Lease(q)) /\ WF_vars(Step(q)) /\ WF_vars(CancelWorker(q)) /\ WF_vars(Kill(q))

FairSpec == Spec /\ Fairness

-----------------------------------------------------------------------------
(* Properties.                                                              *)

\* A process whose stdout is still open has a lease of the pool: only one that
\* has closed it can be left behind by Send and run beside the next lease's.
OpenWorkersBounded ==
    /\ Cardinality({q \in Running : stdout[q] = "open"}) <= MaxWorkers
    /\ \A q \in Running \ Leased : stdout[q] = "closed"

\* A message that reports success rests on a finished process: it has exited
\* with success and written its response before the file was read, so that
\* nothing is read from under a process that still writes.
ResponseComplete ==
    \A q \in Requests : result[q] = "response" =>
        proc[q] = "success" /\ response[q] = "whole"

\* On none of its returns, whichever step has failed, does Send leave a request
\* or response file behind, and it removes neither under the process it waits
\* for.  (That os.Remove itself succeeds is taken for granted.)
FilesKept ==
    \A q \in Requests :
        /\ stage[q] \in {"returned", "done"} => files[q] \subseteq {"directory"}
        /\ stage[q] \in {"stdout", "wait", "decode"} => {"request", "response"} \subseteq files[q]

\* No process runs for ever behind its Send, and none under a Shutdown: the
\* release function cancels the worker context even though the file adapter
\* stops nothing, closing the pool cancels those that are in use, and Shutdown
\* waits for ever only for a stdout that a child of a worker keeps open.
LeftoversKilled ==
    /\ \A q \in Requests :
        (stage[q] = "returned" \/ shutdown = "closing") ~> [](proc[q] # "running")
    /\ <>[](shutdown = "closing") =>
        \E q \in Requests : <>[](child[q] /\ stage[q] = "stdout")
=============================================================================
