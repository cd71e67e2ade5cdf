------------------------------ MODULE Lifecycle ------------------------------
(***************************************************************************)
(* The program from its arguments to its exit code: cmd/root.go parses the *)
(* configuration, the shell (internal/shell/shell.go) starts the hooks of  *)
(* the runtime and of the front, which is the HTTP server (internal/server *)
(* /server.go) or the Lambda handler (app/lambda/handler.go), waits for a  *)
(* signal and stops them.                                                  *)
(*                                                                         *)
(* fx is a library: it runs start hooks in the order they were appended,   *)
(* which is that of the dependencies, and stop hooks in reverse, goes on   *)
(* after a stop hook that fails but not once its context has ended, and    *)
(* stops what was started when a start hook fails.                         *)
(***************************************************************************)
EXTENDS ConfigParse

CONSTANTS
    Requests,    \* the requests that may come in
    Modes        \* "serve", with --h2c "h2c", or "lambda"

ASSUME ModesAssumption == Modes \subseteq {"serve", "h2c", "lambda"}

VARIABLES
    mode,        \* the command, or what "run" has detected
    io,          \* the interface of the worker, which decides on the dispatcher
    pc,          \* where the shell is
    front,       \* the listener of the server, or the Lambda loop
    inflight,    \* requests being handled
    runtime,     \* the hook of the runtime: "new", "started", "stopped"
    worker,      \* a worker process of the dispatcher may be there; one whose
                 \* boot has failed it does not know (see WorkerSupervisor)
    code,        \* the exit code in the ExitError, 99 before there is one
    exitCode     \* the exit code of the process, 99 while it runs

appVars == <<mode, io, pc, front, inflight, runtime, worker, code, exitCode>>
vars == <<configVars, appVars>>

Interfaces == {"rpc", "file", "wasm"}

TypeOK ==
    /\ ConfigTypeOK
    /\ mode \in Modes
    /\ io \in Interfaces
    /\ pc \in {"parsing", "starting", "startingFront", "rollback", "running",
               "stopping", "stoppingRuntime", "stopped", "returned", "exited"}
    /\ front \in {"none", "binding", "unbound", "open", "closed"}
    /\ inflight \subseteq Requests
    /\ runtime \in {"new", "started", "stopped"}
    /\ worker \in BOOLEAN
    /\ code \in {0, 1, 99} /\ exitCode \in {0, 1, 99}
    /\ pc \in {"returned", "exited"} <=> code # 99
    /\ pc = "exited" <=> exitCode # 99

Init ==
    /\ ConfigInit
    /\ mode \in Modes
    /\ io \in Interfaces
    /\ pc = "parsing" /\ front = "none" /\ inflight = {}
    /\ runtime = "new" /\ worker = FALSE /\ code = 99 /\ exitCode = 99

-----------------------------------------------------------------------------
(* Start: 15 s for all hooks together.                                      *)

Parse == (LoadEnvironment \/ LoadFlags) /\ UNCHANGED appVars

\* Parsing fails, or a constructor of the application does.
SetupFails ==
    /\ pc = "parsing" /\ loaded # "nothing"
    /\ pc' = "returned" /\ code' = 1
    /\ UNCHANGED <<configVars, mode, io, front, inflight, runtime, worker, exitCode>>

\* fx.New runs the constructors.  The one of the WASM dispatcher starts it, so
\* the guest's start function is run before the start timeout.
Build ==
    /\ pc = "parsing" /\ loaded = "flags"
    /\ pc' = "starting"
    /\ UNCHANGED <<configVars, mode, io, front, inflight, runtime, worker, code, exitCode>>

\* A dedicated dispatcher boots its worker, which may have died already, a pooled
\* one does nothing, and the WASM dispatcher has no processes.
StartRuntime ==
    /\ pc = "starting"
    /\ worker' \in {FALSE, io = "rpc"}
    /\ runtime' = "started"
    /\ pc' = "startingFront"
    /\ UNCHANGED <<configVars, mode, io, front, inflight, code, exitCode>>

\* The hook fails or the start timeout is over.  No hook has succeeded, so
\* none is stopped, although the process may run (see RpcDispatcher).
StartRuntimeFails ==
    /\ pc = "starting"
    /\ worker' \in {FALSE, io = "rpc"}
    /\ pc' = "returned" /\ code' = 1
    /\ UNCHANGED <<configVars, mode, io, front, inflight, runtime, exitCode>>

\* The server is started in a goroutine; so is the Lambda loop, unless its
\* proxy source is invalid.
StartFront ==
    /\ pc = "startingFront"
    /\ front' = IF mode = "lambda" THEN "open" ELSE "binding"
    /\ pc' = "running"
    /\ UNCHANGED <<configVars, mode, io, inflight, runtime, worker, code, exitCode>>

\* The proxy source is invalid, or the start timeout is over between two hooks.
StartFrontFails ==
    /\ pc = "startingFront"
    /\ pc' = "rollback"
    /\ UNCHANGED <<configVars, mode, io, front, inflight, runtime, worker, code, exitCode>>

\* fx stops the runtime, in what is left of the start timeout.
RollBack ==
    /\ pc = "rollback"
    /\ \/ runtime' = "stopped" /\ worker' = FALSE
       \/ UNCHANGED <<runtime, worker>>
    /\ pc' = "returned" /\ code' = 1
    /\ UNCHANGED <<configVars, mode, io, front, inflight, exitCode>>

-----------------------------------------------------------------------------
(* The front.                                                               *)

Alive == pc # "exited"

Listen ==
    /\ Alive /\ front = "binding"
    /\ front' = "open"
    /\ UNCHANGED <<configVars, mode, io, pc, inflight, runtime, worker, code, exitCode>>

\* log.Fatal, of Serve when it cannot listen (a Shutdown may have begun) and of
\* the Lambda library when its loop ends: the process exits, no hook is run.
Fatal ==
    /\ Alive
    /\ front \in {"binding", "unbound"} \/ (mode = "lambda" /\ front # "none")
    /\ pc' = "exited" /\ code' = 1 /\ exitCode' = 1
    /\ UNCHANGED <<configVars, mode, io, front, inflight, runtime, worker>>

\* Serve returns with an error, which is logged; the application goes on.
ServeFails ==
    /\ Alive /\ mode # "lambda" /\ front = "open"
    /\ front' = "closed"
    /\ UNCHANGED <<configVars, mode, io, pc, inflight, runtime, worker, code, exitCode>>

\* Closing the front ends what may come in later than what may come in at all.
\* The Lambda handler ends the contexts of the invocations, not the loop that
\* fetches them; the server closes connections that are idle, but one that is
\* new or busy may still bring a request, and one that was taken over for
\* HTTP/2 is not the server's any more.
Accepting ==
    \/ front = "open"
    \/ front = "closed" /\ (mode = "serve" => pc \in {"running", "stopping"})

Arrive(q) ==
    /\ Alive /\ Accepting /\ q \notin inflight
    /\ inflight' = inflight \cup {q}
    /\ UNCHANGED <<configVars, mode, io, pc, front, runtime, worker, code, exitCode>>

\* A request has the dispatcher boot a worker: a transient one, as long as the
\* pool is not closed, or a new one for a persistent supervisor, even if that has
\* been shut down.
Boot ==
    /\ Alive /\ inflight # {} /\ ~worker
    /\ io = "rpc" \/ (io = "file" /\ runtime = "started")
    /\ worker' = TRUE
    /\ UNCHANGED <<configVars, mode, io, pc, front, inflight, runtime, code, exitCode>>

Finish(q) ==
    /\ Alive /\ q \in inflight
    /\ inflight' = inflight \ {q}
    /\ UNCHANGED <<configVars, mode, io, pc, front, runtime, worker, code, exitCode>>

-----------------------------------------------------------------------------
(* Stop: 15 s for all hooks together.                                       *)

Signal ==
    /\ pc = "running"
    /\ pc' = "stopping"
    /\ UNCHANGED <<configVars, mode, io, front, inflight, runtime, worker, code, exitCode>>

\* http.Server.Shutdown closes the listener at once, and one that is not there
\* yet will not be served; LambdaHandler.Shutdown cancels its context.
CloseFront ==
    /\ pc = "stopping" /\ front \in {"binding", "open"}
    /\ front' = IF front = "binding" THEN "unbound" ELSE "closed"
    /\ UNCHANGED <<configVars, mode, io, pc, inflight, runtime, worker, code, exitCode>>

\* Mutant of FrontStopped: the server does not wait for its requests.
FrontClosed ==
    /\ pc = "stopping" /\ front \in {"unbound", "closed"}
    /\ pc' = "stoppingRuntime"
    /\ UNCHANGED <<configVars, mode, io, front, inflight, runtime, worker, code, exitCode>>

\* http.Server waits for the requests of its own connections, the Lambda
\* handler for none.
FrontStopped ==
    /\ pc = "stopping" /\ front \in {"unbound", "closed"}
    /\ mode = "serve" => inflight = {}
    /\ pc' = "stoppingRuntime"
    /\ UNCHANGED <<configVars, mode, io, front, inflight, runtime, worker, code, exitCode>>

\* Mutant of StopRuntime: no dispatcher waits for its workers.
StopRuntimeUnawaited ==
    /\ pc = "stoppingRuntime"
    /\ runtime' = "stopped"
    /\ pc' = "stopped"
    /\ UNCHANGED <<configVars, mode, io, front, inflight, worker, code, exitCode>>

\* Shutdown of the dedicated dispatcher waits for its worker.  That of the pooled
\* one does not: the wait function of the file adapter waits for nothing, so a
\* process that has let go of its stdout is killed some time later.
StopRuntime ==
    /\ pc = "stoppingRuntime"
    /\ runtime' = "stopped"
    /\ worker' \in IF io = "file" THEN {worker, FALSE} ELSE {FALSE}
    /\ pc' = "stopped"
    /\ UNCHANGED <<configVars, mode, io, front, inflight, code, exitCode>>

\* Mutant of StopFails: the server's hook has no timeout.
StopFailsLate ==
    /\ pc = "stoppingRuntime"
    /\ pc' = "returned" /\ code' = 1
    /\ UNCHANGED <<configVars, mode, io, front, inflight, runtime, worker, exitCode>>

\* A hook fails, or the stop timeout is over: the hooks that are left are not
\* run, not the runtime's when the server waits for a request that takes
\* longer (one may take worker-send-timeout, 30 s, and more).
StopFails ==
    /\ pc \in {"stopping", "stoppingRuntime"}
    /\ pc' = "returned" /\ code' = 1
    /\ UNCHANGED <<configVars, mode, io, front, inflight, runtime, worker, exitCode>>

\* Mutant of Return: the exit code is lost.
ReturnUnknown ==
    /\ pc = "stopped"
    /\ pc' = "returned"
    /\ UNCHANGED <<configVars, mode, io, front, inflight, runtime, worker, code, exitCode>>

\* The exit code of fx's signal, which an OS signal leaves at 0; or the error of
\* a hook, after which fx has gone on to the next (closing the listener fails).
Return ==
    /\ pc = "stopped"
    /\ pc' = "returned" /\ code' \in {0, 1}
    /\ UNCHANGED <<configVars, mode, io, front, inflight, runtime, worker, exitCode>>

\* The deferred cancelApp ends all worker contexts, which may or may not kill
\* the processes before os.Exit(1): Run returns an ExitError in any case, and
\* cmd.run does not look into it.
Exit ==
    /\ pc = "returned"
    /\ pc' = "exited" /\ exitCode' = 1
    /\ worker' \in {worker, FALSE}
    /\ UNCHANGED <<configVars, mode, io, front, inflight, runtime, code>>

-----------------------------------------------------------------------------
\* The steps of the main goroutine, but for the wait for a signal.
Main ==
    \/ Parse \/ SetupFails \/ Build
    \/ StartRuntime \/ StartRuntimeFails \/ StartFront \/ StartFrontFails \/ RollBack
    \/ CloseFront \/ FrontStopped \/ StopRuntime \/ StopFails \/ Return \/ Exit

Next ==
    \/ Main \/ Signal
    \/ Listen \/ Fatal \/ ServeFails
    \/ Boot \/ \E q \in Requests : Arrive(q) \/ Finish(q)

Spec == Init /\ [][Next]_vars

\* The guest's start function runs in the constructor; it has no timeout.
Constructing == pc = "parsing" /\ loaded = "flags" /\ io = "wasm"

\* The main goroutine runs, and both timeouts end.  No signal has to come, no
\* request has to finish, and no guest.
FairSpec == Spec /\ WF_vars(Main /\ ~Constructing)

-----------------------------------------------------------------------------
(* Properties.                                                              *)

\* The server's hook is appended after the runtime's, as it depends on it:
\* whatever starts and stops in between, a request of the plain HTTP server
\* never meets a runtime that is not started or is stopped, other than in a
\* shutdown that has failed.
RequestsServed ==
    mode = "serve" /\ inflight # {} => runtime = "started"

\* "9. gracefully shutdown the app, exit on error" (shell.go:60): when Run
\* returns without an error of its own, the plain HTTP server has answered
\* its requests, and the worker process is gone.  With the file interface one may
\* be left, against dispatcher_pooled.go:144 (see FileAdapter).
CleanExit ==
    mode = "serve" /\ code = 0 =>
        inflight = {} /\ runtime = "stopped" /\ (io # "file" => ~worker)

\* Neither the start nor the shutdown hangs, even if a request never finishes
\* or a worker never answers: the application runs, or it exits, unless a guest
\* hangs that is run in a constructor.
StartsOrExits ==
    <>[]Constructing \/ (pc # "running" ~> pc \in {"running", "exited"})

\* The configuration is what the flags say ("map cli flags to config fields",
\* root.go:250), whatever the environment holds besides: the command line
\* decides, for every flag but the durations, of which the code does not see
\* what the command line says (against README.md:78-79), and the flag's variable
\* counts more than its default, for all of them.
FlagsDecide ==
    loaded = "flags" =>
        /\ "cmdline" \in given => k = "cmdline" \/ flag \in DurationFlags
        /\ "variable" \in given => k \in {"variable", "cmdline"}
=============================================================================
