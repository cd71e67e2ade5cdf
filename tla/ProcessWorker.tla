---------------------------- MODULE ProcessWorker ----------------------------
(***************************************************************************)
(* One worker process and the goroutines around it                         *)
(* (internal/execution/worker/worker.go): Start leaves behind a goroutine  *)
(* that reads stderr and one that waits for the process once Wait has been *)
(* called and hands its exit event to the caller of Wait; Stop and Kill    *)
(* signal the process group; os/exec kills the process when the worker     *)
(* context ends.  The process may fork a child that shares its stderr.     *)
(***************************************************************************)
CONSTANTS
    Waits,              \* the calls of Wait
    OverlappingWaits    \* two of them may be inside Wait's first select

ASSUME WorkerAssumption == OverlappingWaits \in BOOLEAN

VARIABLES
    started,      \* what Start has come to
    proc,         \* the process: "exited" until cmd.Wait has reaped it
    cause,        \* how the process ended
    writers,      \* the processes that hold the write end of stderr
    stderrOpen,   \* the read end of stderr is open
    reader,       \* the goroutine that reads stderr, and how it ended
    waiter,       \* the goroutine that waits: what it waits for
    waitClosed,   \* the channel w.wait is closed
    event,        \* the exit event the waiting goroutine has made
    call,         \* call[c]: how far call c of Wait has come
    ctxDone,      \* the worker context has ended
    killed        \* os/exec has run cmd.Cancel, and it has killed the process

processVars == <<proc, cause, writers>>
goVars == <<started, reader, waiter, event, killed>>
vars == <<processVars, goVars, stderrOpen, waitClosed, call, ctxDone>>

Causes == {"success", "failure", "signal"}

TypeOK ==
    /\ started \in {"new", "refused", "failed", "ok"}
    /\ proc \in {"none", "running", "exited", "reaped"}
    /\ cause \in Causes \cup {"none"}
    /\ writers \in SUBSET {"worker", "child"}
    /\ stderrOpen \in BOOLEAN
    /\ reader \in {"none", "reading", "eof", "closed"}
    /\ waiter \in {"none", "call", "stderr", "process", "event", "done"}
    /\ waitClosed \in BOOLEAN
    /\ event \in Causes \cup {"none", "unknown"}
    /\ call \in [Waits -> {"new", "close", "waiting", "event", "gaveUp",
                           "refused", "panic"}]
    /\ ctxDone \in BOOLEAN
    /\ killed \in BOOLEAN

Init ==
    /\ started = "new"
    /\ proc = "none" /\ cause = "none" /\ writers = {}
    /\ stderrOpen = FALSE
    /\ reader = "none" /\ waiter = "none"
    /\ waitClosed = FALSE
    /\ event = "none"
    /\ call = [c \in Waits |-> "new"]
    /\ ctxDone = FALSE
    /\ killed = FALSE

-----------------------------------------------------------------------------
(* The process and its child.                                               *)

\* The process ends, which closes its end of stderr.
Die(how) ==
    /\ proc = "running"
    /\ proc' = "exited"
    /\ cause' = how

Exit ==
    /\ \E how \in Causes \ {"signal"} : Die(how)
    /\ writers' = writers \ {"worker"}
    /\ UNCHANGED <<goVars, stderrOpen, waitClosed, call, ctxDone>>

Fork ==
    /\ proc = "running"
    /\ "child" \notin writers
    /\ writers' = writers \cup {"child"}
    /\ UNCHANGED <<proc, cause, goVars, stderrOpen, waitClosed, call, ctxDone>>

ChildExits ==
    /\ "child" \in writers
    /\ writers' = writers \ {"child"}
    /\ UNCHANGED <<proc, cause, goVars, stderrOpen, waitClosed, call, ctxDone>>

-----------------------------------------------------------------------------
(* Start, Stop and Kill.                                                    *)

\* Start refuses when the context given to it has ended or there is no pipe.
RefuseStart ==
    /\ started = "new"
    /\ started' = "refused"
    /\ UNCHANGED <<processVars, reader, waiter, event, killed,
                   stderrOpen, waitClosed, call, ctxDone>>

\* Start returns at once.  If cmd.Start fails, as it does when the worker
\* context has ended, the pipe is closed again; both goroutines run already.
Start ==
    /\ started = "new"
    /\ reader' = "reading"
    /\ waiter' = "call"
    /\ \/ /\ ~ctxDone
          /\ started' = "ok"
          /\ proc' = "running"
          /\ writers' = {"worker"}
          /\ stderrOpen' = TRUE
       \/ /\ started' = "failed"
          /\ UNCHANGED <<proc, writers, stderrOpen>>
    /\ UNCHANGED <<cause, waitClosed, event, call, ctxDone, killed>>

\* halt: SIGTERM or SIGKILL to the process group, which is known only while
\* the process has not been reaped.  SIGTERM may be ignored or handled later.
Halt(force) ==
    /\ proc \in {"running", "exited"}
    /\ \E dead \in SUBSET (writers \cup {"worker"}) :
        /\ force => dead = writers \cup {"worker"}
        /\ writers' = writers \ dead
        /\ IF "worker" \in dead /\ proc = "running"
           THEN Die("signal")
           ELSE UNCHANGED <<proc, cause>>
    /\ UNCHANGED <<goVars, stderrOpen, waitClosed, call, ctxDone>>

Stop == Halt(FALSE)
Kill == Halt(TRUE)

EndContext ==
    /\ ~ctxDone
    /\ ctxDone' = TRUE
    /\ UNCHANGED <<processVars, goVars, stderrOpen, waitClosed, call>>

\* The goroutine of exec.CommandContext runs cmd.Cancel: it closes stderr and
\* kills the process, but not its group.  Killing succeeds until the process
\* has been reaped.
Cancel ==
    /\ ctxDone
    /\ proc \in {"running", "exited"}
    /\ ~killed
    /\ killed' = TRUE
    /\ stderrOpen' = FALSE
    /\ writers' = writers \ {"worker"}
    /\ IF proc = "running" THEN Die("signal") ELSE UNCHANGED <<proc, cause>>
    /\ UNCHANGED <<started, reader, waiter, event, waitClosed, call, ctxDone>>

-----------------------------------------------------------------------------
(* The two goroutines.                                                      *)

\* io.Copy from stderr ends when every writer is gone or the pipe is closed.
ReadStderr ==
    /\ reader = "reading"
    /\ \/ ~stderrOpen /\ reader' = "closed"
       \/ stderrOpen /\ writers = {} /\ reader' = "eof"
    /\ UNCHANGED <<processVars, started, waiter, event, killed,
                   stderrOpen, waitClosed, call, ctxDone>>

\* Mutant of ExitEvent: no event for an error that is no exit status.
NilEvent == IF cause = "success" /\ killed THEN "nil" ELSE cause

\* Mutant of ExitEvent: signals are not looked at.
EventWithoutSignal == IF cause = "signal" THEN "failure" ELSE cause

\* getExitEvent.  If os/exec has run cmd.Cancel, cmd.Wait reports the ended
\* context in place of a success; that is no exit status, and the event gets
\* exit code 1.
ExitEvent == IF cause = "success" /\ killed THEN "unknown" ELSE cause

\* Mutant of StderrDone: the goroutine does not wait for stderr.
StderrIgnored == TRUE

\* The channel stderrDone is closed.
StderrDone == reader \in {"eof", "closed"}

\* The waiting goroutine comes past one more point at which it blocks.
WaiterStep ==
    /\ \/ /\ waiter = "call"
          /\ waitClosed
          /\ waiter' = "stderr"
          /\ UNCHANGED <<proc, event, stderrOpen>>
       \/ /\ waiter = "stderr"
          /\ StderrDone
          /\ waiter' = "process"
          /\ UNCHANGED <<proc, event, stderrOpen>>
       \/ /\ waiter = "process"
          /\ proc = "exited"
          /\ proc' = "reaped"
          /\ event' = ExitEvent
          /\ stderrOpen' = FALSE
          /\ waiter' = "event"
    /\ UNCHANGED <<cause, writers, started, reader, killed, waitClosed, call, ctxDone>>

-----------------------------------------------------------------------------
(* Wait.  Its callers call it once Start has succeeded.                     *)

\* The first select finds w.wait closed, or takes its default branch.
EnterWait(c) ==
    /\ started = "ok"
    /\ call[c] = "new"
    /\ OverlappingWaits \/ \A d \in Waits : call[d] # "close"
    /\ call' = [call EXCEPT ![c] = IF waitClosed THEN "refused" ELSE "close"]
    /\ UNCHANGED <<processVars, goVars, stderrOpen, waitClosed, ctxDone>>

\* Mutant of CloseWait: the channel is not closed.
CloseWaitForgotten(c) ==
    /\ call[c] = "close"
    /\ call' = [call EXCEPT ![c] = "waiting"]
    /\ UNCHANGED <<processVars, goVars, stderrOpen, waitClosed, ctxDone>>

\* close(w.wait), which panics on a closed channel.
CloseWait(c) ==
    /\ call[c] = "close"
    /\ waitClosed' = TRUE
    /\ call' = [call EXCEPT ![c] = IF waitClosed THEN "panic" ELSE "waiting"]
    /\ UNCHANGED <<processVars, goVars, stderrOpen, ctxDone>>

\* w.exit is not buffered: the event passes when both sides are there.
ReceiveEvent(c) ==
    /\ call[c] = "waiting"
    /\ waiter = "event"
    /\ call' = [call EXCEPT ![c] = "event"]
    /\ waiter' = "done"
    /\ UNCHANGED <<processVars, started, reader, event, killed,
                   stderrOpen, waitClosed, ctxDone>>

\* The context given to Wait ends first.
GiveUp(c) ==
    /\ call[c] = "waiting"
    /\ call' = [call EXCEPT ![c] = "gaveUp"]
    /\ UNCHANGED <<processVars, goVars, stderrOpen, waitClosed, ctxDone>>

-----------------------------------------------------------------------------
Wait(c) == EnterWait(c) \/ CloseWait(c) \/ ReceiveEvent(c)

Next ==
    \/ RefuseStart \/ Start \/ Exit \/ Fork \/ ChildExits \/ Stop \/ Kill \/ EndContext
    \/ Cancel \/ ReadStderr \/ WaiterStep
    \/ \E c \in Waits : Wait(c) \/ GiveUp(c)

Spec == Init /\ [][Next]_vars

\* The goroutines run.  A process, or its child, need not end, no context has
\* to, and nobody has to call Wait.
Fairness ==
    /\ WF_vars(Cancel)
    /\ WF_vars(ReadStderr)
    /\ WF_vars(WaiterStep)
    /\ \A c \in Waits : WF_vars(CloseWait(c) \/ ReceiveEvent(c))

FairSpec == Spec /\ Fairness

-----------------------------------------------------------------------------
(* Properties.                                                              *)

\* The exit event a caller gets tells how the process ended: it has been
\* reaped, and a failure or a signal is never reported as a success.  Only a
\* success may be lost, when the context has ended as well.
EventTruthful ==
    \A c \in Waits : call[c] = "event" =>
        /\ proc = "reaped"
        /\ event = cause \/ (event = "unknown" /\ cause = "success" /\ ctxDone)

\* "Any of `Wait` or `WaitFor` are intended to be called only once. Subsequent
\* calls will return an error." (worker.go:229-230): one call at most gets
\* past the first select, and none panics.
OneWaiter ==
    /\ \A c \in Waits : call[c] # "panic"
    /\ \A c, d \in Waits :
        call[c] \in {"waiting", "event", "gaveUp"}
        /\ call[d] \in {"waiting", "event", "gaveUp"} => c = d

\* The stderr in the exit event is all of it: the process is not waited for,
\* which closes the pipe, before stderr has been read to its end, unless the
\* worker context has ended.
StderrWhole ==
    started = "ok" /\ waiter \in {"process", "event", "done"} /\ ~ctxDone
        => reader = "eof"

\* Wait returns once the process has exited, unless a child of the process has
\* kept stderr.
WaitEnds ==
    \A c \in Waits :
        call[c] = "waiting" /\ proc = "exited"
            ~> call[c] # "waiting" \/ "child" \in writers
=============================================================================
