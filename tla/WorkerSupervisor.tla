-------------------------- MODULE WorkerSupervisor --------------------------
(***************************************************************************)
(* A supervisor (internal/execution/supervisor/supervisor.go): it boots    *)
(* workers through an adapter, keeps a reference to the current one, sends *)
(* messages to it and terminates it.  Calls of Start, Send, Suspend and    *)
(* Shutdown run concurrently; sendLock and workerLock order them.  A       *)
(* persistent supervisor drives the rpc adapter and keeps its worker, a    *)
(* transient one drives the file adapter and has a worker per message.     *)
(*                                                                         *)
(* A call boots at most one worker, so the worker is named by the call     *)
(* that boots it.                                                          *)
(***************************************************************************)
CONSTANTS
    Calls,        \* the calls made on the supervisor, each made once
    Interfaces,   \* the interfaces the configuration may ask for
    Nobody        \* no call: a free lock, a nil reference

ASSUME SupervisorAssumption == Interfaces \subseteq {"rpc", "file"} /\ Nobody \notin Calls

VARIABLES
    op,           \* op[c]: the method call c is a call of
    pc,           \* pc[c]: how far it has come
    sendLock,     \* the call that holds sendLock
    workerLock,   \* the call that holds workerLock while it boots a worker
    workerRef,    \* the worker that s.workerRef points to
    using,        \* using[c]: the worker acquireWorker returned to c
    release,      \* release[c]: the release function c has returned
    target,       \* target[c]: the worker that function waits for
    ctx,          \* ctx[w]: the worker context of w
    proc,         \* proc[w]: the process of w
    stopped,      \* the workers whose Stop has been called with success
    armed,        \* the workers whose stop timer runs
    parentDone,   \* the context the supervisor was made with has ended
    io            \* config.IO.Interface

callVars == <<op, pc, using, release, target>>
workerVars == <<ctx, proc, stopped, armed, parentDone, io>>
vars == <<callVars, sendLock, workerLock, workerRef, workerVars>>

\* s.persistent
Persistent == io = "rpc"

TypeOK ==
    /\ op \in [Calls -> {"none", "start", "send", "suspend", "shutdown"}]
    /\ pc \in [Calls -> {"new", "lock", "acquire", "boot", "send", "terminate",
                         "returned", "waiting", "done"}]
    /\ sendLock \in Calls \cup {Nobody}
    /\ workerLock \in Calls \cup {Nobody}
    /\ workerRef \in Calls \cup {Nobody}
    /\ using \in [Calls -> Calls \cup {Nobody}]
    /\ release \in [Calls -> {"none", "noop", "error", "wait"}]
    /\ target \in [Calls -> Calls \cup {Nobody}]
    /\ ctx \in [Calls -> {"none", "open", "cancelled"}]
    /\ proc \in [Calls -> {"none", "running", "exited"}]
    /\ stopped \in SUBSET Calls
    /\ armed \in SUBSET Calls
    /\ parentDone \in BOOLEAN
    /\ io \in {"rpc", "file"}

Init ==
    /\ op = [c \in Calls |-> "none"]
    /\ pc = [c \in Calls |-> "new"]
    /\ sendLock = Nobody
    /\ workerLock = Nobody
    /\ workerRef = Nobody
    /\ using = [c \in Calls |-> Nobody]
    /\ release = [c \in Calls |-> "none"]
    /\ target = [c \in Calls |-> Nobody]
    /\ ctx = [w \in Calls |-> "none"]
    /\ proc = [w \in Calls |-> "none"]
    /\ stopped = {}
    /\ armed = {}
    /\ parentDone = FALSE
    /\ io \in Interfaces

-----------------------------------------------------------------------------
(* The four methods begin.                                                  *)

Begin(c, method, next) ==
    /\ pc[c] = "new"
    /\ op' = [op EXCEPT ![c] = method]
    /\ pc' = [pc EXCEPT ![c] = next]
    /\ UNCHANGED <<using, target, sendLock, workerLock, workerRef, workerVars>>

Start(c) ==
    /\ Begin(c, "start", IF Persistent THEN "acquire" ELSE "done")
    /\ UNCHANGED release

Send(c) ==
    /\ Begin(c, "send", "lock")
    /\ UNCHANGED release

\* releaseWorker: a no-op for a persistent worker.
Suspend(c) ==
    /\ Begin(c, "suspend", IF Persistent THEN "returned" ELSE "terminate")
    /\ release' = IF Persistent THEN [release EXCEPT ![c] = "noop"] ELSE release

Shutdown(c) ==
    /\ Begin(c, "shutdown", "terminate")
    /\ UNCHANGED release

\* Mutant of LockSend: Send does not take sendLock.
SendUnlocked(c) ==
    /\ pc[c] = "lock"
    /\ pc' = [pc EXCEPT ![c] = "acquire"]
    /\ UNCHANGED <<op, using, release, target, sendLock, workerLock, workerRef,
                   workerVars>>

LockSend(c) ==
    /\ pc[c] = "lock"
    /\ sendLock = Nobody
    /\ sendLock' = c
    /\ pc' = [pc EXCEPT ![c] = "acquire"]
    /\ UNCHANGED <<op, using, release, target, workerLock, workerRef, workerVars>>

-----------------------------------------------------------------------------
\* Mutant of UnlockSend: an early return without the deferred unlock.
KeepSendLock(c) == UNCHANGED sendLock

\* Send unlocks on every return.
UnlockSend(c) == sendLock' = IF op[c] = "send" THEN Nobody ELSE sendLock

-----------------------------------------------------------------------------
(* acquireWorker and bootWorker.                                            *)

\* acquireWorker returns worker w to call c.
Acquired(c, w) ==
    /\ using' = [using EXCEPT ![c] = w]
    /\ pc' = [pc EXCEPT ![c] = IF op[c] = "send" THEN "send" ELSE "done"]

\* Under workerLock: the current worker, whatever has become of it, or a new
\* one, whose adapter and worker context are made before it is started.
AcquireWorker(c) ==
    /\ pc[c] = "acquire"
    /\ workerLock = Nobody
    /\ \/ /\ workerRef # Nobody
          /\ Acquired(c, workerRef)
          /\ UNCHANGED <<workerLock, ctx>>
       \/ /\ workerRef = Nobody
          /\ workerLock' = c
          /\ ctx' = [ctx EXCEPT ![c] = IF parentDone THEN "cancelled" ELSE "open"]
          /\ pc' = [pc EXCEPT ![c] = "boot"]
          /\ UNCHANGED using
    /\ UNCHANGED <<op, release, target, sendLock, workerRef,
                   proc, stopped, armed, parentDone, io>>

\* The worker's process starts: in the rpc adapter's Start, or in the file
\* adapter's Send.  os/exec refuses a context that has ended.
Spawn(c) ==
    \E w \in Calls :
        /\ \/ Persistent /\ pc[c] = "boot" /\ w = c
           \/ ~Persistent /\ pc[c] = "send" /\ w = using[c]
        /\ ctx[w] = "open"
        /\ proc[w] = "none"
        /\ proc' = [proc EXCEPT ![w] = "running"]
        /\ UNCHANGED <<callVars, sendLock, workerLock, workerRef,
                       ctx, stopped, armed, parentDone, io>>

\* The file adapter only stores its parameters; the rpc adapter has started
\* the process and dialled it.
BootWorker(c) ==
    /\ pc[c] = "boot"
    /\ Persistent => proc[c] # "none"
    /\ workerRef' = c
    /\ workerLock' = Nobody
    /\ Acquired(c, c)
    /\ UNCHANGED <<op, release, target, sendLock, workerVars>>

\* The adapter is not created, the process does not start, or the caller's
\* context ends between two dials.  The reference is dropped with whatever has
\* been started.
BootFails(c) ==
    /\ pc[c] = "boot"
    /\ workerLock' = Nobody
    /\ UnlockSend(c)
    /\ pc' = [pc EXCEPT ![c] = "done"]
    /\ UNCHANGED <<op, using, release, target, workerRef, workerVars>>

-----------------------------------------------------------------------------
(* The adapter's Send returns, and the worker is released.                  *)

\* worker.Send returns, with a result or an error, and releaseWorker is called.
AdapterSend(c) ==
    /\ pc[c] = "send"
    /\ \/ /\ Persistent
          /\ release' = [release EXCEPT ![c] = "noop"]
          /\ UnlockSend(c)
          /\ pc' = [pc EXCEPT ![c] = "returned"]
       \/ /\ ~Persistent
          /\ pc' = [pc EXCEPT ![c] = "terminate"]
          /\ UNCHANGED <<release, sendLock>>
    /\ UNCHANGED <<op, using, target, workerLock, workerRef, workerVars>>

\* Mutant of ForgetWorker: the reference stays.
KeepRef == UNCHANGED workerRef

\* The deferred s.workerRef = nil.
ForgetWorker == workerRef' = Nobody

\* Mutant of CancelUnstoppable: a worker that cannot be stopped is let go.
LetGo == UNCHANGED ctx

\* What terminateWorker does with a worker whose Stop fails.
CancelUnstoppable == ctx' = [ctx EXCEPT ![workerRef] = "cancelled"]

\* terminateWorker, under workerLock, and the return of the method that
\* called it.  A Stop that fails cancels the worker context; Send then
\* returns a release function that fails, Suspend and Shutdown return none.
TerminateWorker(c) ==
    /\ pc[c] = "terminate"
    /\ workerLock = Nobody
    /\ \/ /\ workerRef = Nobody
          /\ release' = [release EXCEPT ![c] = "noop"]
          /\ UNCHANGED <<target, ctx, stopped>>
       \/ /\ workerRef # Nobody
          /\ stopped' = stopped \cup {workerRef}
          /\ target' = [target EXCEPT ![c] = workerRef]
          /\ release' = [release EXCEPT ![c] = "wait"]
          /\ UNCHANGED ctx
       \/ /\ workerRef # Nobody
          /\ CancelUnstoppable
          /\ release' = [release EXCEPT ![c] = "error"]
          /\ UNCHANGED <<target, stopped>>
    /\ ForgetWorker
    /\ UnlockSend(c)
    /\ pc' = [pc EXCEPT ![c] = "returned"]
    /\ UNCHANGED <<op, using, workerLock, proc, armed, parentDone, io>>

\* The caller runs the release function it got; the stop timer starts with it.
CallRelease(c) ==
    /\ pc[c] = "returned"
    /\ \/ /\ release[c] = "wait"
          /\ armed' = armed \cup {target[c]}
          /\ pc' = [pc EXCEPT ![c] = "waiting"]
       \/ /\ release[c] # "wait"
          /\ pc' = [pc EXCEPT ![c] = "done"]
          /\ UNCHANGED armed
    /\ UNCHANGED <<op, using, release, target, sendLock, workerLock, workerRef,
                   ctx, proc, stopped, parentDone, io>>

\* Mutant of WaitEnds: the call ends in a phase of its own.
WaitEndsUnknown(c) ==
    /\ pc[c] = "waiting"
    /\ pc' = [pc EXCEPT ![c] = "waited"]
    /\ UNCHANGED <<op, using, release, target, sendLock, workerLock, workerRef,
                   workerVars>>

\* wait(ctx) returns: the file adapter's at once, the rpc adapter's when the
\* process has exited or the caller's context has ended.
WaitEnds(c) ==
    /\ pc[c] = "waiting"
    /\ pc' = [pc EXCEPT ![c] = "done"]
    /\ UNCHANGED <<op, using, release, target, sendLock, workerLock, workerRef,
                   workerVars>>

-----------------------------------------------------------------------------
(* The worker's side.                                                       *)

\* Mutant of CancelWorker: the deferred cancel() is missing.
TimerWithoutCancel(w) ==
    /\ w \in armed
    /\ armed' = armed \ {w}
    /\ UNCHANGED <<callVars, sendLock, workerLock, workerRef,
                   ctx, proc, stopped, parentDone, io>>

\* wait has returned or the stop timeout is over: the goroutine started by
\* the release function cancels the worker context.
CancelWorker(w) ==
    /\ w \in armed
    /\ armed' = armed \ {w}
    /\ ctx' = [ctx EXCEPT ![w] = "cancelled"]
    /\ UNCHANGED <<callVars, sendLock, workerLock, workerRef,
                   proc, stopped, parentDone, io>>

\* The pool is closed or the program ends: every worker context derives from
\* the supervisor's.
EndParent ==
    /\ ~parentDone
    /\ parentDone' = TRUE
    /\ ctx' = [w \in Calls |-> IF ctx[w] = "open" THEN "cancelled" ELSE ctx[w]]
    /\ UNCHANGED <<callVars, sendLock, workerLock, workerRef, proc, stopped, armed, io>>

\* The process ends by itself: its work done, after SIGTERM, or in a crash.
Exit(w) ==
    /\ proc[w] = "running"
    /\ proc' = [proc EXCEPT ![w] = "exited"]
    /\ UNCHANGED <<callVars, sendLock, workerLock, workerRef,
                   ctx, stopped, armed, parentDone, io>>

\* exec.CommandContext kills the process of a context that has ended.
Kill(w) == ctx[w] = "cancelled" /\ Exit(w)

-----------------------------------------------------------------------------
Method(c) == Start(c) \/ Send(c) \/ Suspend(c) \/ Shutdown(c)

Boot(c) == BootWorker(c) \/ BootFails(c)

Next ==
    \/ \E c \in Calls :
        \/ Method(c) \/ LockSend(c) \/ AcquireWorker(c) \/ Spawn(c) \/ Boot(c)
        \/ AdapterSend(c) \/ TerminateWorker(c) \/ CallRelease(c) \/ WaitEnds(c)
        \/ CancelWorker(c) \/ Exit(c)
    \/ EndParent

Spec == Init /\ [][Next]_vars

(***************************************************************************)
(* Locks are granted, a process is started or refused, release functions   *)
(* are run (dispatchers run every one they get), a wait ends once the      *)
(* process has, timers fire, and a process whose context is cancelled      *)
(* dies.  A process need not react to SIGTERM, a caller's context need not *)
(* end, and a process that has been started need not ever answer the dial. *)
(***************************************************************************)
CodeFairness ==
    \A c \in Calls :
        /\ WF_vars(LockSend(c) \/ AcquireWorker(c) \/ TerminateWorker(c)
                   \/ Spawn(c) \/ (proc[c] = "none" /\ Boot(c))
                   \/ CallRelease(c)
                   \/ (WaitEnds(c) /\ (Persistent => proc[target[c]] = "exited")))
        /\ WF_vars(CancelWorker(c))
        /\ WF_vars(Kill(c))

\* The rpc adapter's Start returns as well: the worker answers the dial or
\* the context of the caller ends.  So does an adapter's Send: the rpc adapter's
\* by its timeout; the file adapter's only if no child of the worker keeps its
\* stdout (see FileAdapter).
AdapterFairness == \A c \in Calls : WF_vars(Boot(c)) /\ WF_vars(AdapterSend(c))

FairSpec == Spec /\ CodeFairness /\ AdapterFairness

-----------------------------------------------------------------------------
(* Properties.                                                              *)

Sends == {c \in Calls : op[c] = "send"}

\* No two messages are with one worker at the same time, and a transient
\* worker gets one message in its life ("what if the worker is in use, and
\* s.persistent is false?", supervisor.go:208): every Send but a persistent
\* one has a worker that no other Send ever had.
ExclusiveWorker ==
    \A c, d \in Sends :
        using[c] = using[d] /\ using[c] # Nobody /\ c # d =>
            Persistent /\ ~(pc[c] = "send" /\ pc[d] = "send")

\* The reference never leads to a worker that is still being booted, that has
\* been stopped, or whose context has been cancelled by anyone but the owner
\* of the supervisor.
RefIsUsable ==
    workerRef # Nobody =>
        /\ pc[workerRef] # "boot"
        /\ workerRef \notin stopped
        /\ ctx[workerRef] = "open" \/ parentDone

\* A worker is stopped by one call, whose release function is the only one
\* that waits for it: ProcessWorker.Wait fails when called twice.
StoppedByOne ==
    \A c, d \in Calls : target[c] = target[d] /\ target[c] # Nobody => c = d

\* Only Shutdown stops the worker of a persistent supervisor.
PersistentKept ==
    [][\A c \in Calls :
        Persistent /\ target[c] = Nobody /\ target'[c] # Nobody
            => op[c] = "shutdown"]_vars

\* A call that ends the reference to a worker keeps it or its context in
\* hand: workers are not dropped alive once they have been booted.
NoWorkerDropped ==
    [][\A w \in Calls :
        workerRef = w /\ workerRef' # w => w \in stopped' \/ ctx'[w] = "cancelled"]_vars

\* A worker that has been stopped does not run for ever, even if it ignores
\* SIGTERM and even if it was starting when it was stopped ("either way, the
\* wait function will return eventually", supervisor.go:282-283).
StoppedWorkerEnds ==
    \A w \in Calls : w \in stopped ~> [](proc[w] # "running")

\* Every call returns and its release function too, provided adapters return:
\* the two locks cannot block each other.
EveryCallReturns == \A c \in Calls : pc[c] # "new" ~> pc[c] = "done"
=============================================================================
