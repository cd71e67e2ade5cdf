---------------------------- MODULE RpcDispatcher ----------------------------
(***************************************************************************)
(* The dedicated dispatcher (dispatcher/dispatcher_dedicated.go) with its  *)
(* supervisor and the rpc adapter (supervisor/adapter_rpc.go): one         *)
(* persistent worker that all requests share.  WorkerSupervisor lets a     *)
(* boot last as long as it likes and a message end at any moment; here the *)
(* dial loop with its backoff, the connection, the worker's inbox, the     *)
(* timeout of a message and the contexts of the callers decide.  Every     *)
(* action is one of WorkerSupervisor with its details, or a detail alone.  *)
(*                                                                         *)
(* The program starts the dispatcher first and ends if that fails; then    *)
(* requests are sent, and at some point it is shut down, once.             *)
(***************************************************************************)
EXTENDS WorkerSupervisor, Integers

CONSTANTS
    Starter,      \* the call the start hook makes
    Transports,   \* the transports the configuration may ask for
    BaseDelay,    \* the first delay between two dials
    MaxDelay,     \* the cap of the delay
    Width         \* the bits of a time.Duration

ASSUME RpcAssumption ==
    /\ Starter \in Calls
    /\ Transports \subseteq {"stdio", "http", "ipc", "ws", "tcp", "unsupported"}
    /\ BaseDelay \in Nat \ {0} /\ MaxDelay \in Nat /\ Width \in Nat \ {0}
    \* What the provers do not know of powers.
    /\ \A i \in 0 .. Width : 2 ^ i \in Nat \ {0} /\ 2 ^ (i + 1) = 2 * 2 ^ i

VARIABLES
    transport,    \* config.Transport
    listening,    \* the workers whose process accepts connections
    peer,         \* peer[w]: whose process w's rpcClient is connected with
    dialling,     \* the calls inside dialRpcWithRetry
    waiting,      \* those of them that wait for the backoff delay
    retry,        \* retry[c]: i, the number of dials that have failed
    delay,        \* delay[c]: backoffDelay
    callerDone,   \* the calls whose context has ended
    inbox,        \* inbox[w]: the messages the process of w works on
    answer        \* answer[c]: what became of the message of call c

dialVars == <<peer, dialling, waiting, retry, delay>>
rpcVars == <<transport, listening, dialVars, callerDone, inbox, answer>>
allVars == <<vars, rpcVars>>

RpcTypeOK ==
    /\ TypeOK
    /\ transport \in Transports
    /\ listening \subseteq Calls /\ callerDone \subseteq Calls
    /\ waiting \subseteq dialling /\ dialling \subseteq Calls
    /\ peer \in [Calls -> Calls \cup {Nobody}]
    /\ retry \in [Calls -> 0 .. Width]
    /\ delay \in [Calls -> Int]
    /\ inbox \in [Calls -> SUBSET Calls]
    /\ answer \in [Calls -> {"none", "posted", "replied", "error"}]

RpcInit ==
    /\ Init
    /\ transport \in Transports
    /\ listening = {} /\ callerDone = {} /\ dialling = {} /\ waiting = {}
    /\ peer = [w \in Calls |-> Nobody]
    /\ retry = [c \in Calls |-> 0]
    /\ delay = [c \in Calls |-> 0]
    /\ inbox = [w \in Calls |-> {}]
    /\ answer = [c \in Calls |-> "none"]

-----------------------------------------------------------------------------
(* DedicatedDispatcher.Start, Send and Shutdown begin.                      *)

Started == pc[Starter] = "done" /\ answer[Starter] # "error"

DispatcherStart == Start(Starter) /\ UNCHANGED rpcVars

DispatcherSend(c) ==
    c # Starter /\ Started /\ Send(c) /\ UNCHANGED rpcVars

DispatcherShutdown(c) ==
    /\ c # Starter /\ Started /\ \A d \in Calls : op[d] # "shutdown"
    /\ Shutdown(c)
    /\ UNCHANGED rpcVars

\* The steps of the supervisor that the adapter has no part in.  The release
\* function of a persistent worker does nothing, so it makes no difference
\* that the dispatcher runs it only after a Send without an error.
CallStep(c) ==
    /\ LockSend(c) \/ AcquireWorker(c) \/ TerminateWorker(c) \/ CallRelease(c)
    /\ UNCHANGED rpcVars

Supervise(c) == CallStep(c) \/ (CancelWorker(c) /\ UNCHANGED rpcVars)

\* The context of a caller ends: the start timeout, a client that leaves, the
\* deadline of a Lambda invocation.  Only the dial loop and Wait look at it;
\* for a message TimesOut covers it.
CallerEnds(c) ==
    /\ pc[c] \in {"boot", "waiting"} /\ c \notin callerDone
    /\ callerDone' = callerDone \cup {c}
    /\ UNCHANGED <<vars, transport, listening, dialVars, inbox, answer>>

\* worker.Wait(ctx), the function stopWorker returns.
WaitReturns(c) ==
    /\ WaitEnds(c)
    /\ proc[target[c]] = "exited" \/ c \in callerDone
    /\ UNCHANGED rpcVars

-----------------------------------------------------------------------------
(* rpcAdapter.Start: the process is started, then dialled.                  *)

StartWorker(c) ==
    /\ Spawn(c)
    /\ dialling' = dialling \cup {c}
    /\ UNCHANGED <<transport, listening, peer, waiting, retry, delay, callerDone,
                   inbox, answer>>

\* Mutant of LeaveLoop: the timer of the backoff is forgotten.
LeaveLoopWaiting(c) ==
    /\ dialling' = dialling \ {c}
    /\ retry' = [retry EXCEPT ![c] = 0]
    /\ delay' = [delay EXCEPT ![c] = 0]
    /\ UNCHANGED waiting

\* i and backoffDelay are local to dialRpcWithRetry.
LeaveLoop(c) ==
    /\ dialling' = dialling \ {c}
    /\ waiting' = waiting \ {c}
    /\ retry' = [retry EXCEPT ![c] = 0]
    /\ delay' = [delay EXCEPT ![c] = 0]

\* The boot fails, and with it the call.
GiveUp(c) ==
    /\ BootFails(c)
    /\ answer' = [answer EXCEPT ![c] = "error"]
    /\ LeaveLoop(c)
    /\ UNCHANGED <<transport, listening, peer, callerDone, inbox>>

\* os/exec does not start the process.
StartFails(c) == c \notin dialling /\ GiveUp(c)

\* A pipe is connected without the other side, an http client connects with
\* each request; the others need someone who listens at the endpoint.  At an
\* endpoint it may be another worker of this supervisor that has not ended yet.
Reachable(c) ==
    CASE transport = "stdio" -> {c}
      [] transport = "http" -> {c} \cup listening
      [] transport = "unsupported" -> {}
      [] OTHER -> IF c \in callerDone THEN {} ELSE listening

Dials(c) == c \in dialling \ waiting

\* rpcClient is set, Start returns and the supervisor keeps the worker.
DialSucceeds(c) ==
    /\ Dials(c)
    /\ BootWorker(c)
    /\ \E w \in Reachable(c) : peer' = [peer EXCEPT ![c] = w]
    /\ LeaveLoop(c)
    /\ UNCHANGED <<transport, listening, callerDone, inbox, answer>>

\* int64 arithmetic.
Wrap(n) == ((n + 2 ^ (Width - 1)) % 2 ^ Width) - 2 ^ (Width - 1)

\* Mutant of Backoff: the delay is not capped.
UncappedBackoff(i) == Wrap(BaseDelay * 2 ^ i)

Backoff(i) ==
    LET product == Wrap(BaseDelay * 2 ^ i)
    IN  IF product > MaxDelay THEN MaxDelay ELSE product

\* The delay is 0 from retry Width on, so the counter need not go further.
DialFails(c) ==
    /\ Dials(c)
    /\ transport # "stdio"
    /\ delay' = [delay EXCEPT ![c] = Backoff(retry[c])]
    /\ retry' = [retry EXCEPT ![c] = IF @ < Width THEN @ + 1 ELSE @]
    /\ waiting' = waiting \cup {c}
    /\ UNCHANGED <<vars, transport, listening, peer, dialling, callerDone, inbox, answer>>

BackoffEnds(c) ==
    /\ c \in waiting
    /\ waiting' = waiting \ {c}
    /\ UNCHANGED <<vars, transport, listening, peer, dialling, retry, delay, callerDone,
                   inbox, answer>>

DialCancelled(c) == c \in waiting /\ c \in callerDone /\ GiveUp(c)

-----------------------------------------------------------------------------
(* rpcAdapter.Send: CallContext under a timeout of its own.                 *)

Peer(c) == peer[using[c]]

\* The message reaches the process, if there is one.
Post(c) ==
    /\ pc[c] = "send" /\ answer[c] = "none"
    /\ answer' = [answer EXCEPT ![c] = "posted"]
    /\ inbox' = IF proc[Peer(c)] = "running"
                THEN [inbox EXCEPT ![Peer(c)] = @ \cup {c}] ELSE inbox
    /\ UNCHANGED <<vars, transport, listening, dialVars, callerDone>>

\* The worker answers, with a result or an error, and the client matches the
\* answer with its call.  One that comes too late is dropped.
Reply(c) ==
    \E w \in Calls :
        /\ c \in inbox[w]
        /\ inbox' = [inbox EXCEPT ![w] = @ \ {c}]
        /\ IF answer[c] = "posted"
           THEN /\ AdapterSend(c)
                /\ answer' = [answer EXCEPT ![c] = "replied"]
           ELSE UNCHANGED <<vars, answer>>
        /\ UNCHANGED <<transport, listening, dialVars, callerDone>>

CallError(c) ==
    /\ AdapterSend(c)
    /\ answer' = [answer EXCEPT ![c] = "error"]
    /\ UNCHANGED <<transport, listening, dialVars, callerDone, inbox>>

\* The connection is lost or refused.
CallFails(c) == pc[c] = "send" /\ proc[Peer(c)] # "running" /\ CallError(c)

\* Mutant of TimesOut: the message is sent under the context of the caller.
NoTimeout(c) == c \in callerDone /\ CallError(c)

\* The timeout of the message is over, or the context of the caller has ended.
TimesOut(c) == CallError(c)

-----------------------------------------------------------------------------
(* The worker's side.                                                       *)

Listen(w) ==
    /\ proc[w] = "running" /\ w \notin listening
    /\ listening' = listening \cup {w}
    /\ UNCHANGED <<vars, transport, dialVars, callerDone, inbox, answer>>

\* What the process was working on goes with it.
WorkerExits(w) ==
    /\ Exit(w)
    /\ inbox' = [inbox EXCEPT ![w] = {}]
    /\ listening' = listening \ {w}
    /\ UNCHANGED <<transport, dialVars, callerDone, answer>>

ContextEnds == EndParent /\ UNCHANGED rpcVars

RpcNext ==
    \/ \E c \in Calls :
        \/ DispatcherSend(c) \/ DispatcherShutdown(c) \/ Supervise(c) \/ CallerEnds(c) \/ WaitReturns(c)
        \/ StartWorker(c) \/ StartFails(c) \/ DialSucceeds(c) \/ DialFails(c)
        \/ BackoffEnds(c) \/ DialCancelled(c)
        \/ Post(c) \/ Reply(c) \/ CallFails(c) \/ TimesOut(c)
        \/ Listen(c) \/ WorkerExits(c)
    \/ DispatcherStart \/ ContextEnds

RpcSpec == RpcInit /\ [][RpcNext]_allVars

(***************************************************************************)
(* Locks are granted, timers fire and dials return.  The context of a call *)
(* that boots a worker ends: the start hook has a timeout, and after       *)
(* Shutdown only Lambda invocations still come, which have a deadline.     *)
(* Workers need not listen, answer, react to SIGTERM or end.               *)
(***************************************************************************)
RpcFairness ==
    \A c \in Calls :
        /\ WF_allVars(CallStep(c) \/ StartWorker(c) \/ StartFails(c) \/ DialSucceeds(c)
                      \/ DialFails(c) \/ BackoffEnds(c) \/ TimesOut(c) \/ WaitReturns(c))
        /\ SF_allVars(DialCancelled(c))
        /\ WF_allVars(pc[c] = "boot" /\ CallerEnds(c))
        /\ WF_allVars(CancelWorker(c) /\ UNCHANGED rpcVars)
        /\ WF_allVars(ctx[c] = "cancelled" /\ WorkerExits(c))

RpcFairSpec == RpcSpec /\ RpcFairness

-----------------------------------------------------------------------------
(* Properties.                                                              *)

\* The dispatcher, the adapter and their timeouts do what WorkerSupervisor
\* asks of an adapter, liveness included: every boot ends although no dial
\* need ever succeed, every Send ends although no worker need ever answer.
ImplementsSupervisor == FairSpec

\* Of the messages a process works on, only one has a Send waiting for it;
\* the others were given up by a timeout or a caller that left, and the
\* worker still works on them beside it: sendLock "serialize[s] access"
\* (supervisor.go:154-156) for the callers only.
OneAwaited ==
    \A w \in Calls : \A c, d \in inbox[w] : c # d => "error" \in {answer[c], answer[d]}

\* Until the product of the backoff overflows, delays never shrink and never
\* exceed the cap ("backoff delay with a cap at maxDelay", adapter_rpc.go:199);
\* from the overflow on (retry 37 of the code), they may be negative and the
\* dials follow each other at once.
BackoffPaced ==
    [][\A c \in Calls :
        /\ delay'[c] <= MaxDelay
        /\ c \in dialling' /\ BaseDelay * 2 ^ retry[c] < 2 ^ (Width - 1) => delay'[c] >= delay[c]]_allVars
=============================================================================
