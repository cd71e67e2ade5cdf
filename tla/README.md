# shimmy in TLA+

shimmy is a shim between a platform (HTTP or AWS Lambda) and an *evaluation function*: a
program that is started as a worker process, or instantiated as a WebAssembly module, and gets
one message per request.  The logic that is easy to get wrong and hard to test lies in
`internal/execution` (pools and leases, supervisors that boot and terminate workers under two
locks, a process with three goroutines around it, dials, frames, files and timeouts), in the
handler that turns one request into a series of messages, and in the order in which the program
starts and stops.  These modules model those parts, TLC checks them on small instances, and
TLAPS proves the safety of eight of the components for every instance.

    tlc -config MCPooledDispatcher.cfg MCPooledDispatcher.tla      # likewise the other runs
    tlapm PooledDispatcherProofs.tla                               # likewise the other proofs

Paths below are relative to `src/`; `execution/` stands for `internal/execution/`.


## 1. Inventory

| component | state it keeps | operations | what is hard about it | correct when |
|---|---|---|---|---|
| **Pooled dispatcher** `execution/dispatcher/dispatcher_pooled.go` | a puddle pool of supervisors | `Send`, `Shutdown`; constructor, destructor, `dispose()` | each request leaves a goroutine behind that decides between release and destruction; contexts end during construction; shutdown under load | leases are exclusive and bounded, spoiled supervisors go, no slot is lost, shutdown is complete |
| **Dedicated dispatcher** `dispatcher_dedicated.go` | one supervisor | `Start`, `Send`, `Shutdown` | every request shares it; a dial without a bound under both locks; the release function is called in line, after a Send without an error | messages do not overlap |
| **Worker supervisor** `execution/supervisor/supervisor.go` | `workerRef`, `sendLock`, `workerLock`, worker contexts | `Start`, `Send`, `Suspend`, `Shutdown`, release functions | `Suspend` and `Shutdown` do not take `sendLock`; boot and Stop fail half-way; release races the stop timer | one message per worker at a time, one Stop per worker, none dropped alive |
| **RPC adapter** `adapter_rpc.go` | the process, an RPC client | `Start` (dial loop with backoff), `Send`, `Stop` | the dial has no bound; 64-bit backoff | it does what the supervisor relies on: boots, Sends and Stops come to an end; delays are capped |
| **Header pipe** `adapter_rpc_pipe.go` | an overflow buffer | `Read`, `Write`, `Close` | frames split over reads, stray output, a worker that dies in the middle, two writers | the reader gets the bodies of the frames, whole and in order, and so does the worker |
| **File adapter** `adapter_file.go` | stored parameters | `Start`, `Send`, `Stop` | a process per message; a dozen steps that may fail; waits without bound for stdout, which a child may hold, then for exit; timeouts; files | answers only whole responses, removes its files, leaves no process for ever |
| **Process worker** `execution/worker/worker.go`, `worker_unix.go` | `exec.Cmd`, channels `wait` and `exit`, stderr buffer | `Start`, `Wait`, `WaitFor`, `Stop`, `Kill`, pipes | order of reading stderr and waiting; unbuffered `exit`; children that share stderr; the worker context | a true and complete exit event, and `Wait` ends |
| **WASM backend** `execution/wasm/` | a channel of supervisors, module instances, memory snapshots | `Start`, `Send`, `Shutdown` | is started twice; shutdown overtakes requests; only part of the guest's state is restored | instances are neither lost nor shared, requests do not see each other |
| **Dispatcher selection** `execution/dispatcher.go` | none | `NewDispatcher` | starts the WASM dispatcher, which the runtime starts again | |
| **Evaluation runtime** `runtime/runtime.go` | the dispatcher | `Start`, `Handle`, `Shutdown` | hook order | |
| **Runtime handler** `runtime/handler*.go`, `runtime/schema` | schemas | `Handle` | error to status mapping, case matching | the first matching case answers; errors get their status |
| **MuEd and command handlers, routes** `runtime/mued.go`, `handler/` | none | HTTP handlers | checks in a fixed order; conversion to and from the legacy request | faults of the client never reach a worker |
| **HTTP server, Lambda handler** `internal/server`, `app/lambda` | `http.Server`, a context | `Serve`/`Start`, `Shutdown` | requests that arrive while it stops; HTTP/2 connections; `log.Fatal` | it has answered its requests before the runtime stops |
| **Shell and apps** `internal/shell`, `app/` | the fx application | `Run` | order and timeouts of hooks, exit code | the runtime outlives the server |
| **Configuration** `cmd/`, `config/`, `util/conf` | koanf store | `Parse` | flags are loaded last, with their defaults; durations are read another way | the command line counts more than the flag's variable, that more than its default (durations: from the variable on) |
| Windows worker, mocks, logging, `util/` | - | - | - | not modelled: another build, generated code, no protocol |

How they interact.  A request reaches `EvaluationRuntime.Handle`, which calls `Send` of the
dispatcher that `NewDispatcher` chose: pooled for `file`, dedicated for `rpc`, the WASM
dispatcher for `wasm`.  A pooled `Send` leases a supervisor, calls *its* `Send`, answers, and
leaves `dispose()` running, which calls the release function that the supervisor's `Send`
returned.  The supervisor boots a worker through an adapter under `workerLock`; the adapter
starts a `ProcessWorker`, whose context is a child of the dispatcher's; the release function
starts a goroutine that cancels that context after the stop timeout.  Calls, locks, contexts and
channels are all the interaction there is: nothing is persisted, so a crash of the shim itself
leaves no state to recover.  The hazards this brings are listed one by one, with their lines and
the properties aimed at them, in `PROJECT.json`.


## 2. Modules

| module | models | of the code's |
|---|---|---|
| `WorkerLeases` | the promise: leases, at most `MaxWorkers`, exclusive, never of a spoiled supervisor, none after closing | (abstract) |
| `PooledDispatcher` | the pooled dispatcher over puddle; implements `WorkerLeases` | `dispatcher_pooled.go` |
| `WorkerSupervisor` | a supervisor with its workers, both locks, release functions | `supervisor.go`, and the adapters as the supervisor sees them |
| `RpcDispatcher` | the dedicated dispatcher, its supervisor, the rpc adapter and its workers; implements `WorkerSupervisor`, which it extends | `dispatcher_dedicated.go`, `adapter_rpc.go` |
| `HeaderPipe` | the framing around a worker's stdin and stdout | `adapter_rpc_pipe.go` |
| `FileAdapter` | messages with leases, the file adapter, processes, their children and files, Shutdown of the pool | `adapter_file.go`, release function of `supervisor.go`, `Shutdown` of `dispatcher_pooled.go` |
| `ProcessWorker` | a process, its child, the two goroutines, callers of `Wait` | `worker.go`, `worker_unix.go` |
| `WasmDispatcher` | both Starts, the channel of instances, the call into the guest, the snapshot, Shutdown | `wasm/*.go`, `execution/dispatcher.go`, `runtime.go` |
| `RuntimeHandler` | one request from route to answer | `runtime/handler*.go`, `runtime/mued.go`, `handler/*.go` |
| `ConfigParse` | how a field of the configuration gets its value | `util/conf/parse.go`, `util/cliflags`, `cmd/*.go` |
| `Lifecycle` | the program from its arguments to its exit code; composes `ConfigParse` with the shell, the server or Lambda handler and the runtime | `cmd/root.go`, `internal/shell`, `internal/server`, `app/lambda` |
| `MC...` | the same for TLC, and what the documentation says and the code does not do | |
| `...Proofs` | theorems about the module named | |

In the component modules an operator whose comment begins with "Mutant of X" is a faulty variant
of X.  Nothing uses it; it stands there so that a property can be shown to notice the fault
(section 4).

### PooledDispatcher

`pc[q]` follows `Send` from `Acquire` to the answer, `disposal[q]` the goroutine it leaves behind,
`outcome[q]` the variables `err` and `releaseErr` that `destroyOrRelease` looks at.  puddle is
external: `permits` is its semaphore, `status[s]` the status of a resource; each of its critical
sections is one action.  `Construct` and `Destruct` are the functions given to `puddle.NewPool`.
As a request constructs at most one supervisor, supervisors bear the names of requests.
`Lookup` leases *any* idle supervisor where puddle takes the one used last, and `TakePermit`
serves waiting requests in any order where the semaphore is FIFO: the model allows more.

A supervisor's `Send` need not return here, because with the file interface, the only one that is pooled, it may
not (see `FileAdapter`): the properties say what a request and a Shutdown may wait for.

`Destroy` keeps the permit until the destructor is done, `Release` of a closed pool destructs in
the background: that is how puddle does it, and why a supervisor in destruction still counts
for `PoolBounded`.

### WorkerSupervisor

Each member of `Calls` is one call of `Start`, `Send`, `Suspend` or `Shutdown`, at whatever moment,
followed by the call of the release function it returns.  `Interfaces` are those the configuration may ask
for; `io` is the one it does, and `Persistent` follows from it as in `New`.  A section under
`workerLock` that cannot block is one action; `bootWorker` can, so it holds `workerLock` over
several.  `Exit` may strike a process at any time (a crash, the end of its work, SIGTERM);
`Kill` is what `exec.CommandContext` does once the worker context is cancelled.  The adapters are
here only what the supervisor can tell: the file adapter starts its process in `Send`, the rpc
adapter in `Start`, from which it need not return.

The stop timer and the wait function race to cancel the worker context (`CancelWorker`): the
model lets the timer fire at any time, which covers every timeout.

### RpcDispatcher

`WorkerSupervisor` lets a boot last and a message end as they like.  `RpcDispatcher` has its
variables and, for each of its actions, the reason why it happens: the dial loop
(`dialling`, `waiting`, `retry`, `delay`), the connection a dial has found (`peer`), the messages
a process works on (`inbox`), what became of a message (`answer`), the contexts of callers
(`callerDone`).  A dial to a socket reaches *any* worker of the supervisor that still listens at the
endpoint, not only the one just started, and so may the http client; the answer of a message that was given up arrives late
and is dropped.  `Backoff` is in two's complement of `Width` bits.  The dispatcher starts first,
and is shut down once, as the hooks do; Sends may overlap and follow the Shutdown.

### HeaderPipe

`stdout` is a sequence of units: whole lines (a header, a blank one, a stray one, a header with a
number that does not parse), single bytes of bodies, and text without a newline, which makes the
line after it a stray one (`TakeLine`).  `Read`, `ScanLine`, `DrainLine`, `ReadBody` are the loop of
`Read`, `buf` is its overflow buffer, `got` everything it has returned.  A worker that
dies loses any suffix of what nobody has read, in the middle of a frame too.  `owed` is a
history variable: the bodies of the frames that no broken output precedes.  Writers hold `wmu` over two writes,
either of which may fail.  A header whose number is too small is a frame followed by text here; one whose number is
too large, so that the body takes in the next header, is not modelled.

### FileAdapter

`stage[q]` follows the file adapter's `Send` step by step; each may fail, and then `Return` does what the deferred
calls do: it removes what is in `deferred[q]`, the files whose removal has been deferred *so far*.  A lease is a count
here: what a lease is, is the business of `PooledDispatcher`.  The process writes its response in two steps, may
close its stdout early and exit with success or failure at any time; a `child` of it may hold its stdout beyond
its end, and nobody kills that one.  `sendDone` is the send timeout (or a caller who is gone), `workerDone` the worker
context, which the release function cancels some time after the lease is over, and the pool's Close at once.

### ProcessWorker

`waiter` and `reader` are the goroutines of `Start`, by what they wait for; `call[c]` is a call
of `Wait`.  `Die`, `Fork`, `ChildExits` are the process and a child that inherited stderr.
`Cancel` is `cmd.Cancel` as `Start` sets it: it closes stderr *and* kills.  `ExitEvent`
has the odd case of `cmd.Wait`, which reports an ended context in place of a success when
`cmd.Cancel` has run.  `OverlappingWaits` says whether two callers may be inside the first
`select` of `Wait` together.  The supervisor's calls do not overlap (`StoppedByOne`), so the run has
FALSE; with TRUE the second `close(w.wait)` panics.

### WasmDispatcher

`NewDispatcher` and `OnStart` are the two Starts; each makes a *generation* of instances.  `pool`
is the channel, `using[q]` the supervisor out with `q`, `drained` those that have been shut down.
`residue[i]` is what requests have changed in instance `i`, in two parts: the memory the
snapshot holds and the rest.  Guest code may change either in every call, trap, or exit.  The
mutex of a supervisor is left out, as `InstancesConserved` says that nobody contends for it;
and so is the early return for a supervisor that is not started, which would take one from
outside the pool.

### RuntimeHandler

Requests share nothing in the handlers, so there is one, any one: its route, command, what is
wrong with it (`problems`) and its cases.  `Checks` lists for each route what is checked before a
worker is asked, in the order of the code and with the status of each; the first that applies
answers (`Refuse`).  `Fault` tells which of these problems are the client's: not the missing body of a healthcheck,
which the documentation allows and the code refuses.  `FailureStatus` has the 400 of `errValidationFailed`, but no
action needs it: the data that is validated was decoded from JSON, and such data can always be validated.  `Forward` to `Evaluated` are `SendCommand`, `SendCase` to `UseMatch` the loop
over the cases; a case is an object or not, with an answer or a feedback or not, and a feedback is
text or not, because the code panics on some of these (`CaseCrashes`, `MatchCrashes`).  A feedback is the
list of the texts it is put together from.

### ConfigParse and Lifecycle

Flags do not share fields (`FieldsDistinct`, an assumption TLC evaluates), so one flag is looked at, any of them.
koanf loads the environment and then the flags over it with their defaults; a flag of `DurationFlags` is read through
a `Value` that knows its variable and its default but not the command line.  A nested variable (`runtime__cmd`) is
overwritten by its flag, given or not.

`Lifecycle` runs the main goroutine (`pc`) through parsing, the start hooks, the wait for a
signal, the stop hooks in reverse order and the exit, beside a front that listens, accepts and fails on
its own.  `io` is the interface, which decides on the dispatcher: a dedicated one boots its worker with the start
hook and waits for it in the stop hook; a pooled one boots workers for requests, and its Shutdown does *not* wait for a
process that has let go of its stdout; the WASM one has no processes, and runs the guest's start function in a
constructor, before any timeout (`Constructing`).  `worker` is the one bit of the dispatcher that matters besides.  A front that is `binding` when Shutdown
comes is `unbound`: it will not serve, but may still fail to listen.  fx and `net/http` are external.  What `http.Server.Shutdown` waits for depends on the connection: requests of plain HTTP
yes, connections taken over for HTTP/2 no; the Lambda handler waits for nothing.


## 3. What is checked

Three requests or calls let one actor be interrupted by a second while a third waits for what
they hold; pools of two (one for the file adapter) have both a free and a contended slot.  Every
action and every disjunct is reached in these instances.  Deadlock is not checked: requests are
finite and the program may stop with all of them served.

| run | bounds | what it shows |
|---|---|---|
| `pool` | 3 requests, `MaxWorkers` 2 | `ExclusiveUse` (the goroutine after the answer included), `NoLostPermit`; under fairness `WaitsOnlyForSends` (a request waits for ever only if every slot is taken by a supervisor whose `Send` does not return) and `ShutdownCompletes` (or such a `Send` goes on); `ImplementsLeases`: every step is one of `WorkerLeases` or a stutter |
| `supervisor` | 3 calls, both interfaces | `ExclusiveWorker` (the question of the TODO at `supervisor.go:208`: `sendLock` is what answers it), `StoppedByOne`, `NoWorkerDropped`; `StoppedWorkerEnds`, `EveryCallReturns` |
| `rpc` | the start and 2 calls; stdio, http, a socket, and a transport the code refuses; 6-bit delays, which overflow in the fifth retry | `OneAwaited`, `BackoffPaced`; `ImplementsSupervisor`: `WorkerSupervisor`'s specification with its fairness, so what `supervisor` shows holds of the real adapter, although no worker need listen or answer |
| `pipe` | 2 frames, 4 units ahead of the reader, lengths -1, 0 and 3, a buffer of 2, two writers | `BodiesWhole`, `SoundFramesArrive`, `WritesWhole` |
| `worker` | 3 calls of `Wait`, one child | `EventTruthful`, `StderrWhole`; `WaitEnds`, unless a child holds stderr |
| `file` | 2 requests, 1 lease, a child for each process | `ResponseComplete`, `FilesKept`; `LeftoversKilled`: no process runs for ever behind its Send or under a Shutdown, and Shutdown waits for ever only for a stdout that a child holds |
| `wasm` | 3 requests, 2 instances, 2 generations | `InstancesConserved`, `MemoryRestored`, `ServingInstancesClosed` |
| `handler` | every set of problems on every route; up to 3 cases of 12 shapes | `ClientErrorsUnsent`, `CasesAsSpecified` |
| `app` | 2 requests, all flags and sources, all three modes and interfaces | `RequestsServed`; `CleanExit`: requests answered, runtime stopped and, but for the file interface, no worker left; `FlagsDecide`, but for the command line of the two durations; `StartsOrExits`, once the constructors are through |

Why these bounds are enough to be interesting: a frame of 3 bytes in a buffer of 2 leaves an
overflow that the next call must hand out before the second frame; three cases allow a failure,
a miss and a match in any order with one left untried; in `rpc` a worker that was given up during its
boot still listens when the next one is dialled, and a message that timed out is still worked on
when the next is posted; `Width` 6 has a delay below the cap, one at the cap, and an overflown one.

The other three runs each refute a sentence of the repository:

| run | the repository says | the code |
|---|---|---|
| `supervisor_shutdown_leaves_worker` | "Both persistent and transient workers will be terminated." (`supervisor.go:31-32`) | a boot that fails after the process was started drops reference and cancel function (`supervisor.go:294`); Shutdown finds nothing |
| `handler_error_dropped` | "On failure it returns an `error` field instead." (`README.md:116`) | a valid response with an `error` and no `result` is answered with status 200 and an empty body (`handler.go:146`) |
| `app_exit_code` | "if app exited with ExitError, exit with given exit code" (`cmd/root.go:205`) | `run` exits with 1 for every error, after a clean shutdown too (`cmd/root.go:208`) |

Further disagreements, met while reading and modelling, are among the findings of `PROJECT.json` without a run of
their own: the dial loop blocks `Start`, which is to be non-blocking (`adapter_rpc.go:193`);
a child that holds stderr keeps `Wait` waiting (`worker.go:169`); a process that has closed its
stdout outlives its lease, so that more than `max_workers` run (`adapter_file.go:190`); the send timeout
does not end the wait for stdout (`adapter_file.go:187`); the WASM snapshot restores part of the guest's state
(`wasm/supervisor.go:169`); the first of two WASM Starts is never shut down (`execution/dispatcher.go:46`);
`override_eval_feedback` appends the feedback of the case's evaluation, not the original one
(`handler.go:252` against `README.md:165`); a healthcheck without a body is answered with 500
(`handler.go:200` against `README.md:100`); both worker timeouts are ignored on the command line
(`util/cliflags/provider.go:95` against `README.md:78-79`); nested variables never have an effect (`util/conf/parse.go:69`
against `parse.go:82`); and Shutdown of the pooled dispatcher does not wait for processes of the file interface
(`adapter_file.go:214` against `dispatcher_pooled.go:144`).  Where one of these limits what a property can say,
the property says so: `Fault` in `ClientErrorsUnsent`, `DurationFlags` in `FlagsDecide`, `io # "file"` in `CleanExit`,
the child in `LeftoversKilled`.  The passing runs hold the matching positive
statements: `WaitEnds`, `LeftoversKilled`, `MemoryRestored`, `ServingInstancesClosed`,
`ImplementsSupervisor`.

### Fairness

Of single actions of single actors, weak but for one:

- goroutines of the shim that can run do run; a free lock, permit or channel place is taken
  eventually (each actor passes once, so weak fairness is enough where Go's queues are FIFO);
- timers fire (stop timeout, send timeout, backoff, start and stop timeout of the application);
  `exec.CommandContext` kills;
- release functions are called, as both dispatchers do with each one they get;
- *not* assumed: that a client calls, anyone calls Shutdown, a signal comes, a process exits,
  listens, answers or reacts to SIGTERM, a dial succeeds, a child closes stderr or stdout, the file adapter's `Send`
  returns (but in `supervisor`, see below), a request finishes, a guest's start function returns.

The strong one is `DialCancelled` in `RpcDispatcher`: the dial loop passes its `select` again and
again, and with the caller's context ended one of the rounds takes the cancelled branch.  That this
context ends at all is assumed there for a call that boots a worker: the start hook has a timeout,
and what boots a worker later are Lambda invocations, which have a deadline.  `AdapterFairness` of
`WorkerSupervisor` (an adapter's Start and Send return) is a named assumption in `supervisor`, so `EveryCallReturns` is about
the locks and the supervisor's own code.  For the rpc adapter it is a consequence, shown by `rpc`.  For the file adapter
it may fail, as a child may hold stdout; so `PooledDispatcher` does not assume that a `Send` returns, only that
constructors, destructors and release functions do, which here wait for nothing.  `FairSpec` of
`Lifecycle` leaves out the constructors of the WASM dispatcher, in which a guest's start function may run for ever.
`wasm` and `handler` check safety only and state no fairness.


## 4. Mutants

For each property of a passing run `PROJECT.json` names a mutant: a definition of the module and a faulty variant
of it, a bug one could make in that code (a deferred unlock forgotten, a restore only after success, a
supervisor given back with the answer, a body cut at the buffer's end, a loop that goes on behind a match, a stop hook
that does not wait).  With the variant in place of the definition the run finds the property violated.


## 5. What is proved

The theorems hold for all values of the constants; the assumptions are those declared with the
constants (finite sets of requests, at least one worker, a free lock that is nobody's) and nothing else, apart from
`~OverlappingWaits` in `SingleWait`.  `RpcAssumption` says of the powers of 2 up to `Width` that each is positive and
twice the one before, because the provers know no fact about powers; TLC evaluates it.

**PooledDispatcherProofs.** `ExclusiveUse` is not inductive: that the supervisor in use is
acquired says nothing of who else may take it.  `LeaseInv` relates, for each request, `pc`,
`lease`, `outcome`, `disposal` and the status of the leased supervisor; with it `Exclusion` is immediate.
`SpoilInv` adds that a request gone wrong still uses its supervisor or has destroyed it: `NoReuse`.
`ShutdownComplete` needs that no constructor is started once the pool is closed.
`PermitsKept` goes over all actions that move a permit.  `PoolBound` counts: `CoverInv` maps
every pooled supervisor that is not idle to a permit of its own, a constructor is started only
when no supervisor is idle, and `BackedBound`, a lemma on finite sets, turns the map into an
inequality.  `LeasesImplemented` is the refinement `ImplementsLeases`: a permit whose holder has a lease backs a
supervisor out of the pool (`PermitBacks`) and does so alone (`AloneInv`), and who uses a supervisor still has its permit
(`UserHasPermit`); so the permits bound the leases, a supervisor that is idle or just built is leased to nobody,
and the end of a permit is the end of one lease.  All other steps are stutters (`Stutter`).

**SupervisorProofs**, about `WorkerSupervisor` and `RpcDispatcher`.  `LockInv`: a lock is held exactly by the call in the section it
guards.  `RefInv`, on top: what `workerRef`, `stopped`, `target` and the contexts have to do with the
calls; the reference is cleared in the same section that stops the worker, hence `SingleStop`,
`UsableRef` and `NoneDropped`.  `TransientInv`: without persistence the reference exists only
while its sender holds `sendLock`, hence `Exclusion`.  `OnlyShutdownStops` and `NoneDropped` are action
properties, proved step by step from the same invariants.

`Implements` goes over the actions: each is one of `WorkerSupervisor` or leaves
its variables alone, so all theorems above hold here (`SafeWorkers`).  `AnswerInv` says that a message is with
one process at most, and only after it was posted; who waits for an answer is inside the adapter's `Send` and so,
by `LockInv`, has `sendLock`: hence `Awaited`.  `BackoffInv` says that a delay is the one of the dial before, so
`Paced` compares two neighbours; `BackoffValue` shows that a product below the largest duration is not changed by
the wrapping, and that it overflows before retry `Width`, where the model's counter stops.

**HeaderPipeProofs.** While the pipe works, `wmu` is held by the message whose header is the
last thing on stdin (`LockInv`); hence `Whole`.  For the reader, two invariants, the second on top of the first.
`ReadInv`: on stdout a header is followed by its blank line and its body, as far as they have not been cut
(`FrameAt`, `BodyAt`), and headers are in order; the reader in the middle of a frame is at the right place in it
(`Current`); all that was handed out or is kept for the next call (`stream`) is older than what is on stdout.
A body therefore continues the stream where it ended: `WholeBodies`.  `OrderInv` compares this stream with `owed`.
`OwedInv`: they agree as far as both go, and the frame of a header is in `owed` in one piece or comes behind some
broken output.  `PendingInv`: of what is owed and has not been read, the header is on stdout or being read,
or it was lost with all that followed it.  `CleanInv` is what keeps a header from being hidden: before an owed
frame there is no text outside of bodies, so `TakeLine` cannot swallow it.  `NextOwed` concludes that
the frame being read is the next that is owed, hence `InOrder`.

**RuntimeHandlerProofs.** `LoopInv` says how far the loop over the cases has come.  Nothing is sent before the checks, and
something has been when a case is tried: that gives `Unsent`.  Its other parts are about the cases: what was sent has smaller indices than the case to try, no verdict lies ahead, until a case
matches the evaluation is as the worker gave it, and the warnings are the cases that failed; with it `CasesInOrder`
follows from the state at the end.

**FileAdapterProofs.** `StageInv` says what a message at a given stage has: its files, a process, that process's
exit status, and that every file made so far, the directory apart, is one whose removal has been deferred; `ResponseComplete` and
`FilesKept` follow, for a failure at any step.  `LeaseInv` counts the leases, and a
process with an open stdout has one: `OpenWorkers`.

**ProcessWorkerProofs.** `EventInv` (the event follows the reaping and agrees with the cause),
`StderrInv` (the waiting goroutine is not past stderr before the reader is), `WaitInv` (one
caller at a time past the first select, and the channel closed behind it).

**WasmDispatcherProofs.** `PlaceInv`: no instance is twice in the pool, in the pool and with a
request, or with two requests.  It is what `CleanInv` needs, for otherwise one request could dirty
an instance after another has restored it: the restore then precedes every return (`Restored`).
`CloseInv` says that Shutdown only ever sees the runtime of the second Start and that nothing
revives a closed instance (`ShutdownCloses`).  `ConserveInv` adds to `PlaceInv` that no instance is nowhere;
`AtMostOne` turns both into the sum of cardinalities that `InstancesConserved` is (`Conserved`).

**LifecycleProofs.** `ServeInv` says what the plain HTTP server and the runtime have come to at each place of
the shell: a runtime that has stopped means a closed server, no requests and, as nothing arrives any more, no
new worker, and the old one is gone unless the interface is the file one; hence `Served` and `ExitsClean`, with that
exemption.  `FlagsWin`, with the exemption of the durations on the command line, needs only that nothing is loaded after the flags.

Some properties are stated and proved but not listed in a run, as another one that is checked implies
them or comes close: `PoolBounded`, `SpoiledNeverReused`, `ShutdownWaits` (parts of `ImplementsLeases`), `RefIsUsable`,
`PersistentKept`, `OneWaiter`, `OpenWorkersBounded`.

Only model-checked: liveness, which needs fairness and ENABLED and is out of the prover's reach
(`WaitsOnlyForSends`, `ShutdownCompletes`, `StoppedWorkerEnds`, `EveryCallReturns`, `WaitEnds`, `LeftoversKilled`,
`StartsOrExits`, and the liveness parts of `ImplementsSupervisor` and `SoundFramesArrive`, whose safety parts are `Implements`
and `InOrder`).  All other properties of the passing runs are theorems.  The inductive invariants were
model-checked, too, before they were proved.  Induction over data and recursive operators are not
provable with the provers at hand; there are no recursive operators here.


## 6. Not modelled

- JSON schemas: what a schema accepts is a library's business; that a request or response is
  refused is a property of it in `RuntimeHandler`.
- The rpc client and its codecs, `net/http`, fx, koanf, urfave/cli, puddle and wazero themselves;
  each is modelled as far as the code relies on it, in definitions marked external.
- Frames whose header announces more bytes than follow before the next header; the failing branch of the WASM
  restore, which a memory that never shrinks does not reach.
- Decoding of configuration values into their types; defaults, files and prefixes of `conf.Parse`, which no
  caller uses.
- The layout of feedback and of health answers; wording of logs and errors; Sentry.
- The pipes of `ProcessWorker`, which only hand out what `os/exec` made; the reuse of a process id by
  the operating system.
- The Windows worker (another build), mocks (generated), the standalone application (wiring only).
- A crash of the shim: nothing is persisted, so there is no state to restart from.

What more could be done: the refinement of `WorkerLeases` by the file adapter's leases and by the WASM dispatcher's channel, which
keep the same promise by other means; a proof that a state of `PooledDispatcher` in which nothing can happen has no request waiting.
