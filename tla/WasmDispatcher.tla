---------------------------- MODULE WasmDispatcher ----------------------------
(***************************************************************************)
(* The WebAssembly backend (internal/execution/wasm): a dispatcher with a  *)
(* channel of supervisors, each with one instance of the module, which is  *)
(* put back into the channel after every request once the memory has been  *)
(* overwritten with the snapshot taken at the start.  NewDispatcher starts *)
(* the dispatcher and the runtime's OnStart hook starts it again, so there *)
(* are two generations of instances.                                       *)
(*                                                                         *)
(* wazero is a library.  An instance is live until it is closed, by the    *)
(* host or by the guest's own exit; a call into a closed one fails.        *)
(***************************************************************************)
EXTENDS Naturals, Sequences, FiniteSets

CONSTANTS
    Requests,      \* the calls of Send
    MaxInstances,  \* the capacity of the pool
    NoInstance     \* the instance of a request that has got none

ASSUME WasmAssumption ==
    /\ IsFiniteSet(Requests)
    /\ MaxInstances \in Nat \ {0}
    /\ NoInstance \notin {1, 2} \X (1 .. MaxInstances)

VARIABLES
    phase,      \* how far the program has come with its two Starts
    current,    \* the generation of d.rt, 0 when it is nil
    pool,       \* the channel d.pool
    module,     \* module[i]: wazero's state of instance i
    residue,    \* residue[i]: the parts of i's state that requests have changed
    pc,         \* pc[q]: how far q's call of Send has come
    using,      \* using[q]: the instance that q has received from the pool
    outcome,    \* outcome[q]: what q's call returns
    drained,    \* the instances whose supervisor has been shut down
    shutdown    \* how far Shutdown has come

hostVars == <<phase, current, drained, shutdown>>
requestVars == <<pc, using, outcome>>
vars == <<hostVars, requestVars, pool, module, residue>>

\* An instance is a generation and a number.
Instances == {1, 2} \X (1 .. MaxInstances)
Of(g) == {i \in Instances : i[1] = g}

\* The linear memory of the snapshot; and what it does not hold, which is the
\* globals, the tables and the memory the guest has grown.
Parts == {"snapshot", "rest"}

\* The stages in which a request has an instance.
Busy == {"alloc", "evaluate", "restore", "return"}

TypeOK ==
    /\ phase \in {"new", "made", "serving", "failed"}
    /\ current \in 0 .. 2
    /\ pool \in Seq(Instances)
    /\ module \in [Instances -> {"none", "live", "closed"}]
    /\ residue \in [Instances -> SUBSET Parts]
    /\ pc \in [Requests -> Busy \cup {"new", "acquire", "answered", "refused"}]
    /\ using \in [Requests -> Instances \cup {NoInstance}]
    /\ outcome \in [Requests -> {"none", "ok", "error"}]
    /\ drained \in SUBSET Instances
    /\ shutdown \in {"no", "drain", "close", "done", "failed"}

Init ==
    /\ phase = "new"
    /\ current = 0
    /\ pool = <<>>
    /\ module = [i \in Instances |-> "none"]
    /\ residue = [i \in Instances |-> {}]
    /\ pc = [q \in Requests |-> "new"]
    /\ using = [q \in Requests |-> NoInstance]
    /\ outcome = [q \in Requests |-> "none"]
    /\ drained = {}
    /\ shutdown = "no"

-----------------------------------------------------------------------------
(* Starting, twice.                                                         *)

\* A supervisor starts by instantiating the module.
Instantiate(is) == module' = [i \in Instances |-> IF i \in is THEN "live" ELSE module[i]]

\* A supervisor is shut down, which closes its instance.
ShutDown(is) ==
    /\ drained' = drained \cup is
    /\ module' = [i \in Instances |-> IF i \in is THEN "closed" ELSE module[i]]

\* Start makes a runtime and fills a new pool with instances of its own.  It
\* may fail before there is a runtime, with the runtime, or at the n-th
\* instance, when those already there are closed again.  Nothing is done with
\* what an earlier Start has left.  A program whose Start has failed ends.
StartGeneration(g, next) ==
    /\ \/ /\ phase' = next
          /\ current' = g
          /\ pool' = [n \in 1 .. MaxInstances |-> <<g, n>>]
          /\ Instantiate(Of(g))
          /\ UNCHANGED drained
       \/ /\ phase' = "failed"
          /\ current' \in {current, g}
          /\ UNCHANGED <<pool, module, drained>>
       \/ /\ phase' = "failed"
          /\ current' = g
          /\ pool' = <<>>
          /\ \E n \in 1 .. MaxInstances : ShutDown({i \in Of(g) : i[2] < n})
    /\ UNCHANGED <<requestVars, residue, shutdown>>

NewDispatcher == phase = "new" /\ StartGeneration(1, "made")
OnStart == phase = "made" /\ StartGeneration(2, "serving")

-----------------------------------------------------------------------------
(* Send.                                                                    *)

Send(q) ==
    /\ phase = "serving"
    /\ pc[q] = "new"
    /\ pc' = [pc EXCEPT ![q] = "acquire"]
    /\ UNCHANGED <<hostVars, using, outcome, pool, module, residue>>

Acquire(q) ==
    /\ pc[q] = "acquire"
    /\ pool # <<>>
    /\ using' = [using EXCEPT ![q] = Head(pool)]
    /\ pool' = Tail(pool)
    /\ pc' = [pc EXCEPT ![q] = "alloc"]
    /\ UNCHANGED <<hostVars, outcome, module, residue>>

\* The request's context ends while it waits for an instance.  Later nobody
\* looks at the context.
Refuse(q) ==
    /\ pc[q] = "acquire"
    /\ pc' = [pc EXCEPT ![q] = "refused"]
    /\ UNCHANGED <<hostVars, using, outcome, pool, module, residue>>

\* Guest code of instance i runs, and may leave anything changed.
GuestRuns(i) ==
    \E touched \in SUBSET Parts : residue' = [residue EXCEPT ![i] = @ \cup touched]

\* The call has failed: a missing export, a bad pointer or a trap, or the
\* guest has exited, which closes its instance.
Fails(q) ==
    /\ outcome' = [outcome EXCEPT ![q] = "error"]
    /\ pc' = [pc EXCEPT ![q] = "restore"]
    /\ module' \in {module, [module EXCEPT ![using[q]] = "closed"]}

\* The request is written to the place that the guest's alloc returns.
Alloc(q) ==
    /\ pc[q] = "alloc"
    /\ GuestRuns(using[q])
    /\ \/ /\ module[using[q]] = "live"
          /\ pc' = [pc EXCEPT ![q] = "evaluate"]
          /\ UNCHANGED <<outcome, module>>
       \/ Fails(q)
    /\ UNCHANGED <<hostVars, using, pool>>

\* The guest's evaluate returns, whatever has become of the context, and the
\* response is read from its memory.
Evaluate(q) ==
    /\ pc[q] = "evaluate"
    /\ GuestRuns(using[q])
    /\ \/ /\ module[using[q]] = "live"
          /\ outcome' = [outcome EXCEPT ![q] = "ok"]
          /\ pc' = [pc EXCEPT ![q] = "restore"]
          /\ UNCHANGED module
       \/ Fails(q)
    /\ UNCHANGED <<hostVars, using, pool>>

\* Mutant of RestoreSnapshot: an error returns before the restore.
RestoreAfterSuccess(q) ==
    /\ pc[q] = "restore"
    /\ residue' = [residue EXCEPT ![using[q]] =
                       IF outcome[q] = "ok" THEN @ \ {"snapshot"} ELSE @]
    /\ pc' = [pc EXCEPT ![q] = "return"]
    /\ UNCHANGED <<hostVars, using, outcome, pool, module>>

\* It can fail only where the memory is smaller than the snapshot, but the memory
\* of a guest does not shrink.
RestoreSnapshot(q) ==
    /\ pc[q] = "restore"
    /\ residue' = [residue EXCEPT ![using[q]] = @ \ {"snapshot"}]
    /\ pc' = [pc EXCEPT ![q] = "return"]
    /\ UNCHANGED <<hostVars, using, outcome, pool, module>>

\* A send on the channel d.pool does not block.
Room == Len(pool) < MaxInstances

\* Mutant of Return: a failed request does not give its instance back.
ReturnAfterSuccess(q) ==
    /\ pc[q] = "return"
    /\ Room
    /\ pool' = IF outcome[q] = "ok" THEN Append(pool, using[q]) ELSE pool
    /\ using' = [using EXCEPT ![q] = NoInstance]
    /\ pc' = [pc EXCEPT ![q] = "answered"]
    /\ UNCHANGED <<hostVars, outcome, module, residue>>

\* Mutant of Return: the request ends in a stage of its own.
ReturnUnknown(q) ==
    /\ pc[q] = "return"
    /\ pc' = [pc EXCEPT ![q] = "returned"]
    /\ UNCHANGED <<hostVars, using, outcome, pool, module, residue>>

Return(q) ==
    /\ pc[q] = "return"
    /\ Room
    /\ pool' = Append(pool, using[q])
    /\ using' = [using EXCEPT ![q] = NoInstance]
    /\ pc' = [pc EXCEPT ![q] = "answered"]
    /\ UNCHANGED <<hostVars, outcome, module, residue>>

-----------------------------------------------------------------------------
(* Shutdown, which requests may overtake at every step.                     *)

Shutdown ==
    /\ phase = "serving"
    /\ shutdown = "no"
    /\ shutdown' = "drain"
    /\ UNCHANGED <<phase, current, drained, requestVars, pool, module, residue>>

\* drainPool shuts down the supervisors in the channel, until it finds none.
DrainPool ==
    /\ shutdown = "drain"
    /\ \/ /\ pool # <<>>
          /\ pool' = Tail(pool)
          /\ ShutDown({Head(pool)})
          /\ UNCHANGED shutdown
       \/ /\ pool = <<>>
          /\ shutdown' = "close"
          /\ UNCHANGED <<pool, drained, module>>
    /\ UNCHANGED <<phase, current, requestVars, residue>>

\* Mutant of CloseRuntime: only the supervisors found in the pool are closed.
KeepRuntime ==
    /\ shutdown = "close"
    /\ shutdown' = "done"
    /\ UNCHANGED <<phase, current, drained, requestVars, pool, module, residue>>

\* rt.Close closes every instance of the runtime, with an error or without one.
CloseRuntime ==
    /\ shutdown = "close"
    /\ module' = [i \in Instances |-> IF i \in Of(current) THEN "closed" ELSE module[i]]
    /\ \/ shutdown' = "done" /\ current' = 0
       \/ shutdown' = "failed" /\ UNCHANGED current
    /\ UNCHANGED <<phase, drained, requestVars, pool, residue>>

-----------------------------------------------------------------------------
Step(q) ==
    Acquire(q) \/ Alloc(q) \/ Evaluate(q) \/ RestoreSnapshot(q) \/ Return(q)

Next ==
    \/ NewDispatcher \/ OnStart \/ Shutdown \/ DrainPool \/ CloseRuntime
    \/ \E q \in Requests : Send(q) \/ Refuse(q) \/ Step(q)

Spec == Init /\ [][Next]_vars

-----------------------------------------------------------------------------
(* Properties.                                                              *)

\* While the dispatcher serves, an instance of the generation in use is at one
\* place, whatever fails and whenever Shutdown comes: in the pool, out with
\* one request, or shut down.  No request has an instance of the generation
\* that the second Start has replaced.
InstancesConserved ==
    phase = "serving" => \A i \in Instances :
        Cardinality({n \in DOMAIN pool : pool[n] = i})
        + Cardinality({q \in Requests : pc[q] \in Busy /\ using[q] = i})
        + Cardinality(drained \cap {i}) = IF i \in Of(2) THEN 1 ELSE 0

\* No request finds in the memory of the snapshot what an earlier one left
\* there ("Always restore memory snapshot, even on error", supervisor.go:97).
MemoryRestored ==
    \A q \in Requests : pc[q] = "alloc" => "snapshot" \notin residue[using[q]]

\* After Shutdown no instance of the generation in use is live, those included
\* that were out with requests when the pool was drained.
ServingInstancesClosed ==
    shutdown \in {"done", "failed"} => \A i \in Of(2) : module[i] = "closed"
=============================================================================
