-------------------------- MODULE PooledDispatcher --------------------------
(***************************************************************************)
(* The pooled dispatcher (internal/execution/dispatcher/dispatcher_pooled  *)
(* .go): every request leases a supervisor from a puddle pool, sends its   *)
(* message through it and is answered; a goroutine started on the way out  *)
(* then releases the worker and gives the supervisor back to the pool or   *)
(* destroys it.                                                            *)
(*                                                                         *)
(* puddle (v2) is a library.  Its Acquire, Release, Destroy and Close are  *)
(* modelled one critical section at a time, as far as the dispatcher can   *)
(* tell: a semaphore of MaxWorkers permits, the set of resources with      *)
(* their status, and the wait group that Close waits for.  A request       *)
(* constructs at most one supervisor, so the supervisor is named by it.    *)
(***************************************************************************)
EXTENDS Naturals, FiniteSets

CONSTANTS
    Requests,      \* the calls of Send
    MaxWorkers,    \* the size of the pool
    NoSupervisor   \* the lease of a request that holds none

ASSUME PoolAssumption ==
    /\ IsFiniteSet(Requests)
    /\ MaxWorkers \in Nat \ {0}
    /\ NoSupervisor \notin Requests

VARIABLES
    pc,        \* pc[q]: how far q's call of Send has come
    ctxDone,   \* ctxDone[q]: the context of request q has ended
    permits,   \* the requests on whose behalf a permit of the semaphore is held
    status,    \* status[s]: what puddle knows of the supervisor s constructed
    lease,     \* lease[q]: the supervisor that Acquire returned to q
    outcome,   \* outcome[q]: the variables res, err and releaseErr of q's call
    disposal,  \* disposal[q]: the goroutine that runs q's dispose()
    shutdown   \* how far the dispatcher's Shutdown has come

vars == <<pc, ctxDone, permits, status, lease, outcome, disposal, shutdown>>

(***************************************************************************)
(* "built" is a supervisor the constructor has returned while nobody has   *)
(* taken it yet; "draining" one that left the pool because the pool is     *)
(* closed, and whose destructor runs in the background.                    *)
(***************************************************************************)
Status == {"absent", "constructing", "built", "acquired", "idle",
           "destroying", "draining", "gone"}
PooledStatus == {"constructing", "built", "acquired", "idle", "destroying"}

Pooled == {s \in Requests : status[s] \in PooledStatus}
Idle == {s \in Requests : status[s] = "idle"}
Closed == shutdown # "open"

TypeOK ==
    /\ pc \in [Requests -> {"new", "permit", "lookup", "construct", "send",
                            "answered", "refused"}]
    /\ ctxDone \in [Requests -> BOOLEAN]
    /\ permits \in SUBSET Requests
    /\ status \in [Requests -> Status]
    /\ lease \in [Requests -> Requests \cup {NoSupervisor}]
    /\ outcome \in [Requests -> {"none", "ok", "failed", "noResult", "unreleased"}]
    /\ disposal \in [Requests -> {"none", "spawned", "releasing", "finished"}]
    /\ shutdown \in {"open", "closing", "closed"}

Init ==
    /\ pc = [q \in Requests |-> "new"]
    /\ ctxDone = [q \in Requests |-> FALSE]
    /\ permits = {}
    /\ status = [s \in Requests |-> "absent"]
    /\ lease = [q \in Requests |-> NoSupervisor]
    /\ outcome = [q \in Requests |-> "none"]
    /\ disposal = [q \in Requests |-> "none"]
    /\ shutdown = "open"

-----------------------------------------------------------------------------
(* Acquiring a supervisor: puddle's Acquire and the dispatcher's            *)
(* constructor.                                                             *)

\* The client disconnects, or the deadline of the request passes.
EndContext(q) ==
    /\ ~ctxDone[q]
    /\ ctxDone' = [ctxDone EXCEPT ![q] = TRUE]
    /\ UNCHANGED <<pc, permits, status, lease, outcome, disposal, shutdown>>

\* Send calls Acquire, which refuses a context that has already ended.
Acquire(q) ==
    /\ pc[q] = "new"
    /\ pc' = [pc EXCEPT ![q] = IF ctxDone[q] THEN "refused" ELSE "permit"]
    /\ UNCHANGED <<ctxDone, permits, status, lease, outcome, disposal, shutdown>>

TakePermit(q) ==
    /\ pc[q] = "permit"
    /\ Cardinality(permits) < MaxWorkers
    /\ permits' = permits \cup {q}
    /\ pc' = [pc EXCEPT ![q] = "lookup"]
    /\ UNCHANGED <<ctxDone, status, lease, outcome, disposal, shutdown>>

\* Under the pool's mutex: refuse when closed, else lease an idle
\* supervisor, else add a new one and start its constructor in a goroutine.
Lookup(q) ==
    /\ pc[q] = "lookup"
    /\ \/ /\ Closed
          /\ permits' = permits \ {q}
          /\ pc' = [pc EXCEPT ![q] = "refused"]
          /\ UNCHANGED <<status, lease>>
       \/ /\ ~Closed
          /\ \E s \in Idle :
                /\ status' = [status EXCEPT ![s] = "acquired"]
                /\ lease' = [lease EXCEPT ![q] = s]
          /\ pc' = [pc EXCEPT ![q] = "send"]
          /\ UNCHANGED permits
       \/ /\ ~Closed
          /\ Idle = {}
          /\ status' = [status EXCEPT ![q] = "constructing"]
          /\ pc' = [pc EXCEPT ![q] = "construct"]
          /\ UNCHANGED <<permits, lease>>
    /\ UNCHANGED <<ctxDone, outcome, disposal, shutdown>>

\* The constructor makes a supervisor and starts it.  When either step fails
\* puddle forgets the resource and frees the permit.
Construct(q) ==
    /\ status[q] = "constructing"
    /\ \/ /\ status' = [status EXCEPT ![q] = "built"]
          /\ UNCHANGED permits
       \/ /\ status' = [status EXCEPT ![q] = "gone"]
          /\ permits' = permits \ {q}
    /\ UNCHANGED <<pc, ctxDone, lease, outcome, disposal, shutdown>>

\* The constructing goroutine meets the waiting request.
HandOver(q) ==
    /\ pc[q] = "construct"
    /\ status[q] = "built"
    /\ status' = [status EXCEPT ![q] = "acquired"]
    /\ lease' = [lease EXCEPT ![q] = q]
    /\ pc' = [pc EXCEPT ![q] = "send"]
    /\ UNCHANGED <<ctxDone, permits, outcome, disposal, shutdown>>

\* A supervisor given back to the pool by whoever holds q's permit.
GiveBack(q, s) ==
    /\ status' = [status EXCEPT ![s] = IF Closed THEN "draining" ELSE "idle"]
    /\ permits' = permits \ {q}

\* The request's context has ended: the goroutine keeps what it constructed.
Abandon(q) ==
    /\ status[q] = "built"
    /\ ctxDone[q]
    /\ GiveBack(q, q)
    /\ UNCHANGED <<pc, ctxDone, lease, outcome, disposal, shutdown>>

\* Acquire returns an error: the context has ended while the request waited
\* for a permit or for the constructor, or the constructor has failed.
Refuse(q) ==
    /\ \/ pc[q] \in {"permit", "construct"} /\ ctxDone[q]
       \/ pc[q] = "construct" /\ status[q] = "gone"
    /\ pc' = [pc EXCEPT ![q] = "refused"]
    /\ UNCHANGED <<ctxDone, permits, status, lease, outcome, disposal, shutdown>>

-----------------------------------------------------------------------------
(* Using it and giving it back: sendToSupervisor.                           *)

\* Mutant of SendToSupervisor: a result nobody handles.
SendWithUnknownResult(q) ==
    /\ pc[q] = "send"
    /\ outcome' = [outcome EXCEPT ![q] = "panicked"]
    /\ pc' = [pc EXCEPT ![q] = "answered"]
    /\ disposal' = [disposal EXCEPT ![q] = "spawned"]
    /\ UNCHANGED <<ctxDone, permits, status, lease, shutdown>>

\* Mutant of SendToSupervisor: the supervisor goes back to the pool with the
\* answer, before dispose() has released the worker.
SendAndGiveBack(q) ==
    /\ pc[q] = "send"
    /\ outcome' = [outcome EXCEPT ![q] = "ok"]
    /\ pc' = [pc EXCEPT ![q] = "answered"]
    /\ disposal' = [disposal EXCEPT ![q] = "spawned"]
    /\ GiveBack(q, lease[q])
    /\ UNCHANGED <<ctxDone, lease, shutdown>>

\* supervisor.Send returns, the request is answered and dispose() is started.
\* A nil result ("noResult") comes with an error.  Send need not return: the
\* file adapter waits without bound for the end of its process's stdout.
SendToSupervisor(q) ==
    /\ pc[q] = "send"
    /\ \E o \in {"ok", "failed", "noResult"} : outcome' = [outcome EXCEPT ![q] = o]
    /\ pc' = [pc EXCEPT ![q] = "answered"]
    /\ disposal' = [disposal EXCEPT ![q] = "spawned"]
    /\ UNCHANGED <<ctxDone, permits, status, lease, shutdown>>

\* resource.Destroy(): the destructor runs before the permit is freed.
Destroy(q) ==
    /\ status' = [status EXCEPT ![lease[q]] = "destroying"]
    /\ disposal' = [disposal EXCEPT ![q] = "finished"]
    /\ UNCHANGED permits

\* resource.Release().
Release(q) ==
    /\ GiveBack(q, lease[q])
    /\ disposal' = [disposal EXCEPT ![q] = "finished"]

DestroyOrRelease(q) ==
    IF outcome[q] \in {"failed", "noResult"} THEN Destroy(q) ELSE Release(q)

\* Mutant of Dispose: nothing is given back when there is nothing to wait for.
DisposeForgetsNoResult(q) ==
    /\ disposal[q] = "spawned"
    /\ disposal' = [disposal EXCEPT ![q] = IF outcome[q] = "noResult" THEN "finished"
                                           ELSE "releasing"]
    /\ UNCHANGED <<pc, ctxDone, permits, status, lease, outcome, shutdown>>

\* dispose() begins: without a release function there is nothing to wait for,
\* else res.Release(m.ctx) is called.
Dispose(q) ==
    /\ disposal[q] = "spawned"
    /\ \/ /\ outcome[q] = "noResult"
          /\ DestroyOrRelease(q)
       \/ /\ outcome[q] # "noResult"
          /\ disposal' = [disposal EXCEPT ![q] = "releasing"]
          /\ UNCHANGED <<permits, status>>
    /\ UNCHANGED <<pc, ctxDone, lease, outcome, shutdown>>

\* res.Release(m.ctx) returns, with an error or without one.
WorkerReleased(q) ==
    /\ disposal[q] = "releasing"
    /\ \/ /\ DestroyOrRelease(q)
          /\ UNCHANGED outcome
       \/ /\ outcome' = [outcome EXCEPT ![q] = "unreleased"]
          /\ Destroy(q)
    /\ UNCHANGED <<pc, ctxDone, lease, shutdown>>

-----------------------------------------------------------------------------
(* Shutting down.                                                           *)

\* The destructor has shut the supervisor down; a destroyed supervisor's
\* holder keeps its permit until now.
Destruct(s) ==
    /\ status[s] \in {"destroying", "draining"}
    /\ status' = [status EXCEPT ![s] = "gone"]
    /\ permits' = permits \ {q \in Requests : lease[q] = s}
    /\ UNCHANGED <<pc, ctxDone, lease, outcome, disposal, shutdown>>

\* Shutdown closes the pool: the idle supervisors are destructed in the
\* background, the leased ones when they are given back.
Shutdown ==
    /\ shutdown = "open"
    /\ shutdown' = "closing"
    /\ status' = [s \in Requests |-> IF s \in Idle THEN "draining" ELSE status[s]]
    /\ UNCHANGED <<pc, ctxDone, permits, lease, outcome, disposal>>

\* Close returns when no destructor and no constructor is outstanding.
ShutdownReturns ==
    /\ shutdown = "closing"
    /\ \A s \in Requests : status[s] \in {"absent", "gone"}
    /\ shutdown' = "closed"
    /\ UNCHANGED <<pc, ctxDone, permits, status, lease, outcome, disposal>>

-----------------------------------------------------------------------------
\* What the program does by itself once a request or Shutdown is under way.
Progress(q) ==
    \/ TakePermit(q) \/ Lookup(q) \/ Construct(q) \/ HandOver(q) \/ Abandon(q)
    \/ Refuse(q) \/ SendToSupervisor(q) \/ Dispose(q) \/ WorkerReleased(q)
    \/ Destruct(q)

Next ==
    \/ \E q \in Requests : EndContext(q) \/ Acquire(q) \/ Progress(q)
    \/ Shutdown
    \/ ShutdownReturns

Spec == Init /\ [][Next]_vars

(***************************************************************************)
(* Every goroutine that can run does run, and what the file adapter does   *)
(* at once does return: a supervisor's Start, Release and Shutdown.  Its   *)
(* Send need not return (see FileAdapter), no request has to arrive, no    *)
(* context has to end and nobody has to call Shutdown.                     *)
(***************************************************************************)
Fairness ==
    /\ \A q \in Requests :
        /\ WF_vars(TakePermit(q))
        /\ WF_vars(Lookup(q))
        /\ WF_vars(Construct(q))
        /\ WF_vars(HandOver(q) \/ Abandon(q) \/ Refuse(q))
        /\ WF_vars(Dispose(q) \/ WorkerReleased(q))
        /\ WF_vars(Destruct(q))
    /\ WF_vars(ShutdownReturns)

FairSpec == Spec /\ Fairness

-----------------------------------------------------------------------------
(* Properties.                                                              *)

\* The request q, or the goroutine that disposes of its lease, may still
\* touch the supervisor lease[q].
Uses(q) == pc[q] = "send" \/ disposal[q] \in {"spawned", "releasing"}

\* A send or a release through s has gone wrong.
Spoiled(s) ==
    \E q \in Requests : lease[q] = s /\ outcome[q] \in {"failed", "noResult", "unreleased"}

\* The pool never holds more supervisors than MaxWorkers, counting the ones
\* under construction and the ones being destroyed (max_workers; createPool).
PoolBounded == Cardinality(Pooled) <= MaxWorkers

\* A supervisor is used by one request at a time, the goroutine that disposes
\* of it after the answer included, and puddle has it as acquired all that
\* while: Release and Destroy panic on a resource that is not.
ExclusiveUse ==
    \A q \in Requests : Uses(q) =>
        /\ lease[q] \in Requests
        /\ status[lease[q]] = "acquired"
        /\ \A p \in Requests : Uses(p) /\ lease[p] = lease[q] => p = q

\* A supervisor through which a send or a release went wrong never serves
\* another request (destroyOrRelease).
SpoiledNeverReused ==
    \A s \in Requests : Spoiled(s) =>
        /\ status[s] \notin {"idle", "draining"}
        /\ \A q \in Requests : pc[q] = "send" => lease[q] # s

\* A permit is held only for a request still on its way, a constructor, a
\* lease or a destructor: no error path, and no context that ends at a bad
\* moment, loses a slot of the pool.
NoLostPermit ==
    \A q \in permits :
        \/ pc[q] \in {"lookup", "send"}
        \/ status[q] \in {"constructing", "built"} /\ lease[q] = NoSupervisor
        \/ disposal[q] \in {"spawned", "releasing"}
        \/ disposal[q] = "finished" /\ status[lease[q]] = "destroying"

\* When Shutdown has returned, every supervisor ever constructed has been
\* shut down, and none is constructed later ("Shutdown stops the dispatcher
\* and waits for all workers to finish.", dispatcher.go:15-16).
ShutdownWaits ==
    shutdown = "closed" => \A s \in Requests : status[s] \in {"absent", "gone"}

\* Nothing but a Send that does not return keeps a request waiting: when one
\* waits for ever, its context never ends and there is such a Send in every
\* slot.  However contexts end and whatever constructors, sends and releases
\* fail, the slots come back and are taken again.
WaitsOnlyForSends ==
    \A q \in Requests :
        <>[](pc[q] \in {"permit", "lookup", "construct"}) =>
            <>[](~ctxDone[q] /\ Cardinality({p \in Requests : pc[p] = "send"}) = MaxWorkers)

\* Shutdown returns, with requests in flight and requests still arriving, or
\* there is a Send that never returns.  (When that may be, once the pool is
\* closed, is the second part of LeftoversKilled in FileAdapter.)
ShutdownCompletes ==
    <>[](shutdown = "closing") => \E q \in Requests : <>[](pc[q] = "send")

(***************************************************************************)
(* The leases the pool implements.  A lease lasts from the moment Acquire  *)
(* returns until the permit behind it is freed.                            *)
(***************************************************************************)
Phase(q) ==
    CASE pc[q] \in {"permit", "lookup", "construct"} -> "waiting"
      [] pc[q] = "answered" /\ q \notin permits -> "returned"
      [] pc[q] \in {"send", "answered"} /\ q \in permits -> "leased"
      [] OTHER -> pc[q]

Leases == INSTANCE WorkerLeases WITH
    Supervisors <- Requests,
    phase <- [q \in Requests |-> Phase(q)],
    holds <- lease,
    answered <- {q \in Requests : pc[q] = "answered"},
    spoiled <- {s \in Requests : Spoiled(s)},
    closed <- (shutdown = "closed")

\* The dispatcher grants, answers and ends leases as WorkerLeases allows: the
\* detail of permits, constructors, goroutines and destructors is invisible.
ImplementsLeases == Leases!Spec
=============================================================================
