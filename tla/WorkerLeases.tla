---------------------------- MODULE WorkerLeases ----------------------------
(***************************************************************************)
(* What a dispatcher of pooled supervisors promises, without the pool:     *)
(* supervisors are leased to requests, at most MaxWorkers at a time and    *)
(* each to one request; the request is answered while it holds its lease,  *)
(* and the lease ends later; a supervisor that has failed a request is     *)
(* never leased again; once the dispatcher is closed there is no lease.    *)
(***************************************************************************)
EXTENDS Naturals, FiniteSets

CONSTANTS Requests, Supervisors, MaxWorkers, NoSupervisor

VARIABLES
    phase,      \* phase[q]: what the dispatcher has done for request q
    holds,      \* holds[q]: the supervisor last leased to q
    answered,   \* the requests that have got the reply of a worker
    spoiled,    \* the supervisors that have failed a request
    closed      \* the dispatcher has shut down

leaseVars == <<phase, holds, answered, spoiled, closed>>

Leased == {q \in Requests : phase[q] = "leased"}

Init ==
    /\ phase = [q \in Requests |-> "new"]
    /\ holds = [q \in Requests |-> NoSupervisor]
    /\ answered = {}
    /\ spoiled = {}
    /\ closed = FALSE

Ask(q) ==
    /\ phase[q] = "new"
    /\ phase' = [phase EXCEPT ![q] = "waiting"]
    /\ UNCHANGED <<holds, answered, spoiled, closed>>

Refuse(q) ==
    /\ phase[q] \in {"new", "waiting"}
    /\ phase' = [phase EXCEPT ![q] = "refused"]
    /\ UNCHANGED <<holds, answered, spoiled, closed>>

Grant(q, s) ==
    /\ phase[q] = "waiting"
    /\ ~closed
    /\ s \notin spoiled
    /\ \A p \in Leased : holds[p] # s
    /\ Cardinality(Leased) < MaxWorkers
    /\ phase' = [phase EXCEPT ![q] = "leased"]
    /\ holds' = [holds EXCEPT ![q] = s]
    /\ UNCHANGED <<answered, spoiled, closed>>

\* The worker's reply, good or bad, reaches the caller.
Answer(q) ==
    /\ q \in Leased \ answered
    /\ answered' = answered \cup {q}
    /\ spoiled' \in {spoiled, spoiled \cup {holds[q]}}
    /\ UNCHANGED <<phase, holds, closed>>

\* The worker cannot be released.
Spoil(q) ==
    /\ q \in Leased \cap answered
    /\ spoiled' = spoiled \cup {holds[q]}
    /\ UNCHANGED <<phase, holds, answered, closed>>

Return(q) ==
    /\ q \in Leased \cap answered
    /\ phase' = [phase EXCEPT ![q] = "returned"]
    /\ UNCHANGED <<holds, answered, spoiled, closed>>

Close ==
    /\ Leased = {}
    /\ closed' = TRUE
    /\ UNCHANGED <<phase, holds, answered, spoiled>>

Next ==
    \/ \E q \in Requests : Ask(q) \/ Refuse(q) \/ Answer(q) \/ Spoil(q) \/ Return(q)
    \/ \E q \in Requests, s \in Supervisors : Grant(q, s)
    \/ Close

Spec == Init /\ [][Next]_leaseVars
=============================================================================
