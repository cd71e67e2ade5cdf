----------------------- MODULE PooledDispatcherProofs -----------------------
(***************************************************************************)
(* Proofs about PooledDispatcher for every set of requests and every size  *)
(* of the pool.  The inductive invariant is LeaseInv (who uses what, and   *)
(* in which status puddle has it) with SpoilInv on top of it for the       *)
(* failed supervisors and CoverInv for the permits of the semaphore;       *)
(* AloneInv is what the refinement of WorkerLeases needs besides.          *)
(***************************************************************************)
EXTENDS PooledDispatcher, FiniteSetTheorems, TLAPS

Bad == {"failed", "noResult", "unreleased"}

(***************************************************************************)
(* What the fields of one request tell about each other, and about the     *)
(* supervisor it uses.                                                     *)
(***************************************************************************)
LeaseInv ==
    /\ \A q \in Requests :
        /\ pc[q] \in {"new", "permit", "lookup"} => status[q] = "absent"
        /\ pc[q] \in {"send", "answered"} <=> lease[q] # NoSupervisor
        /\ pc[q] = "answered" <=> disposal[q] # "none"
        /\ pc[q] = "answered" <=> outcome[q] # "none"
        /\ Uses(q) => status[lease[q]] = "acquired"
        /\ lease[q] # NoSupervisor =>
            status[lease[q]] \notin {"absent", "constructing", "built"}
    /\ \A p, q \in Requests : Uses(p) /\ Uses(q) /\ lease[p] = lease[q] => p = q

\* A request that has gone wrong still uses its supervisor or has destroyed it.
SpoilInv ==
    \A q \in Requests :
        /\ outcome[q] \in Bad =>
            Uses(q) \/ status[lease[q]] \in {"destroying", "gone"}
        /\ outcome[q] = "unreleased" => disposal[q] = "finished"

-----------------------------------------------------------------------------
\* Every variable keeps its type.
THEOREM TypeCorrect == Spec => []TypeOK
<1>1. Init => TypeOK
  BY DEF Init, TypeOK, Status
<1>2. TypeOK /\ [Next]_vars => TypeOK'
  <2> SUFFICES ASSUME TypeOK, [Next]_vars PROVE TypeOK'
    OBVIOUS
  <2> USE DEF TypeOK, Status
  <2>1. ASSUME NEW q \in Requests, EndContext(q) \/ Acquire(q) \/ TakePermit(q) \/ Refuse(q)
        PROVE TypeOK'
    BY <2>1 DEF EndContext, Acquire, TakePermit, Refuse
  <2>2. ASSUME NEW q \in Requests, Lookup(q) PROVE TypeOK'
    BY <2>2 DEF Lookup, Idle
  <2>3. ASSUME NEW q \in Requests, Construct(q) \/ HandOver(q) \/ Abandon(q)
        PROVE TypeOK'
    BY <2>3 DEF Construct, HandOver, Abandon, GiveBack
  <2>4. ASSUME NEW q \in Requests, SendToSupervisor(q) PROVE TypeOK'
    BY <2>4 DEF SendToSupervisor
  <2>5. ASSUME NEW q \in Requests, Dispose(q) PROVE TypeOK'
    BY <2>5 DEF Dispose, DestroyOrRelease, Destroy, Release, GiveBack
  <2>6. ASSUME NEW q \in Requests, WorkerReleased(q) PROVE TypeOK'
    BY <2>6 DEF WorkerReleased, DestroyOrRelease, Destroy, Release, GiveBack
  <2>7. ASSUME NEW q \in Requests, Destruct(q) PROVE TypeOK'
    BY <2>7 DEF Destruct
  <2>8. CASE Shutdown \/ ShutdownReturns
    BY <2>8 DEF Shutdown, ShutdownReturns
  <2>9. CASE UNCHANGED vars
    BY <2>9 DEF vars
  <2> QED
    BY <2>1, <2>2, <2>3, <2>4, <2>5, <2>6, <2>7, <2>8, <2>9 DEF Next, Progress
<1> QED
  BY <1>1, <1>2, PTL DEF Spec

-----------------------------------------------------------------------------
\* LeaseInv is inductive.
LEMMA LeaseCorrect == Spec => []LeaseInv
<1>1. Init => LeaseInv
  BY DEF Init, LeaseInv, Uses
<1>2. TypeOK /\ LeaseInv /\ [Next]_vars => LeaseInv'
  <2> SUFFICES ASSUME TypeOK, LeaseInv, [Next]_vars PROVE LeaseInv'
    OBVIOUS
  <2> USE PoolAssumption DEF TypeOK, LeaseInv, Uses
  <2>1. ASSUME NEW q \in Requests, EndContext(q) \/ Acquire(q) \/ TakePermit(q) \/ Refuse(q)
        PROVE LeaseInv'
    BY <2>1 DEF EndContext, Acquire, TakePermit, Refuse
  <2>2. ASSUME NEW q \in Requests, Lookup(q) PROVE LeaseInv'
    BY <2>2 DEF Lookup, Idle
  <2>3. ASSUME NEW q \in Requests, Construct(q) \/ HandOver(q) \/ Abandon(q)
        PROVE LeaseInv'
    BY <2>3 DEF Construct, HandOver, Abandon, GiveBack
  <2>4. ASSUME NEW q \in Requests, SendToSupervisor(q) PROVE LeaseInv'
    BY <2>4 DEF SendToSupervisor
  <2>5. ASSUME NEW q \in Requests, Dispose(q) PROVE LeaseInv'
    BY <2>5 DEF Dispose, DestroyOrRelease, Destroy, Release, GiveBack
  <2>6. ASSUME NEW q \in Requests, WorkerReleased(q) PROVE LeaseInv'
    BY <2>6 DEF WorkerReleased, DestroyOrRelease, Destroy, Release, GiveBack
  <2>7. ASSUME NEW q \in Requests, Destruct(q) PROVE LeaseInv'
    BY <2>7 DEF Destruct
  <2>8. CASE Shutdown \/ ShutdownReturns
    BY <2>8 DEF Shutdown, ShutdownReturns, Idle
  <2>9. CASE UNCHANGED vars
    BY <2>9 DEF vars
  <2> QED
    BY <2>1, <2>2, <2>3, <2>4, <2>5, <2>6, <2>7, <2>8, <2>9 DEF Next, Progress
<1> QED
  BY <1>1, <1>2, TypeCorrect, PTL DEF Spec

\* A request that has gone wrong and its supervisor, whatever the others do.
LEMMA SpoilCorrect == Spec => []SpoilInv
<1>1. Init => SpoilInv
  BY DEF Init, SpoilInv, Bad
<1>2. TypeOK /\ LeaseInv /\ SpoilInv /\ [Next]_vars => SpoilInv'
  <2> SUFFICES ASSUME TypeOK, LeaseInv, SpoilInv, [Next]_vars PROVE SpoilInv'
    OBVIOUS
  <2> USE PoolAssumption DEF TypeOK, LeaseInv, SpoilInv, Uses, Bad
  <2>1. ASSUME NEW q \in Requests, EndContext(q) \/ Acquire(q) \/ TakePermit(q) \/ Refuse(q)
        PROVE SpoilInv'
    BY <2>1 DEF EndContext, Acquire, TakePermit, Refuse
  <2>2. ASSUME NEW q \in Requests, Lookup(q) PROVE SpoilInv'
    BY <2>2 DEF Lookup, Idle
  <2>3. ASSUME NEW q \in Requests, Construct(q) \/ HandOver(q) \/ Abandon(q)
        PROVE SpoilInv'
    BY <2>3 DEF Construct, HandOver, Abandon, GiveBack
  <2>4. ASSUME NEW q \in Requests, SendToSupervisor(q) PROVE SpoilInv'
    BY <2>4 DEF SendToSupervisor
  <2>5. ASSUME NEW q \in Requests, Dispose(q) PROVE SpoilInv'
    BY <2>5 DEF Dispose, DestroyOrRelease, Destroy, Release, GiveBack
  <2>6. ASSUME NEW q \in Requests, WorkerReleased(q) PROVE SpoilInv'
    BY <2>6 DEF WorkerReleased, DestroyOrRelease, Destroy, Release, GiveBack
  <2>7. ASSUME NEW q \in Requests, Destruct(q) PROVE SpoilInv'
    BY <2>7 DEF Destruct
  <2>8. CASE Shutdown \/ ShutdownReturns
    BY <2>8 DEF Shutdown, ShutdownReturns, Idle
  <2>9. CASE UNCHANGED vars
    BY <2>9 DEF vars
  <2> QED
    BY <2>1, <2>2, <2>3, <2>4, <2>5, <2>6, <2>7, <2>8, <2>9 DEF Next, Progress
<1> QED
  BY <1>1, <1>2, TypeCorrect, LeaseCorrect, PTL DEF Spec

-----------------------------------------------------------------------------
\* One request at a time uses a supervisor, disposal included, and puddle's
\* Release and Destroy never meet a resource that is not acquired.
THEOREM Exclusion == Spec => []ExclusiveUse
<1>1. TypeOK /\ LeaseInv => ExclusiveUse
  BY PoolAssumption DEF TypeOK, LeaseInv, ExclusiveUse, Uses
<1> QED
  BY <1>1, TypeCorrect, LeaseCorrect, PTL

\* A supervisor that has failed a request is not leased again.
THEOREM NoReuse == Spec => []SpoiledNeverReused
<1>1. TypeOK /\ LeaseInv /\ SpoilInv => SpoiledNeverReused
  BY DEF TypeOK, LeaseInv, SpoilInv, SpoiledNeverReused, Spoiled, Uses, Bad
<1> QED
  BY <1>1, TypeCorrect, LeaseCorrect, SpoilCorrect, PTL

\* After Shutdown no supervisor is left and none is made.
THEOREM ShutdownComplete == Spec => []ShutdownWaits
<1>1. Init => ShutdownWaits
  BY DEF Init, ShutdownWaits
<1>2. TypeOK /\ LeaseInv /\ ShutdownWaits /\ [Next]_vars => ShutdownWaits'
  <2> SUFFICES ASSUME TypeOK, LeaseInv, ShutdownWaits, [Next]_vars PROVE ShutdownWaits'
    OBVIOUS
  <2> USE PoolAssumption DEF TypeOK, LeaseInv, ShutdownWaits, Uses, Closed
  <2>1. ASSUME NEW q \in Requests, EndContext(q) \/ Acquire(q) \/ TakePermit(q) \/ Refuse(q)
        PROVE ShutdownWaits'
    BY <2>1 DEF EndContext, Acquire, TakePermit, Refuse
  <2>2. ASSUME NEW q \in Requests, Lookup(q) PROVE ShutdownWaits'
    BY <2>2 DEF Lookup, Idle
  <2>3. ASSUME NEW q \in Requests, Construct(q) \/ HandOver(q) \/ Abandon(q)
        PROVE ShutdownWaits'
    BY <2>3 DEF Construct, HandOver, Abandon, GiveBack
  <2>4. ASSUME NEW q \in Requests, SendToSupervisor(q) PROVE ShutdownWaits'
    BY <2>4 DEF SendToSupervisor
  <2>5. ASSUME NEW q \in Requests, Dispose(q) PROVE ShutdownWaits'
    BY <2>5 DEF Dispose, DestroyOrRelease, Destroy, Release, GiveBack
  <2>6. ASSUME NEW q \in Requests, WorkerReleased(q) PROVE ShutdownWaits'
    BY <2>6 DEF WorkerReleased, DestroyOrRelease, Destroy, Release, GiveBack
  <2>7. ASSUME NEW q \in Requests, Destruct(q) PROVE ShutdownWaits'
    BY <2>7 DEF Destruct
  <2>8. CASE Shutdown \/ ShutdownReturns
    BY <2>8 DEF Shutdown, ShutdownReturns, Idle
  <2>9. CASE UNCHANGED vars
    BY <2>9 DEF vars
  <2> QED
    BY <2>1, <2>2, <2>3, <2>4, <2>5, <2>6, <2>7, <2>8, <2>9 DEF Next, Progress
<1> QED
  BY <1>1, <1>2, TypeCorrect, LeaseCorrect, PTL DEF Spec

\* No path through Send loses a slot of the pool.
THEOREM PermitsKept == Spec => []NoLostPermit
<1>1. Init => NoLostPermit
  BY DEF Init, NoLostPermit
<1>2. TypeOK /\ LeaseInv /\ NoLostPermit /\ [Next]_vars => NoLostPermit'
  <2> SUFFICES ASSUME TypeOK, LeaseInv, NoLostPermit, [Next]_vars PROVE NoLostPermit'
    OBVIOUS
  <2> USE PoolAssumption DEF TypeOK, LeaseInv, NoLostPermit, Uses
  <2>1. ASSUME NEW q \in Requests, EndContext(q) \/ Acquire(q) \/ TakePermit(q) \/ Refuse(q)
        PROVE NoLostPermit'
    BY <2>1 DEF EndContext, Acquire, TakePermit, Refuse
  <2>2. ASSUME NEW q \in Requests, Lookup(q) PROVE NoLostPermit'
    BY <2>2 DEF Lookup, Idle
  <2>3. ASSUME NEW q \in Requests, Construct(q) \/ HandOver(q) \/ Abandon(q)
        PROVE NoLostPermit'
    BY <2>3 DEF Construct, HandOver, Abandon, GiveBack
  <2>4. ASSUME NEW q \in Requests, SendToSupervisor(q) PROVE NoLostPermit'
    BY <2>4 DEF SendToSupervisor
  <2>5. ASSUME NEW q \in Requests, Dispose(q) PROVE NoLostPermit'
    BY <2>5 DEF Dispose, DestroyOrRelease, Destroy, Release, GiveBack
  <2>6. ASSUME NEW q \in Requests, WorkerReleased(q) PROVE NoLostPermit'
    BY <2>6 DEF WorkerReleased, DestroyOrRelease, Destroy, Release, GiveBack
  <2>7. ASSUME NEW q \in Requests, Destruct(q) PROVE NoLostPermit'
    BY <2>7 DEF Destruct
  <2>8. CASE Shutdown \/ ShutdownReturns
    BY <2>8 DEF Shutdown, ShutdownReturns, Idle
  <2>9. CASE UNCHANGED vars
    BY <2>9 DEF vars
  <2> QED
    BY <2>1, <2>2, <2>3, <2>4, <2>5, <2>6, <2>7, <2>8, <2>9 DEF Next, Progress
<1> QED
  BY <1>1, <1>2, TypeCorrect, LeaseCorrect, PTL DEF Spec

-----------------------------------------------------------------------------
(***************************************************************************)
(* The bound on the pool.  Every supervisor that is not idle is backed by  *)
(* a permit of its own: its constructor's, its user's or its destroyer's.  *)
(***************************************************************************)
CoverInv ==
    \A s \in Requests :
        /\ pc[s] = "lookup" => s \in permits
        /\ status[s] \in {"constructing", "built"} =>
            s \in permits /\ lease[s] = NoSupervisor
        /\ status[s] \in {"acquired", "destroying"} =>
            \E q \in permits : lease[q] = s

PermitsBounded == Cardinality(permits) <= MaxWorkers

\* The supervisor that q's permit is held for.
Backed(q) == IF lease[q] = NoSupervisor THEN q ELSE lease[q]

\* CoverInv is inductive.
LEMMA CoverCorrect == Spec => []CoverInv
<1>1. Init => CoverInv
  BY DEF Init, CoverInv
<1>2. TypeOK /\ LeaseInv /\ CoverInv /\ [Next]_vars => CoverInv'
  <2> SUFFICES ASSUME TypeOK, LeaseInv, CoverInv, [Next]_vars PROVE CoverInv'
    OBVIOUS
  <2> USE PoolAssumption DEF TypeOK, LeaseInv, CoverInv, Uses
  <2>1. ASSUME NEW q \in Requests, EndContext(q) \/ Acquire(q) \/ TakePermit(q) \/ Refuse(q)
        PROVE CoverInv'
    BY <2>1 DEF EndContext, Acquire, TakePermit, Refuse
  <2>2. ASSUME NEW q \in Requests, Lookup(q) PROVE CoverInv'
    BY <2>2 DEF Lookup, Idle
  <2>3. ASSUME NEW q \in Requests, Construct(q) \/ HandOver(q) \/ Abandon(q)
        PROVE CoverInv'
    BY <2>3 DEF Construct, HandOver, Abandon, GiveBack
  <2>4. ASSUME NEW q \in Requests, SendToSupervisor(q) PROVE CoverInv'
    BY <2>4 DEF SendToSupervisor
  <2>5. ASSUME NEW q \in Requests, Dispose(q) PROVE CoverInv'
    BY <2>5 DEF Dispose, DestroyOrRelease, Destroy, Release, GiveBack
  <2>6. ASSUME NEW q \in Requests, WorkerReleased(q) PROVE CoverInv'
    BY <2>6 DEF WorkerReleased, DestroyOrRelease, Destroy, Release, GiveBack
  <2>7. ASSUME NEW q \in Requests, Destruct(q) PROVE CoverInv'
    BY <2>7 DEF Destruct
  <2>8. CASE Shutdown \/ ShutdownReturns
    BY <2>8 DEF Shutdown, ShutdownReturns, Idle
  <2>9. CASE UNCHANGED vars
    BY <2>9 DEF vars
  <2> QED
    BY <2>1, <2>2, <2>3, <2>4, <2>5, <2>6, <2>7, <2>8, <2>9 DEF Next, Progress
<1> QED
  BY <1>1, <1>2, TypeCorrect, LeaseCorrect, PTL DEF Spec

\* Whoever is counted twice by a set of permits counts once: the supervisors
\* that a set P of permits backs are at most as many as P.
LEMMA BackedBound ==
    ASSUME NEW P, IsFiniteSet(P)
    PROVE  LET T == {Backed(q) : q \in P}
           IN  IsFiniteSet(T) /\ Cardinality(T) <= Cardinality(P)
<1> DEFINE T == {Backed(q) : q \in P}
           f == [q \in P |-> Backed(q)]
<1>1. f \in Surjection(P, T)
  BY DEF Surjection
<1> QED
  BY <1>1, FS_Surjection

\* Only TakePermit adds a permit, and it looks at the limit first.
LEMMA PermitBoundCorrect == Spec => []PermitsBounded
<1>1. Init => PermitsBounded
  BY PoolAssumption, FS_EmptySet DEF Init, PermitsBounded
<1>2. TypeOK /\ PermitsBounded /\ [Next]_vars => PermitsBounded'
  <2> SUFFICES ASSUME TypeOK, PermitsBounded, [Next]_vars PROVE PermitsBounded'
    OBVIOUS
  <2>1. IsFiniteSet(permits) /\ Cardinality(permits) \in Nat
    BY PoolAssumption, FS_Subset, FS_CardinalityType DEF TypeOK
  <2>2. ASSUME NEW q \in Requests, TakePermit(q) PROVE PermitsBounded'
    <3>1. permits' = permits \cup {q} /\ Cardinality(permits) < MaxWorkers
      BY <2>2 DEF TakePermit
    <3>2. Cardinality(permits') \in {Cardinality(permits), Cardinality(permits) + 1}
      BY <2>1, <3>1, FS_AddElement
    <3> QED
      BY <2>1, <3>1, <3>2, PoolAssumption DEF PermitsBounded
  <2>3. ASSUME permits' \subseteq permits PROVE PermitsBounded'
    <3>1. Cardinality(permits') <= Cardinality(permits) /\ IsFiniteSet(permits')
      BY <2>1, <2>3, FS_Subset
    <3> QED
      BY <2>1, <3>1, FS_CardinalityType, PoolAssumption DEF PermitsBounded
  <2>4. ASSUME NEW q \in Requests,
               EndContext(q) \/ Acquire(q) \/ Lookup(q) \/ Construct(q) \/ HandOver(q)
                 \/ Abandon(q) \/ Refuse(q) \/ SendToSupervisor(q)
        PROVE permits' \subseteq permits
    BY <2>4 DEF EndContext, Acquire, Lookup, Construct, HandOver, Abandon, GiveBack,
                Refuse, SendToSupervisor
  <2>5. ASSUME NEW q \in Requests, Dispose(q) \/ WorkerReleased(q) \/ Destruct(q)
        PROVE permits' \subseteq permits
    BY <2>5 DEF Dispose, WorkerReleased, DestroyOrRelease, Destroy, Release, GiveBack,
                Destruct
  <2>6. CASE Shutdown \/ ShutdownReturns \/ UNCHANGED vars
    BY <2>3, <2>6 DEF Shutdown, ShutdownReturns, vars
  <2> QED
    BY <2>2, <2>3, <2>4, <2>5, <2>6 DEF Next, Progress
<1> QED
  BY <1>1, <1>2, TypeCorrect, PTL DEF Spec

\* The pool stays within MaxWorkers: a supervisor is added only when none is
\* idle, and then the others are backed by the permits of the other requests.
THEOREM PoolBound == Spec => []PoolBounded
<1> DEFINE Inv == TypeOK /\ LeaseInv /\ CoverInv /\ PermitsBounded
<1>1. Init => PoolBounded
  <2>1. Init => Pooled = {}
    BY DEF Init, Pooled, PooledStatus
  <2> QED
    BY <2>1, PoolAssumption, FS_EmptySet DEF PoolBounded
<1>2. Inv /\ PoolBounded /\ [Next]_vars => PoolBounded'
  <2> SUFFICES ASSUME Inv, PoolBounded, [Next]_vars PROVE PoolBounded'
    OBVIOUS
  <2>1. /\ IsFiniteSet(permits) /\ Cardinality(permits) \in Nat
        /\ IsFiniteSet(Pooled) /\ Cardinality(Pooled) \in Nat
    BY PoolAssumption, FS_Subset, FS_CardinalityType DEF TypeOK, Pooled
  <2>2. ASSUME Pooled' \subseteq Pooled PROVE PoolBounded'
    <3>1. Cardinality(Pooled') <= Cardinality(Pooled) /\ IsFiniteSet(Pooled')
      BY <2>1, <2>2, FS_Subset
    <3> QED
      BY <2>1, <3>1, FS_CardinalityType, PoolAssumption DEF PoolBounded
  <2>3. ASSUME NEW q \in Requests, Lookup(q) PROVE PoolBounded'
    <3>1. CASE Pooled' \subseteq Pooled
      BY <3>1, <2>2
    <3>2. CASE ~(Pooled' \subseteq Pooled)
      <4>1. /\ pc[q] = "lookup"
            /\ Idle = {}
            /\ status' = [status EXCEPT ![q] = "constructing"]
            /\ permits' = permits
        BY <2>3, <3>2 DEF Lookup, Idle, Pooled, PooledStatus, TypeOK
      <4> DEFINE P == permits \ {q}
                 T == {Backed(p) : p \in P}
      <4>2. Pooled \subseteq T
        BY <4>1, PoolAssumption
        DEF TypeOK, LeaseInv, CoverInv, Pooled, PooledStatus, Idle, Backed
      <4>3. IsFiniteSet(P) /\ Cardinality(P) = Cardinality(permits) - 1
        BY <2>1, <4>1, FS_RemoveElement DEF CoverInv
      <4>4. IsFiniteSet(T) /\ Cardinality(T) <= Cardinality(P)
        BY <4>3, BackedBound
      <4>5. Cardinality(Pooled) <= Cardinality(T)
        BY <4>2, <4>4, FS_Subset
      <4>6. Cardinality(Pooled) < MaxWorkers
        <5>1. Cardinality(T) \in Nat
          BY <4>4, FS_CardinalityType
        <5> QED
          BY <2>1, <4>3, <4>4, <4>5, <5>1, PoolAssumption DEF PermitsBounded
      <4>7. Pooled' = Pooled \cup {q}
        BY <4>1 DEF TypeOK, Pooled, PooledStatus
      <4>8. Cardinality(Pooled') \in {Cardinality(Pooled), Cardinality(Pooled) + 1}
        BY <2>1, <4>7, FS_AddElement
      <4> QED
        BY <2>1, <4>6, <4>8, PoolAssumption DEF PoolBounded
    <3> QED
      BY <3>1, <3>2
  <2>4. ASSUME NEW q \in Requests,
               EndContext(q) \/ Acquire(q) \/ TakePermit(q) \/ Construct(q) \/ HandOver(q)
                 \/ Abandon(q) \/ Refuse(q) \/ SendToSupervisor(q)
        PROVE Pooled' \subseteq Pooled
    BY <2>4 DEF EndContext, Acquire, TakePermit, Construct, HandOver, Abandon, GiveBack,
                Refuse, SendToSupervisor, Pooled, PooledStatus, TypeOK
  <2>5. ASSUME NEW q \in Requests, Dispose(q) \/ WorkerReleased(q)
        PROVE Pooled' \subseteq Pooled
    <3>1. status[lease[q]] = "acquired"
      BY <2>5 DEF Dispose, WorkerReleased, LeaseInv, Uses
    <3> QED
      BY <2>5, <3>1 DEF Dispose, WorkerReleased, DestroyOrRelease, Destroy, Release,
                        GiveBack, Pooled, PooledStatus, TypeOK
  <2>6. ASSUME NEW q \in Requests, Destruct(q) PROVE Pooled' \subseteq Pooled
    BY <2>6 DEF Destruct, Pooled, PooledStatus, TypeOK
  <2>7. CASE Shutdown \/ ShutdownReturns \/ UNCHANGED vars
    <3>1. Pooled' \subseteq Pooled
      BY <2>7 DEF Shutdown, ShutdownReturns, vars, Idle, Pooled, PooledStatus, TypeOK
    <3> QED
      BY <3>1, <2>2
  <2> QED
    BY <2>2, <2>3, <2>4, <2>5, <2>6, <2>7 DEF Next, Progress
<1> QED
  BY <1>1, <1>2, TypeCorrect, LeaseCorrect, CoverCorrect, PermitBoundCorrect, PTL DEF Spec

-----------------------------------------------------------------------------
(***************************************************************************)
(* The leases.  A permit whose holder has a lease backs a supervisor that  *)
(* is out of the pool, and it does so alone; who uses a supervisor has not *)
(* lost its permit.  So the permits bound the leases.                      *)
(***************************************************************************)
AloneInv ==
    \A p, q \in permits : lease[p] = lease[q] /\ lease[p] # NoSupervisor => p = q

PoolInv == TypeOK /\ LeaseInv /\ SpoilInv /\ CoverInv /\ NoLostPermit /\ AloneInv

\* What a permit with a lease says of the supervisor.
LEMMA PermitBacks ==
    ASSUME TypeOK, LeaseInv, NoLostPermit, NEW p \in permits, lease[p] # NoSupervisor
    PROVE  /\ status[lease[p]] \in {"acquired", "destroying"}
           /\ status[lease[p]] = "acquired" => Uses(p)
<1>1. p \in Requests
  BY DEF TypeOK
<1>2. pc[p] # "lookup"
  BY <1>1 DEF LeaseInv
<1> QED
  BY <1>1, <1>2 DEF NoLostPermit, LeaseInv, Uses

\* A request uses its supervisor under its own permit.
LEMMA UserHasPermit ==
    ASSUME TypeOK, LeaseInv, CoverInv, NoLostPermit, NEW q \in Requests, Uses(q)
    PROVE  q \in permits
<1>1. lease[q] # NoSupervisor /\ lease[q] \in Requests /\ status[lease[q]] = "acquired"
  BY DEF TypeOK, LeaseInv, Uses
<1>2. PICK p \in permits : lease[p] = lease[q]
  BY <1>1 DEF CoverInv
<1>3. p \in Requests /\ Uses(p)
  BY <1>1, <1>2, PermitBacks DEF TypeOK
<1> QED
  BY <1>2, <1>3 DEF LeaseInv

\* A supervisor is leased only while no permit backs it.
LEMMA AloneCorrect == Spec => []AloneInv
<1>1. Init => AloneInv
  BY DEF Init, AloneInv
<1>2. TypeOK /\ LeaseInv /\ NoLostPermit /\ AloneInv /\ [Next]_vars => AloneInv'
  <2> SUFFICES ASSUME TypeOK, LeaseInv, NoLostPermit, AloneInv, [Next]_vars PROVE AloneInv'
    OBVIOUS
  <2> USE DEF AloneInv
  <2>1. ASSUME permits' \subseteq permits, UNCHANGED lease PROVE AloneInv'
    BY <2>1
  <2>2. ASSUME NEW q \in Requests, TakePermit(q) PROVE AloneInv'
    <3>1. lease[q] = NoSupervisor
      BY <2>2 DEF TakePermit, LeaseInv
    <3> QED
      BY <2>2, <3>1 DEF TakePermit
  <2>3. ASSUME NEW q \in Requests, NEW s \in Requests, status[s] \in {"idle", "built"},
               lease' = [lease EXCEPT ![q] = s], UNCHANGED permits
        PROVE AloneInv'
    <3>1. \A p \in permits : lease[p] # s
      BY <2>3, PermitBacks, PoolAssumption
    <3> QED
      BY <2>3, <3>1 DEF TypeOK
  <2>4. ASSUME NEW q \in Requests, Lookup(q) PROVE AloneInv'
    BY <2>1, <2>3, <2>4 DEF Lookup, Idle
  <2>5. ASSUME NEW q \in Requests, HandOver(q) PROVE AloneInv'
    BY <2>3, <2>5 DEF HandOver
  <2>6. ASSUME NEW q \in Requests,
               EndContext(q) \/ Acquire(q) \/ Construct(q) \/ Abandon(q) \/ Refuse(q)
                 \/ SendToSupervisor(q)
        PROVE AloneInv'
    BY <2>1, <2>6 DEF EndContext, Acquire, Construct, Abandon, GiveBack, Refuse, SendToSupervisor
  <2>7. ASSUME NEW q \in Requests, Dispose(q) \/ WorkerReleased(q) \/ Destruct(q)
        PROVE AloneInv'
    BY <2>1, <2>7 DEF Dispose, WorkerReleased, DestroyOrRelease, Destroy, Release, GiveBack,
                      Destruct
  <2>8. CASE Shutdown \/ ShutdownReturns \/ UNCHANGED vars
    BY <2>1, <2>8 DEF Shutdown, ShutdownReturns, vars
  <2> QED
    BY <2>2, <2>4, <2>5, <2>6, <2>7, <2>8 DEF Next, Progress
<1> QED
  BY <1>1, <1>2, TypeCorrect, LeaseCorrect, PermitsKept, PTL DEF Spec

\* The leases are those of the permits with a supervisor in use or destruction.
Held == {q \in Requests : pc[q] \in {"send", "answered"} /\ q \in permits}

\* They are what WorkerLeases sees as leased.
LEMMA HeldLeased == TypeOK => Leases!Leased = Held
<1>1. ASSUME TypeOK, NEW q \in Requests
      PROVE  Phase(q) = "leased" <=> pc[q] \in {"send", "answered"} /\ q \in permits
  BY <1>1 DEF Phase, TypeOK
<1> QED
  BY <1>1 DEF Leases!Leased, Held

\* The request q, which has a permit and no lease, finds fewer than MaxWorkers.
LEMMA FewerHeld ==
    ASSUME TypeOK, PermitsBounded, NEW q \in permits, q \notin Held
    PROVE  Cardinality(Leases!Leased) < MaxWorkers
<1>1. IsFiniteSet(permits) /\ Cardinality(permits) \in Nat
  BY PoolAssumption, FS_Subset, FS_CardinalityType DEF TypeOK
<1>2. IsFiniteSet(permits \ {q}) /\ Cardinality(permits \ {q}) = Cardinality(permits) - 1
  BY <1>1, FS_RemoveElement
<1>3. IsFiniteSet(Held) /\ Cardinality(Held) <= Cardinality(permits \ {q})
  BY <1>2, FS_Subset DEF Held
<1>4. Cardinality(Held) \in Nat
  BY <1>3, FS_CardinalityType
<1> QED
  BY <1>1, <1>2, <1>3, <1>4, HeldLeased, PoolAssumption DEF PermitsBounded

\* WorkerLeases has the operator from the same module.
LEMMA SameCardinality == Leases!Cardinality(Leases!Leased) = Cardinality(Leases!Leased)
BY DEF Leases!Cardinality, Cardinality

\* What the other requests have to do with a step of q: nothing.
LEMMA PhaseStep ==
    ASSUME NEW q \in Requests, \A p \in Requests \ {q} : Phase(p)' = Phase(p)
    PROVE  [p \in Requests |-> Phase(p)]'
             = [[p \in Requests |-> Phase(p)] EXCEPT ![q] = Phase(q)']
OBVIOUS

\* Most steps are invisible: those that change no phase, lease or outcome.
LEMMA Stutter ==
    ASSUME \A p \in Requests : Phase(p)' = Phase(p),
           UNCHANGED <<lease, outcome>>,
           {p \in Requests : pc[p] = "answered"}' = {p \in Requests : pc[p] = "answered"},
           (shutdown = "closed")' = (shutdown = "closed")
    PROVE  UNCHANGED Leases!leaseVars
BY DEF Leases!leaseVars, Spoiled

\* The pool implements the leases: all that can be seen of permits,
\* constructors, disposals and destructors is what WorkerLeases allows.
THEOREM LeasesImplemented == Spec => ImplementsLeases
<1>1. Init => Leases!Init
  BY PoolAssumption DEF Init, Leases!Init, Phase, Spoiled
<1>2. PoolInv /\ PermitsBounded /\ ShutdownWaits /\ [Next]_vars => [Leases!Next]_(Leases!leaseVars)
  <2> SUFFICES ASSUME PoolInv, PermitsBounded, ShutdownWaits, [Next]_vars
               PROVE  Leases!Next \/ UNCHANGED Leases!leaseVars
    OBVIOUS
  <2> USE PoolAssumption DEF PoolInv
  <2>1. ASSUME NEW q \in Requests, EndContext(q) \/ TakePermit(q) \/ Construct(q) \/ Abandon(q)
        PROVE  UNCHANGED Leases!leaseVars
    <3>1. \A p \in Requests : Phase(p)' = Phase(p)
      BY <2>1 DEF EndContext, TakePermit, Construct, Abandon, GiveBack, Phase, TypeOK,
                  LeaseInv, CoverInv
    <3> QED
      BY <2>1, <3>1, Stutter DEF EndContext, TakePermit, Construct, Abandon, TypeOK
  <2>2. ASSUME NEW q \in Requests, Acquire(q)
        PROVE  Leases!Next
    <3>1. CASE pc'[q] = "permit"
      <4>1. Leases!Ask(q)
        BY <2>2, <3>1, PhaseStep DEF Acquire, Leases!Ask, Phase, TypeOK, Spoiled
      <4> QED
        BY <4>1 DEF Leases!Next
    <3>2. CASE pc'[q] = "refused"
      <4>1. Leases!Refuse(q)
        BY <2>2, <3>2, PhaseStep DEF Acquire, Leases!Refuse, Phase, TypeOK, Spoiled
      <4> QED
        BY <4>1 DEF Leases!Next
    <3> QED
      BY <2>2, <3>1, <3>2 DEF Acquire, TypeOK
  <2>3. ASSUME NEW q \in Requests, Refuse(q)
        PROVE  Leases!Next
    <3>1. Leases!Refuse(q)
      BY <2>3, PhaseStep DEF Refuse, Leases!Refuse, Phase, TypeOK, Spoiled
    <3> QED
      BY <3>1 DEF Leases!Next
  <2>4. ASSUME NEW q \in permits, NEW s \in Requests, status[s] \in {"idle", "built"},
               pc[q] \in {"lookup", "construct"}, shutdown # "closed",
               pc' = [pc EXCEPT ![q] = "send"], lease' = [lease EXCEPT ![q] = s],
               UNCHANGED <<permits, outcome, shutdown>>
        PROVE  Leases!Next
    <3>1. q \in Requests /\ q \notin Held
      BY <2>4 DEF TypeOK, Held
    <3>2. Cardinality(Leases!Leased) < MaxWorkers
      BY <3>1, FewerHeld
    <3>3. \A p \in Held : lease[p] # s
      BY <2>4, PermitBacks DEF Held
    <3>4. ~Spoiled(s)
      BY <2>4 DEF Spoiled, SpoilInv, LeaseInv, Bad
    <3>5. outcome[q] = "none" /\ lease[q] = NoSupervisor
      BY <2>4, <3>1 DEF TypeOK, LeaseInv
    <3>6. \A t \in Requests : Spoiled(t)' = Spoiled(t)
      BY <2>4, <3>1, <3>5 DEF Spoiled, TypeOK
    <3>7. /\ [p \in Requests |-> Phase(p)]'
               = [[p \in Requests |-> Phase(p)] EXCEPT ![q] = "leased"]
          /\ Phase(q) = "waiting"
      <4>1. \A p \in Requests \ {q} : pc'[p] = pc[p]
        BY <2>4, <3>1 DEF TypeOK
      <4>2. \A p \in Requests \ {q} : Phase(p)' = Phase(p)
        BY <2>4, <4>1 DEF Phase
      <4>3. pc'[q] = "send"
        BY <2>4, <3>1 DEF TypeOK
      <4>4. Phase(q)' = "leased" /\ Phase(q) = "waiting"
        BY <2>4, <4>3 DEF Phase
      <4> QED
        BY <3>1, <4>2, <4>4, PhaseStep
    <3>8. {p \in Requests : pc[p] = "answered"}' = {p \in Requests : pc[p] = "answered"}
      BY <2>4, <3>1 DEF TypeOK
    <3>9. Leases!Grant(q, s)
      BY <2>4, <3>1, <3>2, <3>3, <3>4, <3>6, <3>7, <3>8, HeldLeased, SameCardinality DEF Leases!Grant
    <3> QED
      BY <3>1, <3>9 DEF Leases!Next
  <2>5. ASSUME NEW q \in Requests, Lookup(q)
        PROVE  Leases!Next \/ UNCHANGED Leases!leaseVars
    <3>1. CASE Closed
      <4>1. Leases!Refuse(q)
        BY <2>5, <3>1, PhaseStep DEF Lookup, Leases!Refuse, Phase, TypeOK, Spoiled
      <4> QED
        BY <4>1 DEF Leases!Next
    <3>2. CASE ~Closed /\ pc'[q] = "send"
      <4>1. q \in permits /\ shutdown # "closed"
        BY <2>5, <3>2 DEF Lookup, CoverInv, Closed
      <4>2. PICK s \in Idle : lease' = [lease EXCEPT ![q] = s] /\ pc' = [pc EXCEPT ![q] = "send"]
        BY <2>5, <3>2 DEF Lookup, TypeOK
      <4> QED
        BY <2>4, <2>5, <3>2, <4>1, <4>2 DEF Lookup, Idle, TypeOK
    <3>3. CASE ~Closed /\ pc'[q] = "construct"
      <4>1. \A p \in Requests : Phase(p)' = Phase(p)
        BY <2>5, <3>3 DEF Lookup, Phase, TypeOK
      <4> QED
        BY <2>5, <3>3, <4>1, Stutter DEF Lookup, TypeOK
    <3> QED
      BY <2>5, <3>1, <3>2, <3>3 DEF Lookup, TypeOK
  <2>6. ASSUME NEW q \in Requests, HandOver(q)
        PROVE  Leases!Next
    <3>1. q \in permits /\ shutdown # "closed"
      BY <2>6 DEF HandOver, CoverInv, ShutdownWaits
    <3> QED
      BY <2>4, <2>6, <3>1 DEF HandOver
  <2>7. ASSUME NEW q \in Requests, SendToSupervisor(q)
        PROVE  Leases!Next
    <3>1. q \in permits /\ lease[q] \in Requests
      BY <2>7, UserHasPermit DEF SendToSupervisor, Uses, TypeOK, LeaseInv
    <3>2. Leases!Answer(q)
      <4>1. q \in Held /\ pc[q] # "answered"
        BY <2>7, <3>1 DEF SendToSupervisor, Held
      <4>2. \A p \in Requests : Phase(p)' = Phase(p)
        BY <2>7, <3>1 DEF SendToSupervisor, Phase, TypeOK
      <4>3. {p \in Requests : pc[p] = "answered"}'
              = {p \in Requests : pc[p] = "answered"} \cup {q}
        BY <2>7 DEF SendToSupervisor, TypeOK
      <4>4. outcome[q] = "none"
        BY <2>7 DEF SendToSupervisor, LeaseInv
      <4>5. \A t \in Requests : t # lease[q] => Spoiled(t)' = Spoiled(t)
        BY <2>7 DEF SendToSupervisor, Spoiled, TypeOK
      <4>6. Spoiled(lease[q]) => Spoiled(lease[q])'
        BY <2>7, <4>4 DEF SendToSupervisor, Spoiled, TypeOK
      <4>7. {t \in Requests : Spoiled(t)}'
              \in {{t \in Requests : Spoiled(t)}, {t \in Requests : Spoiled(t)} \cup {lease[q]}}
        BY <2>7, <3>1, <4>5, <4>6 DEF SendToSupervisor
      <4> QED
        BY <2>7, <4>1, <4>2, <4>3, <4>7, HeldLeased DEF SendToSupervisor, Leases!Answer
    <3> QED
      BY <3>2 DEF Leases!Next
  <2>8. ASSUME NEW q \in Requests, Dispose(q)
        PROVE  UNCHANGED Leases!leaseVars
    <3>1. UNCHANGED <<pc, permits, lease, outcome, shutdown>>
      BY <2>8 DEF Dispose, DestroyOrRelease, Destroy
    <3> QED
      BY <3>1, Stutter DEF Phase
  <2>9. ASSUME NEW q \in Requests, q \in permits, pc[q] = "answered",
               permits' = permits \ {q}, UNCHANGED <<pc, lease, outcome, shutdown>>
        PROVE  Leases!Next
    <3>1. Leases!Return(q)
      BY <2>9, PhaseStep, HeldLeased DEF Leases!Return, Phase, Spoiled, Held
    <3> QED
      BY <3>1 DEF Leases!Next
  <2>10. ASSUME NEW q \in Requests, WorkerReleased(q)
         PROVE  Leases!Next \/ UNCHANGED Leases!leaseVars
    <3>1. q \in permits /\ pc[q] = "answered" /\ lease[q] \in Requests
      BY <2>10, UserHasPermit DEF WorkerReleased, Uses, TypeOK, LeaseInv
    <3>2. CASE Release(q) /\ UNCHANGED outcome
      BY <2>9, <2>10, <3>1, <3>2 DEF WorkerReleased, Release, GiveBack
    <3>3. CASE Destroy(q) /\ UNCHANGED outcome
      BY <2>10, <3>3, Stutter DEF WorkerReleased, Destroy, Phase
    <3>4. CASE Destroy(q) /\ outcome' = [outcome EXCEPT ![q] = "unreleased"]
      <4>1. {t \in Requests : Spoiled(t)}' = {t \in Requests : Spoiled(t)} \cup {lease[q]}
        BY <2>10, <3>1, <3>4 DEF WorkerReleased, Spoiled, TypeOK
      <4>2. \A p \in Requests : Phase(p)' = Phase(p)
        BY <2>10, <3>4 DEF WorkerReleased, Destroy, Phase
      <4>3. Leases!Spoil(q)
        BY <2>10, <3>1, <3>4, <4>1, <4>2, HeldLeased DEF WorkerReleased, Leases!Spoil, Held
      <4> QED
        BY <4>3 DEF Leases!Next
    <3> QED
      BY <2>10, <3>2, <3>3, <3>4 DEF WorkerReleased, DestroyOrRelease
  <2>11. ASSUME NEW s \in Requests, Destruct(s)
         PROVE  Leases!Next \/ UNCHANGED Leases!leaseVars
    <3>1. CASE \E q \in permits : lease[q] = s
      <4>1. PICK q \in permits : lease[q] = s
        BY <3>1
      <4>2. q \in Requests /\ permits' = permits \ {q}
        BY <2>11, <4>1 DEF Destruct, TypeOK, AloneInv
      <4>3. pc[q] = "answered"
        BY <2>11, <4>1, <4>2 DEF Destruct, TypeOK, LeaseInv, Uses
      <4> QED
        BY <2>9, <2>11, <4>2, <4>3 DEF Destruct
    <3>2. CASE ~ \E q \in permits : lease[q] = s
      <4>1. UNCHANGED <<pc, permits, lease, outcome, shutdown>>
        BY <2>11, <3>2 DEF Destruct
      <4> QED
        BY <4>1, Stutter DEF Phase
    <3> QED
      BY <3>1, <3>2
  <2>12. CASE Shutdown
    BY <2>12, Stutter DEF Shutdown, Phase
  <2>13. CASE ShutdownReturns
    <3>1. Leases!Leased = {}
      BY <2>13, PermitBacks, HeldLeased DEF ShutdownReturns, Held, LeaseInv, TypeOK
    <3>2. Leases!Close
      BY <2>13, <3>1 DEF ShutdownReturns, Leases!Close, Phase, Spoiled
    <3> QED
      BY <3>2 DEF Leases!Next
  <2>14. CASE UNCHANGED vars
    BY <2>14, Stutter DEF vars, Phase
  <2> QED
    BY <2>1, <2>2, <2>3, <2>5, <2>6, <2>7, <2>8, <2>10, <2>11, <2>12, <2>13, <2>14
       DEF Next, Progress
<1> QED
  BY <1>1, <1>2, TypeCorrect, LeaseCorrect, SpoilCorrect, CoverCorrect, PermitsKept, AloneCorrect,
     PermitBoundCorrect, ShutdownComplete, PTL
  DEF Spec, ImplementsLeases, Leases!Spec, PoolInv
=============================================================================
