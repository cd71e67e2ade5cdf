------------------------ MODULE WasmDispatcherProofs ------------------------
(***************************************************************************)
(* Proofs about WasmDispatcher for every set of requests and every size of *)
(* the pool.  PlaceInv says that instances are not shared; CleanInv, on    *)
(* top of it, that the restore reaches an instance before it is put back;  *)
(* CloseInv what Shutdown works on; ConserveInv that no instance is lost.  *)
(***************************************************************************)
EXTENDS WasmDispatcher, SequenceTheorems, FiniteSetTheorems, TLAPS

\* TypeOK, which is inductive only together with what using stands for.
TypeInv ==
    /\ TypeOK
    /\ \A q \in Requests : pc[q] \in Busy => using[q] \in Instances

\* The channel holds instance i.
InPool(i) == \E n \in DOMAIN pool : pool[n] = i

\* An instance is in the pool once, or out with one request, or drained.
PlaceInv ==
    /\ phase # "serving" => \A q \in Requests : pc[q] = "new"
    /\ \A q \in Requests : using[q] # NoInstance <=> pc[q] \in Busy
    /\ \A p, q \in Requests : using[p] = using[q] /\ using[p] # NoInstance => p = q
    /\ \A m, n \in DOMAIN pool : pool[m] = pool[n] => m = n
    /\ \A q \in Requests : ~InPool(using[q])

\* No instance that waits for a request carries a trace of an earlier one in
\* the memory of the snapshot.
CleanInv ==
    /\ phase # "serving" => \A i \in Instances : residue[i] = {}
    /\ \A i \in Instances : InPool(i) => "snapshot" \notin residue[i]
    /\ \A q \in Requests :
        pc[q] \in {"alloc", "return"} => "snapshot" \notin residue[using[q]]

-----------------------------------------------------------------------------
\* What is in the pool after a receive, and after a send.
LEMMA Receive ==
    ASSUME NEW s \in Seq(Instances), s # <<>>
    PROVE  /\ Head(s) \in Instances
           /\ Tail(s) \in Seq(Instances)
           /\ Head(s) = s[1] /\ 1 \in DOMAIN s
           /\ \A n \in DOMAIN Tail(s) : n + 1 \in DOMAIN s /\ Tail(s)[n] = s[n + 1] /\ n \in Nat \ {0}
<1>1. Len(s) \in Nat /\ Len(s) > 0
  BY LenProperties, EmptySeq
<1> QED
  BY <1>1, HeadTailProperties, LenProperties, ElementOfSeq

\* Appending puts one element behind the others.
LEMMA Put ==
    ASSUME NEW s \in Seq(Instances), NEW i \in Instances
    PROVE  /\ Append(s, i) \in Seq(Instances)
           /\ \A n \in DOMAIN Append(s, i) :
                \/ n \in DOMAIN s /\ Append(s, i)[n] = s[n]
                \/ n = Len(s) + 1 /\ Append(s, i)[n] = i
           /\ \A n \in DOMAIN s : n \in 1 .. Len(s)
BY AppendProperties, LenProperties

-----------------------------------------------------------------------------
\* A receive takes the first instance out, if it is there once.
LEMMA TailElements ==
    ASSUME NEW s \in Seq(Instances), s # <<>>, NEW i,
           \A m, n \in DOMAIN s : s[m] = s[n] => m = n
    PROVE  (\E n \in DOMAIN Tail(s) : Tail(s)[n] = i) <=> (\E n \in DOMAIN s : s[n] = i) /\ i # s[1]
<1>1. /\ Len(s) \in Nat \ {0} /\ DOMAIN s = 1 .. Len(s)
      /\ DOMAIN Tail(s) = 1 .. (Len(s) - 1)
      /\ \A n \in DOMAIN Tail(s) : Tail(s)[n] = s[n + 1]
  BY HeadTailProperties, LenProperties, EmptySeq
<1>2. ASSUME NEW n \in DOMAIN s, s[n] = i, i # s[1]
      PROVE \E k \in DOMAIN Tail(s) : Tail(s)[k] = i
  <2>1. n - 1 \in DOMAIN Tail(s) /\ (n - 1) + 1 = n
    BY <1>1, <1>2
  <2> QED
    BY <1>1, <1>2, <2>1
<1>3. ASSUME NEW n \in DOMAIN Tail(s), Tail(s)[n] = i
      PROVE (\E k \in DOMAIN s : s[k] = i) /\ i # s[1]
  <2>1. n + 1 \in DOMAIN s /\ n + 1 # 1 /\ 1 \in DOMAIN s /\ s[n + 1] = i
    BY <1>1, <1>3
  <2> QED
    BY <2>1
<1> QED
  BY <1>2, <1>3

\* A send adds the instance sent.
LEMMA AppendElements ==
    ASSUME NEW s \in Seq(Instances), NEW e \in Instances, NEW i
    PROVE  (\E n \in DOMAIN Append(s, e) : Append(s, e)[n] = i)
             <=> (\E n \in DOMAIN s : s[n] = i) \/ i = e
<1>1. /\ Len(s) \in Nat /\ DOMAIN s = 1 .. Len(s)
      /\ DOMAIN Append(s, e) = 1 .. (Len(s) + 1)
      /\ \A n \in 1 .. Len(s) : Append(s, e)[n] = s[n]
      /\ Append(s, e)[Len(s) + 1] = e
  BY AppendProperties, LenProperties
<1> QED
  BY <1>1

\* A set with one element at most has the cardinality 0 or 1.
LEMMA AtMostOne ==
    ASSUME NEW S, NEW f, NEW v, \A x, y \in S : f[x] = v /\ f[y] = v => x = y
    PROVE  Cardinality({x \in S : f[x] = v}) = IF \E x \in S : f[x] = v THEN 1 ELSE 0
<1>1. CASE \E x \in S : f[x] = v
  <2>1. PICK x \in S : f[x] = v
    BY <1>1
  <2>2. {y \in S : f[y] = v} = {x}
    BY <2>1
  <2> QED
    BY <1>1, <2>2, FS_Singleton
<1>2. CASE ~\E x \in S : f[x] = v
  <2>1. {x \in S : f[x] = v} = {}
    BY <1>2
  <2> QED
    BY <1>2, <2>1, FS_EmptySet
<1> QED
  BY <1>1, <1>2

\* The pool that a Start has filled.
LEMMA NewPool ==
    ASSUME NEW g \in {1, 2}
    PROVE  [n \in 1 .. MaxInstances |-> <<g, n>>] \in Seq(Instances)
BY WasmAssumption, IsASeq DEF Instances

\* Guest code leaves a state that is again one of an instance.
LEMMA GuestType ==
    ASSUME residue \in [Instances -> SUBSET Parts], NEW i \in Instances, GuestRuns(i)
    PROVE  residue' \in [Instances -> SUBSET Parts]
<1> PICK touched \in SUBSET Parts : residue' = [residue EXCEPT ![i] = @ \cup touched]
  BY DEF GuestRuns
<1>1. residue[i] \cup touched \in SUBSET Parts
  OBVIOUS
<1> QED
  BY <1>1

\* Every variable keeps its type, and a request that uses an instance has one.
LEMMA TypeInvCorrect == Spec => []TypeInv
<1>1. Init => TypeInv
  <2> SUFFICES ASSUME Init PROVE TypeInv
    OBVIOUS
  <2>1. pool \in Seq(Instances)
    BY EmptySeq DEF Init
  <2> QED
    BY <2>1 DEF Init, TypeInv, TypeOK, Busy
<1>2. TypeInv /\ [Next]_vars => TypeInv'
  <2> SUFFICES ASSUME TypeInv, [Next]_vars PROVE TypeInv'
    OBVIOUS
  <2> USE WasmAssumption DEF TypeInv, TypeOK, Busy, hostVars, requestVars
  <2>1. ASSUME NEW g \in {1, 2}, NEW next \in {"made", "serving"}, StartGeneration(g, next)
        PROVE TypeInv'
    <3>1. [n \in 1 .. MaxInstances |-> <<g, n>>] \in Seq(Instances)
      BY NewPool
    <3>2. <<>> \in Seq(Instances)
      BY EmptySeq
    <3>3. Of(g) \subseteq Instances
      BY DEF Of
    <3>4. UNCHANGED <<requestVars, residue, shutdown>>
      BY <2>1 DEF StartGeneration
    <3>5. phase' \in {"made", "serving", "failed"} /\ current' \in 0 .. 2
      BY <2>1 DEF StartGeneration
    <3>6. pool' \in Seq(Instances)
      BY <2>1, <3>1, <3>2 DEF StartGeneration
    <3>7. ASSUME NEW is \in SUBSET Instances, Instantiate(is) \/ ShutDown(is)
          PROVE module' \in [Instances -> {"none", "live", "closed"}]
      BY <3>7 DEF Instantiate, ShutDown
    <3>8. \A n \in 1 .. MaxInstances : {i \in Of(g) : i[2] < n} \subseteq Instances
      BY <3>3
    <3>9. /\ module' \in [Instances -> {"none", "live", "closed"}]
          /\ drained' \in SUBSET Instances
      <4>1. CASE Instantiate(Of(g)) /\ UNCHANGED drained
        BY <3>3, <3>7, <4>1
      <4>2. CASE UNCHANGED <<module, drained>>
        BY <4>2
      <4>3. ASSUME NEW n \in 1 .. MaxInstances, ShutDown({i \in Of(g) : i[2] < n})
            PROVE /\ module' \in [Instances -> {"none", "live", "closed"}]
                  /\ drained' \in SUBSET Instances
        BY <3>7, <3>8, <4>3 DEF ShutDown
      <4> QED
        BY <2>1, <4>1, <4>2, <4>3 DEF StartGeneration
    <3> QED
      BY <3>4, <3>5, <3>6, <3>9
  <2>2. ASSUME NEW q \in Requests, Send(q) \/ Refuse(q) PROVE TypeInv'
    BY <2>2 DEF Send, Refuse
  <2>3. ASSUME NEW q \in Requests, Acquire(q) PROVE TypeInv'
    BY <2>3, Receive DEF Acquire
  <2>4. ASSUME NEW q \in Requests, Alloc(q) PROVE TypeInv'
    <3>1. residue' \in [Instances -> SUBSET Parts]
      BY <2>4, GuestType DEF Alloc
    <3>2. module' \in [Instances -> {"none", "live", "closed"}]
      BY <2>4 DEF Alloc, Fails
    <3>3. /\ pc' \in [Requests -> Busy \cup {"new", "acquire", "answered", "refused"}]
          /\ outcome' \in [Requests -> {"none", "ok", "error"}]
      BY <2>4 DEF Alloc, Fails
    <3>4. UNCHANGED <<hostVars, using, pool>>
      BY <2>4 DEF Alloc
    <3>5. \A p \in Requests : pc'[p] \in Busy => pc[p] \in Busy
      BY <2>4 DEF Alloc, Fails
    <3> QED
      BY <3>1, <3>2, <3>3, <3>4, <3>5
  <2>5. ASSUME NEW q \in Requests, Evaluate(q) PROVE TypeInv'
    <3>1. residue' \in [Instances -> SUBSET Parts]
      BY <2>5, GuestType DEF Evaluate
    <3>2. module' \in [Instances -> {"none", "live", "closed"}]
      BY <2>5 DEF Evaluate, Fails
    <3>3. /\ pc' \in [Requests -> Busy \cup {"new", "acquire", "answered", "refused"}]
          /\ outcome' \in [Requests -> {"none", "ok", "error"}]
      BY <2>5 DEF Evaluate, Fails
    <3>4. UNCHANGED <<hostVars, using, pool>>
      BY <2>5 DEF Evaluate
    <3>5. \A p \in Requests : pc'[p] \in Busy => pc[p] \in Busy
      BY <2>5 DEF Evaluate, Fails
    <3> QED
      BY <3>1, <3>2, <3>3, <3>4, <3>5
  <2>6. ASSUME NEW q \in Requests, RestoreSnapshot(q) PROVE TypeInv'
    BY <2>6 DEF RestoreSnapshot
  <2>7. ASSUME NEW q \in Requests, Return(q) PROVE TypeInv'
    <3>1. pool' \in Seq(Instances)
      BY <2>7, Put DEF Return
    <3>2. pc' \in [Requests -> Busy \cup {"new", "acquire", "answered", "refused"}]
      BY <2>7 DEF Return
    <3> QED
      BY <2>7, <3>1, <3>2 DEF Return
  <2>8. CASE DrainPool
    <3>1. CASE pool # <<>> /\ pool' = Tail(pool) /\ ShutDown({Head(pool)}) /\ UNCHANGED shutdown
      BY <2>8, <3>1, Receive DEF DrainPool, ShutDown
    <3>2. CASE shutdown' = "close" /\ UNCHANGED <<pool, drained, module>>
      BY <2>8, <3>2 DEF DrainPool
    <3> QED
      BY <2>8, <3>1, <3>2 DEF DrainPool
  <2>9. CASE Shutdown \/ CloseRuntime \/ UNCHANGED vars
    BY <2>9 DEF Shutdown, CloseRuntime, vars
  <2> QED
    BY <2>1, <2>2, <2>3, <2>4, <2>5, <2>6, <2>7, <2>8, <2>9
    DEF Next, NewDispatcher, OnStart, Step
<1> QED
  BY <1>1, <1>2, PTL DEF Spec

\* Every variable keeps its type, those of the replaced generation included.
THEOREM TypeCorrect == Spec => []TypeOK
<1>1. TypeInv => TypeOK
  BY DEF TypeInv
<1> QED
  BY <1>1, TypeInvCorrect, PTL

-----------------------------------------------------------------------------
\* PlaceInv is inductive.
LEMMA PlaceCorrect == Spec => []PlaceInv
<1>1. Init => PlaceInv
  BY WasmAssumption DEF Init, PlaceInv, InPool, Busy
<1>2. TypeInv /\ PlaceInv /\ [Next]_vars => PlaceInv'
  <2> SUFFICES ASSUME TypeInv, PlaceInv, [Next]_vars PROVE PlaceInv'
    OBVIOUS
  <2> USE WasmAssumption DEF TypeInv, TypeOK, Busy, hostVars, requestVars, PlaceInv, InPool
  <2>1. ASSUME NEW g \in {1, 2}, NEW next \in {"made", "serving"}, phase # "serving",
               StartGeneration(g, next)
        PROVE PlaceInv'
    <3>1. \A q \in Requests : pc'[q] = "new" /\ using'[q] = NoInstance
      BY <2>1 DEF StartGeneration
    <3>2. NoInstance \notin Instances
      BY DEF Instances
    <3>3. pool' \in Seq(Instances) /\ \A m, n \in DOMAIN pool' : pool'[m] = pool'[n] => m = n
      <4>1. CASE pool' = [n \in 1 .. MaxInstances |-> <<g, n>>]
        BY <4>1, NewPool
      <4>2. CASE UNCHANGED pool
        BY <4>2
      <4>3. CASE pool' = <<>>
        BY <4>3, EmptySeq
      <4> QED
        BY <2>1, <4>1, <4>2, <4>3 DEF StartGeneration
    <3>4. \A n \in DOMAIN pool' : pool'[n] \in Instances
      BY <3>3, LenProperties, ElementOfSeq
    <3> QED
      BY <3>1, <3>2, <3>3, <3>4
  <2>2. ASSUME NEW q \in Requests, Send(q) \/ Refuse(q) PROVE PlaceInv'
    BY <2>2 DEF Send, Refuse
  <2>3. ASSUME NEW q \in Requests, Acquire(q) PROVE PlaceInv'
    <3>1. /\ Head(pool) \in Instances /\ Head(pool) = pool[1] /\ 1 \in DOMAIN pool
          /\ \A n \in DOMAIN Tail(pool) :
                n + 1 \in DOMAIN pool /\ Tail(pool)[n] = pool[n + 1] /\ n \in Nat \ {0}
      BY <2>3, Receive DEF Acquire
    <3>2. Head(pool) # NoInstance
      BY <3>1 DEF Instances
    <3>3. \A m, n \in DOMAIN pool' : pool'[m] = pool'[n] => m = n
      BY <2>3, <3>1 DEF Acquire
    <3>4. \A n \in DOMAIN pool' : pool'[n] # pool[1] /\ \E k \in DOMAIN pool : pool'[n] = pool[k]
      BY <2>3, <3>1 DEF Acquire
    <3> QED
      BY <2>3, <3>1, <3>2, <3>3, <3>4 DEF Acquire
  <2>4. ASSUME NEW q \in Requests, Alloc(q) \/ Evaluate(q) \/ RestoreSnapshot(q)
        PROVE PlaceInv'
    BY <2>4 DEF Alloc, Evaluate, RestoreSnapshot, Fails
  <2>5. ASSUME NEW q \in Requests, Return(q) PROVE PlaceInv'
    <3>1. \A n \in DOMAIN pool' :
            \/ n \in DOMAIN pool /\ pool'[n] = pool[n]
            \/ n = Len(pool) + 1 /\ pool'[n] = using[q]
      BY <2>5, Put DEF Return
    <3>2. \A m, n \in DOMAIN pool' : pool'[m] = pool'[n] => m = n
      BY <2>5, <3>1 DEF Return
    <3>3. NoInstance \notin Instances
      BY DEF Instances
    <3>4. \A n \in DOMAIN pool : pool[n] \in Instances
      BY LenProperties, ElementOfSeq
    <3> QED
      BY <2>5, <3>1, <3>2, <3>3, <3>4 DEF Return
  <2>6. CASE DrainPool
    <3>1. CASE pool # <<>> /\ pool' = Tail(pool)
      <4>1. \A n \in DOMAIN Tail(pool) :
              n + 1 \in DOMAIN pool /\ Tail(pool)[n] = pool[n + 1] /\ n \in Nat \ {0}
        BY <3>1, Receive
      <4> QED
        BY <2>6, <3>1, <4>1 DEF DrainPool
    <3>2. CASE UNCHANGED pool
      BY <2>6, <3>2 DEF DrainPool
    <3> QED
      BY <2>6, <3>1, <3>2 DEF DrainPool
  <2>7. CASE Shutdown \/ CloseRuntime \/ UNCHANGED vars
    BY <2>7 DEF Shutdown, CloseRuntime, vars
  <2> QED
    BY <2>1, <2>2, <2>3, <2>4, <2>5, <2>6, <2>7 DEF Next, NewDispatcher, OnStart, Step
<1> QED
  BY <1>1, <1>2, TypeInvCorrect, PTL DEF Spec

-----------------------------------------------------------------------------
\* CleanInv is inductive: requests keep their hands off the instances of
\* others, and the restore comes before the return.
LEMMA CleanCorrect == Spec => []CleanInv
<1>1. Init => CleanInv
  BY DEF Init, CleanInv
<1>2. TypeInv /\ PlaceInv /\ CleanInv /\ [Next]_vars => CleanInv'
  <2> SUFFICES ASSUME TypeInv, PlaceInv, CleanInv, [Next]_vars PROVE CleanInv'
    OBVIOUS
  <2> USE DEF TypeInv, TypeOK, Busy, hostVars, requestVars, PlaceInv, InPool, CleanInv
  <2>1. ASSUME NEW g \in {1, 2}, NEW next \in {"made", "serving"}, phase # "serving",
               StartGeneration(g, next)
        PROVE CleanInv'
    <3>1. \A i \in Instances : residue'[i] = {}
      BY <2>1 DEF StartGeneration
    <3>2. \A q \in Requests : pc'[q] = "new"
      BY <2>1 DEF StartGeneration
    <3> QED
      BY <3>1, <3>2
  <2>2. ASSUME NEW q \in Requests, Send(q) \/ Refuse(q) PROVE CleanInv'
    BY <2>2 DEF Send, Refuse
  <2>3. ASSUME NEW q \in Requests, Acquire(q) PROVE CleanInv'
    <3>1. /\ Head(pool) \in Instances /\ Head(pool) = pool[1] /\ 1 \in DOMAIN pool
          /\ \A n \in DOMAIN pool' : \E k \in DOMAIN pool : pool'[n] = pool[k]
      BY <2>3, Receive DEF Acquire
    <3>2. UNCHANGED <<phase, residue>> /\ phase = "serving"
      BY <2>3 DEF Acquire
    <3>3. ASSUME NEW p \in Requests, pc'[p] \in {"alloc", "return"}
          PROVE "snapshot" \notin residue'[using'[p]]
      BY <2>3, <3>1, <3>2, <3>3 DEF Acquire
    <3> QED
      BY <3>1, <3>2, <3>3
  <2>4. ASSUME NEW q \in Requests, Alloc(q) \/ Evaluate(q) PROVE CleanInv'
    <3>1. /\ UNCHANGED <<phase, using, pool>> /\ phase = "serving"
          /\ using[q] \in Instances
          /\ pc'[q] \in {"evaluate", "restore"}
          /\ \A p \in Requests : p # q => pc'[p] = pc[p]
      BY <2>4 DEF Alloc, Evaluate, Fails
    <3>2. \A i \in Instances : i # using[q] => residue'[i] = residue[i]
      BY <2>4 DEF Alloc, Evaluate, GuestRuns
    <3>3. \A i \in Instances : InPool(i) => i # using[q]
      OBVIOUS
    <3>4. ASSUME NEW p \in Requests, pc'[p] \in {"alloc", "return"}
          PROVE "snapshot" \notin residue'[using'[p]]
      <4>1. p # q /\ pc[p] = pc'[p] /\ using[p] # NoInstance /\ using[p] \in Instances
        BY <3>1, <3>4
      <4> QED
        BY <3>1, <3>2, <3>4, <4>1
    <3> QED
      BY <3>1, <3>2, <3>3, <3>4
  <2>5. ASSUME NEW q \in Requests, RestoreSnapshot(q) PROVE CleanInv'
    <3>1. /\ using[q] \in Instances /\ phase = "serving" /\ UNCHANGED <<phase, using, pool>>
          /\ \A p \in Requests : p # q => pc'[p] = pc[p]
      BY <2>5 DEF RestoreSnapshot
    <3>2. \A i \in Instances :
            /\ i # using[q] => residue'[i] = residue[i]
            /\ i = using[q] => "snapshot" \notin residue'[i]
      BY <2>5 DEF RestoreSnapshot
    <3> QED
      BY <3>1, <3>2
  <2>6. ASSUME NEW q \in Requests, Return(q) PROVE CleanInv'
    <3>1. /\ using[q] \in Instances /\ phase = "serving" /\ UNCHANGED <<phase, residue>>
          /\ pc[q] = "return" /\ pc' = [pc EXCEPT ![q] = "answered"]
          /\ \A p \in Requests : p # q => using'[p] = using[p]
      BY <2>6 DEF Return
    <3>2. \A n \in DOMAIN pool' : pool'[n] = using[q] \/ InPool(pool'[n])
      BY <2>6, <3>1, Put DEF Return
    <3> QED
      BY <3>1, <3>2
  <2>7. CASE DrainPool
    <3>1. \A n \in DOMAIN pool' : InPool(pool'[n])
      <4>1. CASE pool # <<>> /\ pool' = Tail(pool)
        BY <4>1, Receive
      <4>2. CASE UNCHANGED pool
        BY <4>2
      <4> QED
        BY <2>7, <4>1, <4>2 DEF DrainPool
    <3>2. UNCHANGED <<phase, pc, using, residue>>
      BY <2>7 DEF DrainPool
    <3> QED
      BY <3>1, <3>2
  <2>8. CASE Shutdown \/ CloseRuntime \/ UNCHANGED vars
    BY <2>8 DEF Shutdown, CloseRuntime, vars
  <2> QED
    BY <2>1, <2>2, <2>3, <2>4, <2>5, <2>6, <2>7, <2>8 DEF Next, NewDispatcher, OnStart, Step
<1> QED
  BY <1>1, <1>2, TypeInvCorrect, PlaceCorrect, PTL DEF Spec

\* A request never finds what an earlier one left in the snapshot's memory,
\* whichever of them fails.
THEOREM Restored == Spec => []MemoryRestored
<1>1. CleanInv => MemoryRestored
  BY DEF CleanInv, MemoryRestored
<1> QED
  BY <1>1, CleanCorrect, PTL

-----------------------------------------------------------------------------
\* Shutdown works on the runtime of the second Start, and nothing revives an
\* instance of it.
CloseInv ==
    /\ shutdown # "no" => phase = "serving"
    /\ phase = "serving" /\ shutdown # "done" => current = 2
    /\ ServingInstancesClosed

\* CloseInv is inductive.
LEMMA CloseCorrect == Spec => []CloseInv
<1>1. Init => CloseInv
  BY DEF Init, CloseInv, ServingInstancesClosed
<1>2. TypeInv /\ CloseInv /\ [Next]_vars => CloseInv'
  <2> SUFFICES ASSUME TypeInv, CloseInv, [Next]_vars PROVE CloseInv'
    OBVIOUS
  <2> USE DEF TypeInv, TypeOK, Busy, hostVars, requestVars, CloseInv, ServingInstancesClosed, Of
  <2>1. CASE NewDispatcher \/ OnStart
    <3>1. phase # "serving" /\ UNCHANGED shutdown /\ shutdown = "no"
      BY <2>1 DEF NewDispatcher, OnStart, StartGeneration
    <3>2. phase' = "serving" => current' = 2
      BY <2>1 DEF NewDispatcher, OnStart, StartGeneration
    <3> QED
      BY <3>1, <3>2
  <2>2. ASSUME NEW q \in Requests, Alloc(q) \/ Evaluate(q) PROVE CloseInv'
    <3>1. UNCHANGED <<phase, current, shutdown>>
      BY <2>2 DEF Alloc, Evaluate
    <3>2. \A i \in Instances : module[i] = "closed" => module'[i] = "closed"
      BY <2>2 DEF Alloc, Evaluate, Fails
    <3> QED
      BY <3>1, <3>2
  <2>3. ASSUME NEW q \in Requests,
               Send(q) \/ Refuse(q) \/ Acquire(q) \/ RestoreSnapshot(q) \/ Return(q)
        PROVE CloseInv'
    BY <2>3 DEF Send, Refuse, Acquire, RestoreSnapshot, Return
  <2>4. CASE Shutdown \/ DrainPool
    BY <2>4 DEF Shutdown, DrainPool
  <2>5. CASE CloseRuntime
    BY <2>5 DEF CloseRuntime
  <2>6. CASE UNCHANGED vars
    BY <2>6 DEF vars
  <2> QED
    BY <2>1, <2>2, <2>3, <2>4, <2>5, <2>6 DEF Next, Step
<1> QED
  BY <1>1, <1>2, TypeInvCorrect, PTL DEF Spec

\* After Shutdown the instances of the second Start are closed, wherever they
\* were when it came.
THEOREM ShutdownCloses == Spec => []ServingInstancesClosed
<1>1. CloseInv => ServingInstancesClosed
  BY DEF CloseInv
<1> QED
  BY <1>1, CloseCorrect, PTL

-----------------------------------------------------------------------------
\* Instance i is with a request.
Out(i) == \E q \in Requests : using[q] = i

\* Once both Starts are over, every instance of the second and none of the
\* first is somewhere, and those shut down are nowhere else.
ConserveInv ==
    /\ phase \in {"new", "made"} => drained = {}
    /\ phase = "serving" => \A i \in Instances :
        /\ i \in Of(2) <=> InPool(i) \/ Out(i) \/ i \in drained
        /\ i \in drained => ~InPool(i) /\ ~Out(i)

\* ConserveInv is inductive.
LEMMA ConserveCorrect == Spec => []ConserveInv
<1>1. Init => ConserveInv
  BY DEF Init, ConserveInv
<1>2. TypeInv /\ PlaceInv /\ CloseInv /\ ConserveInv /\ [Next]_vars => ConserveInv'
  <2> SUFFICES ASSUME TypeInv, PlaceInv, CloseInv, ConserveInv, [Next]_vars
               PROVE ConserveInv'
    OBVIOUS
  <2> USE WasmAssumption
      DEF TypeInv, TypeOK, Busy, hostVars, requestVars, PlaceInv, InPool, Out, ConserveInv
  <2>1. CASE NewDispatcher
    BY <2>1 DEF NewDispatcher, StartGeneration
  <2>2. CASE OnStart
    <3>1. CASE phase' = "failed"
      BY <3>1
    <3>2. CASE phase' = "serving" /\ UNCHANGED <<drained, requestVars>>
               /\ pool' = [n \in 1 .. MaxInstances |-> <<2, n>>]
      <4>1. \A i \in Instances : i \in Of(2) <=> InPool(i)'
        BY <3>2 DEF Of, Instances
      <4>2. \A q \in Requests : using'[q] = NoInstance
        BY <2>2, <3>2 DEF OnStart
      <4>3. NoInstance \notin Instances
        BY DEF Instances
      <4> QED
        BY <2>2, <3>2, <4>1, <4>2, <4>3 DEF OnStart
    <3> QED
      BY <2>2, <3>1, <3>2 DEF OnStart, StartGeneration
  <2>3. ASSUME NEW q \in Requests, Acquire(q) PROVE ConserveInv'
    <3>1. /\ phase = "serving" /\ UNCHANGED <<phase, drained>>
          /\ Head(pool) = pool[1] /\ 1 \in DOMAIN pool /\ Head(pool) \in Instances
          /\ using[q] = NoInstance /\ using' = [using EXCEPT ![q] = pool[1]]
      BY <2>3, Receive DEF Acquire
    <3>2. ASSUME NEW i \in Instances
          PROVE InPool(i)' <=> InPool(i) /\ i # pool[1]
      <4>1. pool \in Seq(Instances) /\ pool # <<>> /\ pool' = Tail(pool)
        BY <2>3 DEF Acquire
      <4>2. \A m, n \in DOMAIN pool : pool[m] = pool[n] => m = n
        OBVIOUS
      <4>3. (\E n \in DOMAIN Tail(pool) : Tail(pool)[n] = i)
              <=> (\E n \in DOMAIN pool : pool[n] = i) /\ i # pool[1]
        BY ONLY <4>1, <4>2, TailElements, Zenon
      <4> QED
        BY <4>1, <4>3
    <3>3. ASSUME NEW i \in Instances
          PROVE Out(i)' <=> Out(i) \/ i = pool[1]
      <4>1. i # NoInstance
        BY DEF Instances
      <4> QED
        BY <3>1, <4>1
    <3>4. InPool(pool[1])
      BY <3>1
    <3> QED
      BY <3>1, <3>2, <3>3, <3>4
  <2>4. ASSUME NEW q \in Requests,
               Send(q) \/ Refuse(q) \/ Alloc(q) \/ Evaluate(q) \/ RestoreSnapshot(q)
        PROVE ConserveInv'
    BY <2>4 DEF Send, Refuse, Alloc, Evaluate, RestoreSnapshot
  <2>5. ASSUME NEW q \in Requests, Return(q) PROVE ConserveInv'
    <3>1. /\ phase = "serving" /\ UNCHANGED <<phase, drained>>
          /\ using[q] \in Instances /\ using' = [using EXCEPT ![q] = NoInstance]
      BY <2>5 DEF Return
    <3>2. ASSUME NEW i \in Instances
          PROVE InPool(i)' <=> InPool(i) \/ i = using[q]
      <4>1. pool \in Seq(Instances) /\ pool' = Append(pool, using[q])
        BY <2>5 DEF Return
      <4>2. (\E n \in DOMAIN Append(pool, using[q]) : Append(pool, using[q])[n] = i)
              <=> (\E n \in DOMAIN pool : pool[n] = i) \/ i = using[q]
        <5>1. PICK e \in Instances : e = using[q]
          BY <3>1
        <5>2. (\E n \in DOMAIN Append(pool, e) : Append(pool, e)[n] = i)
                <=> (\E n \in DOMAIN pool : pool[n] = i) \/ i = e
          BY ONLY <4>1, AppendElements
        <5> QED
          BY <5>1, <5>2
      <4> QED
        BY <4>1, <4>2
    <3>3. ASSUME NEW i \in Instances
          PROVE Out(i)' <=> Out(i) /\ i # using[q]
      <4>1. i # NoInstance
        BY DEF Instances
      <4> QED
        BY <3>1, <4>1
    <3> QED
      BY <3>1, <3>2, <3>3
  <2>6. CASE DrainPool
    <3>1. CASE UNCHANGED <<pool, drained>>
      BY <2>6, <3>1 DEF DrainPool
    <3>2. CASE pool # <<>> /\ pool' = Tail(pool) /\ ShutDown({Head(pool)})
      <4>1. /\ drained' = drained \cup {pool[1]} /\ 1 \in DOMAIN pool
            /\ UNCHANGED <<phase, using>>
        BY <2>6, <3>2, Receive DEF DrainPool, ShutDown
      <4>2. ASSUME NEW i \in Instances
            PROVE InPool(i)' <=> InPool(i) /\ i # pool[1]
        <5>1. \A m, n \in DOMAIN pool : pool[m] = pool[n] => m = n
          OBVIOUS
        <5>2. pool \in Seq(Instances)
          OBVIOUS
        <5>3. (\E n \in DOMAIN Tail(pool) : Tail(pool)[n] = i)
                <=> (\E n \in DOMAIN pool : pool[n] = i) /\ i # pool[1]
          BY ONLY <3>2, <5>1, <5>2, TailElements, Zenon
        <5> QED
          BY <3>2, <5>3
      <4>3. InPool(pool[1]) /\ ~Out(pool[1]) /\ pool[1] \in Instances
        BY <3>2, <4>1, Receive
      <4>4. phase = "serving"
        BY <2>6 DEF DrainPool, CloseInv
      <4> QED
        BY <3>2, <4>1, <4>2, <4>3, <4>4
    <3> QED
      BY <2>6, <3>1, <3>2 DEF DrainPool
  <2>7. CASE Shutdown \/ CloseRuntime \/ UNCHANGED vars
    BY <2>7 DEF Shutdown, CloseRuntime, vars
  <2> QED
    BY <2>1, <2>2, <2>3, <2>4, <2>5, <2>6, <2>7 DEF Next, Step
<1> QED
  BY <1>1, <1>2, TypeInvCorrect, PlaceCorrect, CloseCorrect, PTL DEF Spec

\* No instance is lost, shared or handed out again after it was shut down,
\* whatever fails and whenever Shutdown comes.
THEOREM Conserved == Spec => []InstancesConserved
<1>1. TypeInv /\ PlaceInv /\ ConserveInv => InstancesConserved
  <2> SUFFICES ASSUME TypeInv, PlaceInv, ConserveInv, phase = "serving", NEW i \in Instances
               PROVE Cardinality({n \in DOMAIN pool : pool[n] = i})
                     + Cardinality({q \in Requests : pc[q] \in Busy /\ using[q] = i})
                     + Cardinality(drained \cap {i}) = IF i \in Of(2) THEN 1 ELSE 0
    BY DEF InstancesConserved
  <2>1. Cardinality({n \in DOMAIN pool : pool[n] = i}) = IF InPool(i) THEN 1 ELSE 0
    <3>1. \A m, n \in DOMAIN pool : pool[m] = i /\ pool[n] = i => m = n
      BY DEF PlaceInv
    <3> QED
      BY ONLY <3>1, AtMostOne, Zenon DEF InPool
  <2>2. Cardinality({q \in Requests : pc[q] \in Busy /\ using[q] = i}) = IF Out(i) THEN 1 ELSE 0
    <3>1. i # NoInstance
      BY WasmAssumption DEF Instances
    <3>2. {q \in Requests : pc[q] \in Busy /\ using[q] = i} = {q \in Requests : using[q] = i}
      BY <3>1 DEF PlaceInv
    <3> QED
      <4>1. \A p, q \in Requests : using[p] = i /\ using[q] = i => p = q
        BY <3>1 DEF PlaceInv
      <4>2. Cardinality({q \in Requests : using[q] = i}) = IF Out(i) THEN 1 ELSE 0
        BY ONLY <4>1, AtMostOne, Zenon DEF Out
      <4> QED
        BY <3>2, <4>2
  <2>3. Cardinality(drained \cap {i}) = IF i \in drained THEN 1 ELSE 0
    <3>1. drained \cap {i} = IF i \in drained THEN {i} ELSE {}
      OBVIOUS
    <3> QED
      BY <3>1, FS_Singleton, FS_EmptySet
  <2>4. ~(InPool(i) /\ Out(i))
    BY DEF PlaceInv, InPool, Out
  <2> QED
    BY <2>1, <2>2, <2>3, <2>4 DEF ConserveInv
<1> QED
  BY <1>1, TypeInvCorrect, PlaceCorrect, ConserveCorrect, PTL
=============================================================================
