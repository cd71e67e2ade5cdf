--------------------------- MODULE SupervisorProofs --------------------------
(***************************************************************************)
(* Proofs about WorkerSupervisor and RpcDispatcher, for every set of calls.*)
(* LockInv says who holds the locks; RefInv, on top of it, what the        *)
(* reference and the stopped workers have to do with the calls.  Each step *)
(* of RpcDispatcher is a step of WorkerSupervisor or leaves its variables  *)
(* alone, so all of this holds for the dedicated dispatcher; AnswerInv,    *)
(* with the lock, is about its messages, BackoffInv about its dials.       *)
(***************************************************************************)
EXTENDS RpcDispatcher, TLAPS

\* TypeOK, which is inductive only if a release function that waits knows the
\* worker it waits for.
TypeInv ==
    /\ TypeOK
    /\ \A c \in Calls : release[c] = "wait" => target[c] # Nobody

\* A lock is held by the call that is in the section it guards.
LockedBy(c) ==
    /\ pc[c] = "new" <=> op[c] = "none"
    /\ pc[c] = "boot" <=> workerLock = c
    /\ sendLock = c <=>
        op[c] = "send" /\ pc[c] \in {"acquire", "boot", "send", "terminate"}
    /\ pc[c] = "lock" => op[c] = "send"
    /\ pc[c] \in {"acquire", "boot"} =>
        op[c] = "send" \/ (op[c] = "start" /\ Persistent)
    /\ pc[c] = "send" => op[c] = "send"
    /\ pc[c] = "terminate" /\ Persistent => op[c] = "shutdown"

LockInv == \A c \in Calls : LockedBy(c)

\* What has become of the workers.
RefInv ==
    /\ \A c \in Calls :
        /\ pc[c] = "boot" => workerRef = Nobody /\ (ctx[c] = "open" \/ parentDone)
        /\ pc[c] \in {"new", "lock", "acquire", "boot"} =>
            using[c] = Nobody /\ c \notin stopped /\ workerRef # c
        /\ target[c] # Nobody => target[c] \in stopped
    /\ armed \subseteq stopped
    /\ workerRef # Nobody =>
        /\ workerRef \notin stopped
        /\ ctx[workerRef] = "open" \/ parentDone

\* A transient worker is named by its sender, who holds sendLock as long as the
\* reference leads to it.
TransientInv ==
    ~Persistent =>
        /\ \A c \in Calls : using[c] \in {Nobody, c}
        /\ workerRef # Nobody =>
            sendLock = workerRef /\ pc[workerRef] \in {"send", "terminate"}

-----------------------------------------------------------------------------
\* TypeInv is inductive.
LEMMA TypeInvCorrect == Spec => []TypeInv
<1>1. Init => TypeInv
  <2> SUFFICES ASSUME Init PROVE TypeInv
    OBVIOUS
  <2>1. parentDone \in BOOLEAN
    BY DEF Init
  <2>2. \A c \in Calls : release[c] = "none"
    BY DEF Init
  <2> QED
    BY <2>1, <2>2, SupervisorAssumption DEF Init, TypeInv, TypeOK
<1>2. TypeInv /\ [Next]_vars => TypeInv'
  <2> SUFFICES ASSUME TypeInv, [Next]_vars PROVE TypeInv'
    OBVIOUS
  <2> USE SupervisorAssumption DEF TypeOK, TypeInv, callVars, workerVars
  <2>1. ASSUME NEW c \in Calls, Start(c) \/ Send(c)
        PROVE TypeInv'
    BY <2>1 DEF Start, Send, Begin
  <2>2. ASSUME NEW c \in Calls, Suspend(c) \/ Shutdown(c)
        PROVE TypeInv'
    BY <2>2 DEF Suspend, Shutdown, Begin
  <2>3. ASSUME NEW c \in Calls, LockSend(c)
        PROVE TypeInv'
    BY <2>3 DEF LockSend
  <2>4. ASSUME NEW c \in Calls, AcquireWorker(c)
        PROVE TypeInv'
    BY <2>4 DEF AcquireWorker, Acquired
  <2>5. ASSUME NEW c \in Calls, Spawn(c)
        PROVE TypeInv'
    BY <2>5 DEF Spawn
  <2>6. ASSUME NEW c \in Calls, BootWorker(c)
        PROVE TypeInv'
    BY <2>6 DEF BootWorker, Acquired
  <2>7. ASSUME NEW c \in Calls, BootFails(c) \/ AdapterSend(c)
        PROVE TypeInv'
    BY <2>7 DEF BootFails, AdapterSend, UnlockSend
  <2>8. ASSUME NEW c \in Calls, TerminateWorker(c)
        PROVE TypeInv'
    BY <2>8 DEF TerminateWorker, ForgetWorker, CancelUnstoppable, UnlockSend
  <2>9. ASSUME NEW c \in Calls, CallRelease(c) \/ WaitEnds(c)
        PROVE TypeInv'
    BY <2>9 DEF CallRelease, WaitEnds
  <2>10. ASSUME NEW c \in Calls, CancelWorker(c) \/ Exit(c)
        PROVE TypeInv'
    BY <2>10 DEF CancelWorker, Exit
  <2>11. CASE EndParent
    BY <2>11 DEF EndParent
  <2>12. CASE UNCHANGED vars
    BY <2>12 DEF vars
  <2> QED
    BY <2>1, <2>2, <2>3, <2>4, <2>5, <2>6, <2>7, <2>8, <2>9, <2>10, <2>11, <2>12 DEF Next, Method, Boot
<1> QED
  BY <1>1, <1>2, PTL DEF Spec

\* Every variable keeps its type.
THEOREM TypeCorrect == Spec => []TypeOK
<1>1. TypeInv => TypeOK
  BY DEF TypeInv
<1> QED
  BY <1>1, TypeInvCorrect, PTL

\* LockInv is inductive.
LEMMA LockCorrect == Spec => []LockInv
<1>1. Init => LockInv
  <2> SUFFICES ASSUME Init, NEW c \in Calls PROVE LockedBy(c)
    BY DEF LockInv
  <2>1. pc[c] = "new" /\ op[c] = "none" /\ workerLock # c /\ sendLock # c
    BY SupervisorAssumption DEF Init
  <2> QED
    BY <2>1 DEF LockedBy
<1>2. TypeInv /\ LockInv /\ [Next]_vars => LockInv'
  <2> SUFFICES ASSUME TypeInv, LockInv, [Next]_vars PROVE LockInv'
    OBVIOUS
  <2> USE SupervisorAssumption DEF TypeOK, TypeInv, callVars, workerVars, Persistent, LockInv, LockedBy
  <2>1. ASSUME NEW c \in Calls, Start(c) \/ Send(c)
        PROVE LockInv'
    BY <2>1 DEF Start, Send, Begin
  <2>2. ASSUME NEW c \in Calls, Suspend(c) \/ Shutdown(c)
        PROVE LockInv'
    BY <2>2 DEF Suspend, Shutdown, Begin
  <2>3. ASSUME NEW c \in Calls, LockSend(c)
        PROVE LockInv'
    BY <2>3 DEF LockSend
  <2>4. ASSUME NEW c \in Calls, AcquireWorker(c)
        PROVE LockInv'
    BY <2>4 DEF AcquireWorker, Acquired
  <2>5. ASSUME NEW c \in Calls, Spawn(c)
        PROVE LockInv'
    BY <2>5 DEF Spawn
  <2>6. ASSUME NEW c \in Calls, BootWorker(c)
        PROVE LockInv'
    BY <2>6 DEF BootWorker, Acquired
  <2>7. ASSUME NEW c \in Calls, BootFails(c) \/ AdapterSend(c)
        PROVE LockInv'
    BY <2>7 DEF BootFails, AdapterSend, UnlockSend
  <2>8. ASSUME NEW c \in Calls, TerminateWorker(c)
        PROVE LockInv'
    BY <2>8 DEF TerminateWorker, ForgetWorker, CancelUnstoppable, UnlockSend
  <2>9. ASSUME NEW c \in Calls, CallRelease(c) \/ WaitEnds(c)
        PROVE LockInv'
    BY <2>9 DEF CallRelease, WaitEnds
  <2>10. ASSUME NEW c \in Calls, CancelWorker(c) \/ Exit(c)
        PROVE LockInv'
    BY <2>10 DEF CancelWorker, Exit
  <2>11. CASE EndParent \/ UNCHANGED vars
    BY <2>11 DEF EndParent, vars
  <2> QED
    BY <2>1, <2>2, <2>3, <2>4, <2>5, <2>6, <2>7, <2>8, <2>9, <2>10, <2>11 DEF Next, Method, Boot
<1> QED
  BY <1>1, <1>2, TypeInvCorrect, PTL DEF Spec

\* RefInv is inductive.
LEMMA RefCorrect == Spec => []RefInv
<1>1. Init => RefInv
  BY SupervisorAssumption DEF Init, RefInv
<1>2. TypeInv /\ LockInv /\ RefInv /\ [Next]_vars => RefInv'
  <2> SUFFICES ASSUME TypeInv, LockInv, RefInv, [Next]_vars PROVE RefInv'
    OBVIOUS
  <2> USE SupervisorAssumption DEF TypeOK, TypeInv, callVars, workerVars, LockInv, LockedBy, RefInv
  <2>1. ASSUME NEW c \in Calls, Start(c) \/ Send(c)
        PROVE RefInv'
    BY <2>1 DEF Start, Send, Begin
  <2>2. ASSUME NEW c \in Calls, Suspend(c) \/ Shutdown(c)
        PROVE RefInv'
    BY <2>2 DEF Suspend, Shutdown, Begin
  <2>3. ASSUME NEW c \in Calls, LockSend(c)
        PROVE RefInv'
    BY <2>3 DEF LockSend
  <2>4. ASSUME NEW c \in Calls, AcquireWorker(c)
        PROVE RefInv'
    BY <2>4 DEF AcquireWorker, Acquired
  <2>5. ASSUME NEW c \in Calls, Spawn(c)
        PROVE RefInv'
    BY <2>5 DEF Spawn
  <2>6. ASSUME NEW c \in Calls, BootWorker(c)
        PROVE RefInv'
    BY <2>6 DEF BootWorker, Acquired
  <2>7. ASSUME NEW c \in Calls, BootFails(c) \/ AdapterSend(c)
        PROVE RefInv'
    BY <2>7 DEF BootFails, AdapterSend, UnlockSend
  <2>8. ASSUME NEW c \in Calls, TerminateWorker(c)
        PROVE RefInv'
    BY <2>8 DEF TerminateWorker, ForgetWorker, CancelUnstoppable, UnlockSend
  <2>9. ASSUME NEW c \in Calls, CallRelease(c) \/ WaitEnds(c)
        PROVE RefInv'
    BY <2>9 DEF CallRelease, WaitEnds
  <2>10. ASSUME NEW c \in Calls, CancelWorker(c) \/ Exit(c)
        PROVE RefInv'
    BY <2>10 DEF CancelWorker, Exit
  <2>11. CASE EndParent \/ UNCHANGED vars
    BY <2>11 DEF EndParent, vars
  <2> QED
    BY <2>1, <2>2, <2>3, <2>4, <2>5, <2>6, <2>7, <2>8, <2>9, <2>10, <2>11 DEF Next, Method, Boot
<1> QED
  BY <1>1, <1>2, TypeInvCorrect, LockCorrect, PTL DEF Spec

\* TransientInv is inductive.
LEMMA TransientCorrect == Spec => []TransientInv
<1>1. Init => TransientInv
  BY DEF Init, TransientInv
<1>2. TypeInv /\ LockInv /\ RefInv /\ TransientInv /\ [Next]_vars => TransientInv'
  <2> SUFFICES ASSUME TypeInv, LockInv, RefInv, TransientInv, [Next]_vars PROVE TransientInv'
    OBVIOUS
  <2> USE SupervisorAssumption DEF TypeOK, TypeInv, callVars, workerVars, Persistent, LockInv, LockedBy, RefInv, TransientInv
  <2>1. ASSUME NEW c \in Calls, Start(c) \/ Send(c)
        PROVE TransientInv'
    BY <2>1 DEF Start, Send, Begin
  <2>2. ASSUME NEW c \in Calls, Suspend(c) \/ Shutdown(c)
        PROVE TransientInv'
    BY <2>2 DEF Suspend, Shutdown, Begin
  <2>3. ASSUME NEW c \in Calls, LockSend(c)
        PROVE TransientInv'
    BY <2>3 DEF LockSend
  <2>4. ASSUME NEW c \in Calls, AcquireWorker(c)
        PROVE TransientInv'
    BY <2>4 DEF AcquireWorker, Acquired
  <2>5. ASSUME NEW c \in Calls, Spawn(c)
        PROVE TransientInv'
    BY <2>5 DEF Spawn
  <2>6. ASSUME NEW c \in Calls, BootWorker(c)
        PROVE TransientInv'
    BY <2>6 DEF BootWorker, Acquired
  <2>7. ASSUME NEW c \in Calls, BootFails(c) \/ AdapterSend(c)
        PROVE TransientInv'
    BY <2>7 DEF BootFails, AdapterSend, UnlockSend
  <2>8. ASSUME NEW c \in Calls, TerminateWorker(c)
        PROVE TransientInv'
    BY <2>8 DEF TerminateWorker, ForgetWorker, CancelUnstoppable, UnlockSend
  <2>9. ASSUME NEW c \in Calls, CallRelease(c) \/ WaitEnds(c)
        PROVE TransientInv'
    BY <2>9 DEF CallRelease, WaitEnds
  <2>10. ASSUME NEW c \in Calls, CancelWorker(c) \/ Exit(c)
        PROVE TransientInv'
    BY <2>10 DEF CancelWorker, Exit
  <2>11. CASE EndParent \/ UNCHANGED vars
    BY <2>11 DEF EndParent, vars
  <2> QED
    BY <2>1, <2>2, <2>3, <2>4, <2>5, <2>6, <2>7, <2>8, <2>9, <2>10, <2>11 DEF Next, Method, Boot
<1> QED
  BY <1>1, <1>2, TypeInvCorrect, LockCorrect, RefCorrect, PTL DEF Spec

-----------------------------------------------------------------------------
\* No two messages are with one worker, and a transient worker never gets a
\* second one.
THEOREM Exclusion == Spec => []ExclusiveWorker
<1>1. TypeOK /\ LockInv /\ TransientInv => ExclusiveWorker
  BY SupervisorAssumption DEF TypeOK, LockInv, LockedBy, TransientInv, ExclusiveWorker, Sends
<1> QED
  BY <1>1, TypeCorrect, LockCorrect, TransientCorrect, PTL

\* acquireWorker never hands out a worker that is stopped, cancelled or not yet
\* booted.
THEOREM UsableRef == Spec => []RefIsUsable
<1>1. TypeOK /\ LockInv /\ RefInv => RefIsUsable
  BY SupervisorAssumption DEF TypeOK, LockInv, LockedBy, LockedBy, RefInv, RefIsUsable
<1> QED
  BY <1>1, TypeCorrect, LockCorrect, RefCorrect, PTL

\* No worker is stopped, and then waited for, by two calls.
THEOREM SingleStop == Spec => []StoppedByOne
<1>1. Init => StoppedByOne
  BY DEF Init, StoppedByOne
<1>2. TypeInv /\ RefInv /\ StoppedByOne /\ [Next]_vars => StoppedByOne'
  <2> SUFFICES ASSUME TypeInv, RefInv, StoppedByOne, [Next]_vars PROVE StoppedByOne'
    OBVIOUS
  <2> USE SupervisorAssumption DEF TypeOK, TypeInv, callVars, workerVars, RefInv, StoppedByOne
  <2>1. ASSUME NEW c \in Calls, Start(c) \/ Send(c)
        PROVE StoppedByOne'
    BY <2>1 DEF Start, Send, Begin
  <2>2. ASSUME NEW c \in Calls, Suspend(c) \/ Shutdown(c)
        PROVE StoppedByOne'
    BY <2>2 DEF Suspend, Shutdown, Begin
  <2>3. ASSUME NEW c \in Calls, LockSend(c)
        PROVE StoppedByOne'
    BY <2>3 DEF LockSend
  <2>4. ASSUME NEW c \in Calls, AcquireWorker(c)
        PROVE StoppedByOne'
    BY <2>4 DEF AcquireWorker, Acquired
  <2>5. ASSUME NEW c \in Calls, Spawn(c)
        PROVE StoppedByOne'
    BY <2>5 DEF Spawn
  <2>6. ASSUME NEW c \in Calls, BootWorker(c)
        PROVE StoppedByOne'
    BY <2>6 DEF BootWorker, Acquired
  <2>7. ASSUME NEW c \in Calls, BootFails(c) \/ AdapterSend(c)
        PROVE StoppedByOne'
    BY <2>7 DEF BootFails, AdapterSend, UnlockSend
  <2>8. ASSUME NEW c \in Calls, TerminateWorker(c)
        PROVE StoppedByOne'
    BY <2>8 DEF TerminateWorker, ForgetWorker, CancelUnstoppable, UnlockSend
  <2>9. ASSUME NEW c \in Calls, CallRelease(c) \/ WaitEnds(c)
        PROVE StoppedByOne'
    BY <2>9 DEF CallRelease, WaitEnds
  <2>10. ASSUME NEW c \in Calls, CancelWorker(c) \/ Exit(c)
        PROVE StoppedByOne'
    BY <2>10 DEF CancelWorker, Exit
  <2>11. CASE EndParent \/ UNCHANGED vars
    BY <2>11 DEF EndParent, vars
  <2> QED
    BY <2>1, <2>2, <2>3, <2>4, <2>5, <2>6, <2>7, <2>8, <2>9, <2>10, <2>11 DEF Next, Method, Boot
<1> QED
  BY <1>1, <1>2, TypeInvCorrect, RefCorrect, PTL DEF Spec

\* The worker of a persistent supervisor survives every call but Shutdown.
THEOREM OnlyShutdownStops == Spec => PersistentKept
<1> DEFINE A(c) == Persistent /\ target[c] = Nobody /\ target'[c] # Nobody
                     => op[c] = "shutdown"
<1>1. TypeInv /\ LockInv /\ [Next]_vars => \A c \in Calls : A(c)
  <2> SUFFICES ASSUME TypeInv, LockInv, [Next]_vars PROVE \A c \in Calls : A(c)
    OBVIOUS
  <2>1. ASSUME NEW c \in Calls, TerminateWorker(c) PROVE \A d \in Calls : A(d)
    BY <2>1 DEF TerminateWorker, ForgetWorker, CancelUnstoppable, UnlockSend, LockInv, LockedBy, TypeInv, TypeOK
  <2>2. ASSUME target' = target PROVE \A d \in Calls : A(d)
    BY <2>2
  <2>3. ASSUME NEW c \in Calls,
               Method(c) \/ LockSend(c) \/ AcquireWorker(c) \/ Spawn(c) \/ Boot(c)
                 \/ AdapterSend(c) \/ CallRelease(c) \/ WaitEnds(c)
                 \/ CancelWorker(c) \/ Exit(c)
        PROVE target' = target
    BY <2>3 DEF Method, Start, Send, Suspend, Shutdown, Begin, LockSend, AcquireWorker,
                Spawn, Boot, BootWorker, BootFails, AdapterSend, UnlockSend, CallRelease, WaitEnds,
                CancelWorker, Exit, callVars
  <2>4. EndParent \/ UNCHANGED vars => target' = target
    BY DEF EndParent, callVars, vars
  <2> QED
    BY <2>1, <2>2, <2>3, <2>4 DEF Next
<1> QED
  BY <1>1, TypeInvCorrect, LockCorrect, PTL DEF Spec, PersistentKept

\* The supervisor never forgets a booted worker without having stopped it or
\* cancelled its context.
THEOREM NoneDropped == Spec => NoWorkerDropped
<1> DEFINE A(w) == workerRef = w /\ workerRef' # w => w \in stopped' \/ ctx'[w] = "cancelled"
<1>1. TypeInv /\ RefInv /\ [Next]_vars => \A w \in Calls : A(w)
  <2> SUFFICES ASSUME TypeInv, RefInv, [Next]_vars PROVE \A w \in Calls : A(w)
    OBVIOUS
  <2>1. ASSUME NEW c \in Calls, TerminateWorker(c) PROVE \A w \in Calls : A(w)
    BY <2>1 DEF TerminateWorker, ForgetWorker, CancelUnstoppable, UnlockSend, TypeInv, TypeOK
  <2>2. ASSUME workerRef' = workerRef PROVE \A w \in Calls : A(w)
    BY <2>2
  <2>3. ASSUME NEW c \in Calls, BootWorker(c) PROVE \A w \in Calls : A(w)
    BY <2>3, SupervisorAssumption DEF BootWorker, RefInv
  <2>4. ASSUME NEW c \in Calls,
               Method(c) \/ LockSend(c) \/ AcquireWorker(c) \/ Spawn(c) \/ BootFails(c)
                 \/ AdapterSend(c) \/ CallRelease(c) \/ WaitEnds(c)
                 \/ CancelWorker(c) \/ Exit(c)
        PROVE workerRef' = workerRef
    BY <2>4 DEF Method, Start, Send, Suspend, Shutdown, Begin, LockSend, AcquireWorker,
                Spawn, BootFails, AdapterSend, UnlockSend, CallRelease, WaitEnds, CancelWorker, Exit
  <2>5. EndParent \/ UNCHANGED vars => workerRef' = workerRef
    BY DEF EndParent, vars
  <2> QED
    BY <2>1, <2>2, <2>3, <2>4, <2>5 DEF Next, Boot
<1> QED
  BY <1>1, TypeInvCorrect, RefCorrect, PTL DEF Spec, NoWorkerDropped

-----------------------------------------------------------------------------
(* The dedicated dispatcher.                                                *)

\* A process works on messages that have been sent to it and to no other; who
\* waits for an answer is inside the adapter's Send.
AnswerInv ==
    /\ \A c, w \in Calls : c \in inbox[w] => answer[c] \in {"posted", "error"}
    /\ \A c, v, w \in Calls : c \in inbox[v] /\ c \in inbox[w] => v = w
    /\ \A c \in Calls : answer[c] = "posted" => pc[c] = "send"

-----------------------------------------------------------------------------
\* The dispatcher with the rpc adapter implements the supervisor's safety part:
\* no dial, timeout or late answer makes a step that WorkerSupervisor lacks.
THEOREM Implements == RpcSpec => Spec
<1>1. RpcInit => Init
  BY DEF RpcInit
<1>2. [RpcNext]_allVars => [Next]_vars
  <2> SUFFICES ASSUME [RpcNext]_allVars PROVE [Next]_vars
    OBVIOUS
  <2>1. CASE UNCHANGED allVars
    BY <2>1 DEF allVars
  <2>2. CASE DispatcherStart \/ ContextEnds
    BY <2>2, RpcAssumption DEF DispatcherStart, ContextEnds, Next, Method
  <2>3. ASSUME NEW c \in Calls,
               DispatcherSend(c) \/ DispatcherShutdown(c) \/ Supervise(c) \/ WaitReturns(c)
        PROVE  Next
    BY <2>3 DEF DispatcherSend, DispatcherShutdown, Supervise, CallStep, WaitReturns, Next, Method
  <2>4. ASSUME NEW c \in Calls,
               StartWorker(c) \/ StartFails(c) \/ DialCancelled(c) \/ DialSucceeds(c)
        PROVE  Next
    BY <2>4 DEF StartWorker, StartFails, DialCancelled, GiveUp, DialSucceeds, Next, Boot
  <2>5. ASSUME NEW c \in Calls, CallFails(c) \/ TimesOut(c) \/ Reply(c) \/ WorkerExits(c)
        PROVE  Next \/ UNCHANGED vars
    BY <2>5 DEF CallFails, TimesOut, CallError, Reply, WorkerExits, Next
  <2>6. ASSUME NEW c \in Calls,
               CallerEnds(c) \/ DialFails(c) \/ BackoffEnds(c) \/ Post(c) \/ Listen(c)
        PROVE  UNCHANGED vars
    BY <2>6 DEF CallerEnds, DialFails, BackoffEnds, Post, Listen
  <2> QED
    BY <2>1, <2>2, <2>3, <2>4, <2>5, <2>6 DEF RpcNext
<1> QED
  BY <1>1, <1>2, PTL DEF RpcSpec, Spec

\* One message at a time for the one worker, and one Stop, hold for whatever
\* the dial loop and the worker do.
THEOREM SafeWorkers == RpcSpec => [](ExclusiveWorker /\ StoppedByOne)
BY Implements, Exclusion, SingleStop, PTL

-----------------------------------------------------------------------------
\* The delay is a number, overflown or not.
LEMMA BackoffType == ASSUME NEW i \in Nat PROVE Backoff(i) \in Int
<1>1. 2 ^ i \in Int /\ 2 ^ Width \in Int /\ 2 ^ (Width - 1) \in Int /\ 2 ^ Width > 0
  BY RpcAssumption
<1>2. ASSUME NEW n \in Int PROVE Wrap(n) \in Int
  BY <1>1 DEF Wrap
<1>3. BaseDelay * 2 ^ i \in Int
  BY <1>1, RpcAssumption
<1> QED
  BY <1>2, <1>3, RpcAssumption DEF Backoff

\* Every variable keeps its type, and only a call that dials waits for the
\* backoff: all ways out of the loop leave both.
THEOREM RpcTypeCorrect == RpcSpec => []RpcTypeOK
<1> DEFINE DetailsOK ==
        /\ transport \in Transports
        /\ listening \subseteq Calls /\ callerDone \subseteq Calls
        /\ waiting \subseteq dialling /\ dialling \subseteq Calls
        /\ peer \in [Calls -> Calls \cup {Nobody}]
        /\ retry \in [Calls -> 0 .. Width]
        /\ delay \in [Calls -> Int]
        /\ inbox \in [Calls -> SUBSET Calls]
        /\ answer \in [Calls -> {"none", "posted", "replied", "error"}]
<1>1. RpcInit => DetailsOK
  BY RpcAssumption DEF RpcInit
<1>2. DetailsOK /\ [RpcNext]_allVars => DetailsOK'
  <2> SUFFICES ASSUME DetailsOK, [RpcNext]_allVars PROVE DetailsOK'
    OBVIOUS
  <2> USE RpcAssumption DEF rpcVars, dialVars
  <2>1. CASE UNCHANGED allVars
    BY <2>1 DEF allVars
  <2>2. CASE DispatcherStart \/ ContextEnds
    BY <2>2 DEF DispatcherStart, ContextEnds
  <2>3. ASSUME NEW c \in Calls,
               DispatcherSend(c) \/ DispatcherShutdown(c) \/ Supervise(c) \/ WaitReturns(c)
        PROVE  DetailsOK'
    BY <2>3 DEF DispatcherSend, DispatcherShutdown, Supervise, CallStep, WaitReturns
  <2>4. ASSUME NEW c \in Calls, StartWorker(c) \/ CallerEnds(c) \/ Listen(c) \/ WorkerExits(c)
        PROVE  DetailsOK'
    BY <2>4 DEF StartWorker, CallerEnds, Listen, WorkerExits
  <2>5. ASSUME NEW c \in Calls, LeaveLoop(c)
        PROVE  /\ waiting' \subseteq dialling' /\ dialling' \subseteq Calls
               /\ retry' \in [Calls -> 0 .. Width] /\ delay' \in [Calls -> Int]
    BY <2>5 DEF LeaveLoop
  <2>6. ASSUME NEW c \in Calls, StartFails(c) \/ DialCancelled(c)
        PROVE  DetailsOK'
    <3>1. GiveUp(c)
      BY <2>6 DEF StartFails, DialCancelled
    <3> QED
      BY <2>5, <3>1 DEF GiveUp
  <2>7. ASSUME NEW c \in Calls, DialSucceeds(c)
        PROVE  DetailsOK'
    <3>1. Reachable(c) \subseteq Calls
      BY DEF Reachable
    <3> QED
      BY <2>5, <2>7, <3>1 DEF DialSucceeds
  <2>8. ASSUME NEW c \in Calls, DialFails(c)
        PROVE  DetailsOK'
    <3>1. Backoff(retry[c]) \in Int
      BY BackoffType
    <3>2. delay' \in [Calls -> Int]
      BY <2>8, <3>1 DEF DialFails
    <3>3. retry' \in [Calls -> 0 .. Width]
      BY <2>8 DEF DialFails
    <3> QED
      BY <2>8, <3>2, <3>3 DEF DialFails, Dials
  <2>9. ASSUME NEW c \in Calls, BackoffEnds(c)
        PROVE  DetailsOK'
    BY <2>9 DEF BackoffEnds
  <2>10. ASSUME NEW c \in Calls, Post(c) \/ CallFails(c) \/ TimesOut(c)
         PROVE  DetailsOK'
    BY <2>10 DEF Post, CallFails, TimesOut, CallError
  <2>11. ASSUME NEW c \in Calls, Reply(c)
         PROVE  DetailsOK'
    BY <2>11 DEF Reply
  <2> QED
    BY <2>1, <2>2, <2>3, <2>4, <2>6, <2>7, <2>8, <2>9, <2>10, <2>11 DEF RpcNext
<1>3. TypeOK /\ DetailsOK => RpcTypeOK
  BY DEF RpcTypeOK
<1>4. RpcSpec => []DetailsOK
  BY <1>1, <1>2, PTL DEF RpcSpec
<1> QED
  BY <1>3, <1>4, Implements, TypeCorrect, PTL

-----------------------------------------------------------------------------
\* AnswerInv is inductive, given the types and who is in which section.
LEMMA AnswerInvCorrect == RpcSpec => []AnswerInv
<1>1. RpcInit => AnswerInv
  BY DEF RpcInit, AnswerInv
<1>2. RpcTypeOK /\ AnswerInv /\ [RpcNext]_allVars => AnswerInv'
  <2> SUFFICES ASSUME RpcTypeOK, AnswerInv, [RpcNext]_allVars PROVE AnswerInv'
    OBVIOUS
  <2> USE DEF AnswerInv, callVars
  <2>t. /\ pc \in [Calls -> {"new", "lock", "acquire", "boot", "send", "terminate",
                             "returned", "waiting", "done"}]
        /\ inbox \in [Calls -> SUBSET Calls]
        /\ answer \in [Calls -> {"none", "posted", "replied", "error"}]
    BY DEF RpcTypeOK, TypeOK
  <2>1. CASE UNCHANGED allVars
    BY <2>1 DEF allVars, rpcVars, vars
  <2>2. CASE DispatcherStart \/ ContextEnds
    BY <2>2, <2>t, RpcAssumption DEF DispatcherStart, ContextEnds, Start, Begin, EndParent, rpcVars
  <2>3. ASSUME NEW c \in Calls, DispatcherSend(c) \/ DispatcherShutdown(c)
        PROVE  AnswerInv'
    BY <2>3, <2>t DEF DispatcherSend, DispatcherShutdown, Send, Shutdown, Begin, rpcVars
  <2>4. ASSUME NEW c \in Calls, LockSend(c) \/ AcquireWorker(c) \/ TerminateWorker(c) \/ CallRelease(c)
        PROVE  \A d \in Calls : pc[d] = "send" => pc'[d] = "send"
    BY <2>4, <2>t DEF LockSend, AcquireWorker, Acquired, TerminateWorker, CallRelease
  <2>5. ASSUME NEW c \in Calls, Supervise(c)
        PROVE  AnswerInv'
    BY <2>4, <2>5 DEF Supervise, CallStep, CancelWorker, rpcVars
  <2>6. ASSUME NEW c \in Calls, WaitReturns(c) \/ CallerEnds(c) \/ StartWorker(c)
        PROVE  AnswerInv'
    BY <2>6, <2>t DEF WaitReturns, WaitEnds, CallerEnds, StartWorker, Spawn, rpcVars, vars
  <2>7. ASSUME NEW c \in Calls, GiveUp(c)
        PROVE  AnswerInv'
    BY <2>7, <2>t DEF GiveUp, BootFails
  <2>8. ASSUME NEW c \in Calls, DialSucceeds(c)
        PROVE  AnswerInv'
    BY <2>8, <2>t DEF DialSucceeds, BootWorker, Acquired
  <2>9. ASSUME NEW c \in Calls, DialFails(c) \/ BackoffEnds(c)
        PROVE  AnswerInv'
    BY <2>9 DEF DialFails, BackoffEnds, vars
  <2>10. ASSUME NEW c \in Calls, Post(c)
         PROVE  AnswerInv'
    BY <2>10, <2>t DEF Post, vars
  <2>11. ASSUME NEW c \in Calls, Reply(c)
         PROVE  AnswerInv'
    <3>1. PICK w \in Calls : /\ c \in inbox[w]
                             /\ inbox' = [inbox EXCEPT ![w] = @ \ {c}]
                             /\ IF answer[c] = "posted"
                                THEN AdapterSend(c) /\ answer' = [answer EXCEPT ![c] = "replied"]
                                ELSE UNCHANGED <<vars, answer>>
      BY <2>11 DEF Reply
    <3>2. \A v \in Calls : c \notin inbox'[v]
      BY <3>1, <2>t
    <3>3. \A v \in Calls : inbox'[v] \subseteq inbox[v]
      BY <3>1, <2>t
    <3>4. CASE answer[c] = "posted"
      BY <3>1, <3>2, <3>3, <3>4, <2>t DEF AdapterSend
    <3>5. CASE answer[c] # "posted"
      BY <3>1, <3>3, <3>5, <2>t DEF vars
    <3> QED
      BY <3>4, <3>5
  <2>12. ASSUME NEW c \in Calls, CallError(c)
         PROVE  AnswerInv'
    BY <2>12, <2>t DEF CallError, AdapterSend
  <2>13. ASSUME NEW c \in Calls, Listen(c) \/ WorkerExits(c)
         PROVE  AnswerInv'
    BY <2>13, <2>t DEF Listen, WorkerExits, Exit, vars
  <2> QED
    BY <2>1, <2>2, <2>3, <2>5, <2>6, <2>7, <2>8, <2>9, <2>10, <2>11, <2>12, <2>13
       DEF RpcNext, StartFails, DialCancelled, CallFails, TimesOut
<1> QED
  BY <1>1, <1>2, RpcTypeCorrect, PTL DEF RpcSpec

\* A worker may go on with messages that were given up, but somebody waits for
\* one of them at most: the call that has sendLock.
THEOREM Awaited == RpcSpec => []OneAwaited
<1>1. RpcTypeOK /\ AnswerInv /\ LockInv => OneAwaited
  <2> SUFFICES ASSUME RpcTypeOK, AnswerInv, LockInv,
                      NEW w \in Calls, NEW c \in inbox[w], NEW d \in inbox[w],
                      c # d, "error" \notin {answer[c], answer[d]}
               PROVE  FALSE
    BY DEF OneAwaited
  <2>1. c \in Calls /\ d \in Calls
    BY DEF RpcTypeOK
  <2>2. pc[c] = "send" /\ pc[d] = "send"
    BY <2>1 DEF AnswerInv
  <2>3. sendLock = c /\ sendLock = d
    BY <2>1, <2>2 DEF LockInv, LockedBy
  <2> QED
    BY <2>3
<1> QED
  BY <1>1, AnswerInvCorrect, RpcTypeCorrect, Implements, LockCorrect, PTL

-----------------------------------------------------------------------------
(* The backoff between two dials.                                           *)

\* The delay is the one of the last dial; retry Width and all beyond it are one.
BackoffInv ==
    \A c \in Calls :
        /\ delay[c] <= MaxDelay
        /\ retry[c] = 0 => delay[c] = 0
        /\ retry[c] \in 1 .. Width - 1 => delay[c] = Backoff(retry[c] - 1)

\* Only a dial that fails sets the delay, and whatever ends the loop resets it.
LEMMA DelaySteps ==
    ASSUME [RpcNext]_allVars
    PROVE  \/ UNCHANGED <<retry, delay>>
           \/ \E c \in Calls : LeaveLoop(c) \/ DialFails(c)
<1> USE DEF rpcVars, dialVars
<1>1. CASE UNCHANGED allVars
  BY <1>1 DEF allVars
<1>2. CASE DispatcherStart \/ ContextEnds
  BY <1>2 DEF DispatcherStart, ContextEnds
<1>3. ASSUME NEW c \in Calls,
             DispatcherSend(c) \/ DispatcherShutdown(c) \/ Supervise(c) \/ WaitReturns(c)
      PROVE  UNCHANGED <<retry, delay>>
  BY <1>3 DEF DispatcherSend, DispatcherShutdown, Supervise, CallStep, WaitReturns
<1>4. ASSUME NEW c \in Calls,
             CallerEnds(c) \/ StartWorker(c) \/ BackoffEnds(c) \/ Listen(c) \/ WorkerExits(c)
      PROVE  UNCHANGED <<retry, delay>>
  BY <1>4 DEF CallerEnds, StartWorker, BackoffEnds, Listen, WorkerExits
<1>5. ASSUME NEW c \in Calls, Post(c) \/ Reply(c) \/ CallFails(c) \/ TimesOut(c)
      PROVE  UNCHANGED <<retry, delay>>
  BY <1>5 DEF Post, Reply, CallFails, TimesOut, CallError
<1>6. ASSUME NEW c \in Calls, StartFails(c) \/ DialSucceeds(c) \/ DialCancelled(c)
      PROVE  LeaveLoop(c)
  BY <1>6 DEF StartFails, DialSucceeds, DialCancelled, GiveUp
<1> QED
  BY <1>1, <1>2, <1>3, <1>4, <1>5, <1>6 DEF RpcNext

\* Until the product overflows, the delay is the product or the cap, and the
\* overflow comes before retry Width.
LEMMA BackoffValue ==
    ASSUME NEW i \in 0 .. Width, BaseDelay * 2 ^ i < 2 ^ (Width - 1)
    PROVE  /\ i # Width /\ BaseDelay * 2 ^ i \in Nat
           /\ Backoff(i) = IF BaseDelay * 2 ^ i > MaxDelay THEN MaxDelay ELSE BaseDelay * 2 ^ i
<1>1. Width - 1 \in 0 .. Width /\ Width \in 0 .. Width /\ (Width - 1) + 1 = Width
  BY RpcAssumption
<1>2. PICK half \in Nat \ {0} : half = 2 ^ (Width - 1) /\ 2 ^ Width = 2 * half
  BY <1>1, RpcAssumption
<1>3. PICK base \in Nat \ {0} : base = BaseDelay
  BY RpcAssumption
<1>4. PICK power \in Nat \ {0} : power = 2 ^ i
  BY RpcAssumption
<1>5. base * power \in Nat
  OBVIOUS
<1>6. i # Width
  <2> SUFFICES ASSUME i = Width PROVE FALSE
    OBVIOUS
  <2>1. power = 2 * half
    BY <1>2, <1>4
  <2>2. base * power >= power
    OBVIOUS
  <2> QED
    BY <1>2, <1>3, <1>4, <1>5, <2>1, <2>2
<1>7. PICK product \in Nat : product = BaseDelay * 2 ^ i
  BY <1>3, <1>4, <1>5
<1>8. Wrap(product) = product
  <2>1. \A a \in Nat, b \in Nat \ {0} : a < b => a % b = a
    OBVIOUS
  <2>2. product + half \in Nat /\ 2 * half \in Nat \ {0} /\ product + half < 2 * half
    BY <1>2, <1>7
  <2>3. (product + half) % (2 * half) = product + half
    BY <2>1, <2>2
  <2> QED
    BY <1>2, <2>3 DEF Wrap
<1> QED
  BY <1>6, <1>7, <1>8 DEF Backoff

\* No delay exceeds the cap, overflown or not.
LEMMA BackoffInvCorrect == RpcSpec => []BackoffInv
<1>1. RpcInit => BackoffInv
  <2> SUFFICES ASSUME RpcInit, NEW c \in Calls
               PROVE  /\ delay[c] <= MaxDelay
                      /\ retry[c] = 0 => delay[c] = 0
                      /\ retry[c] \in 1 .. Width - 1 => delay[c] = Backoff(retry[c] - 1)
    BY DEF BackoffInv
  <2>1. retry[c] = 0 /\ delay[c] = 0
    BY DEF RpcInit
  <2>2. retry[c] \notin 1 .. Width - 1 /\ delay[c] <= MaxDelay
    BY <2>1, RpcAssumption
  <2> QED
    BY <2>1, <2>2
<1>2. RpcTypeOK /\ BackoffInv /\ [RpcNext]_allVars => BackoffInv'
  <2> SUFFICES ASSUME RpcTypeOK, BackoffInv, [RpcNext]_allVars PROVE BackoffInv'
    OBVIOUS
  <2>0. retry \in [Calls -> 0 .. Width] /\ delay \in [Calls -> Int]
    BY DEF RpcTypeOK
  <2>1. CASE UNCHANGED <<retry, delay>>
    BY <2>1 DEF BackoffInv, Backoff, Wrap
  <2>2. ASSUME NEW c \in Calls, LeaveLoop(c)
        PROVE  BackoffInv'
    <3>1. retry' = [retry EXCEPT ![c] = 0] /\ delay' = [delay EXCEPT ![c] = 0]
      BY <2>2 DEF LeaveLoop
    <3> QED
      BY <2>0, <3>1, RpcAssumption DEF BackoffInv
  <2>3. ASSUME NEW c \in Calls, DialFails(c)
        PROVE  BackoffInv'
    <3>1. /\ delay' = [delay EXCEPT ![c] = Backoff(retry[c])]
          /\ retry' = [retry EXCEPT ![c] = IF retry[c] < Width THEN retry[c] + 1 ELSE retry[c]]
      BY <2>3 DEF DialFails
    <3>2. Backoff(retry[c]) \in Int /\ retry[c] \in 0 .. Width
      BY <2>0, BackoffType
    <3>3. Backoff(retry[c]) <= MaxDelay
      BY <3>2, RpcAssumption DEF Backoff
    <3>4. ASSUME NEW d \in Calls
          PROVE  /\ delay'[d] <= MaxDelay
                 /\ retry'[d] = 0 => delay'[d] = 0
                 /\ retry'[d] \in 1 .. Width - 1 => delay'[d] = Backoff(retry'[d] - 1)
      <4>1. CASE d = c
        <5>1. delay'[d] = Backoff(retry[c]) /\ retry'[d] # 0
          BY <2>0, <3>1, <3>2, <4>1, RpcAssumption
        <5>2. retry'[d] \in 1 .. Width - 1 => retry'[d] - 1 = retry[c]
          BY <2>0, <3>1, <3>2, <4>1, RpcAssumption
        <5> QED
          BY <3>3, <5>1, <5>2
      <4>2. CASE d # c
        BY <2>0, <3>1, <4>2 DEF BackoffInv
      <4> QED
        BY <4>1, <4>2
    <3> QED
      BY <3>4 DEF BackoffInv, Backoff, Wrap
  <2> QED
    BY <2>1, <2>2, <2>3, DelaySteps
<1> QED
  BY <1>1, <1>2, RpcTypeCorrect, PTL DEF RpcSpec

\* Until the product of the backoff overflows, delays never shrink, and they
\* never exceed the cap (dialRpcWithRetry, adapter_rpc.go), for every width and
\* every pair of delays.
THEOREM Paced == RpcSpec => BackoffPaced
<1> DEFINE A == \A c \in Calls :
                  /\ delay'[c] <= MaxDelay
                  /\ c \in dialling' /\ BaseDelay * 2 ^ retry[c] < 2 ^ (Width - 1)
                        => delay'[c] >= delay[c]
<1>1. RpcTypeOK /\ BackoffInv /\ BackoffInv' /\ [RpcNext]_allVars => A
  <2> SUFFICES ASSUME RpcTypeOK, BackoffInv, BackoffInv', [RpcNext]_allVars, NEW c \in Calls
               PROVE  /\ delay'[c] <= MaxDelay
                      /\ c \in dialling' /\ BaseDelay * 2 ^ retry[c] < 2 ^ (Width - 1)
                            => delay'[c] >= delay[c]
    OBVIOUS
  <2>0. retry \in [Calls -> 0 .. Width] /\ delay \in [Calls -> Int]
    BY DEF RpcTypeOK
  <2>1. delay'[c] <= MaxDelay
    BY DEF BackoffInv
  <2> SUFFICES ASSUME c \in dialling', BaseDelay * 2 ^ retry[c] < 2 ^ (Width - 1)
               PROVE  delay'[c] >= delay[c]
    BY <2>1
  <2>2. CASE UNCHANGED <<retry, delay>>
    BY <2>0, <2>2
  <2>3. ASSUME NEW d \in Calls, LeaveLoop(d)
        PROVE  delay'[c] >= delay[c]
    BY <2>0, <2>3 DEF LeaveLoop
  <2>4. ASSUME NEW d \in Calls, DialFails(d)
        PROVE  delay'[c] >= delay[c]
    <3>1. CASE d # c
      BY <2>0, <2>4, <3>1 DEF DialFails
    <3>2. CASE d = c
      <4>1. PICK i \in 0 .. Width : i = retry[c]
        BY <2>0
      <4>2. delay'[c] = Backoff(i)
        BY <2>0, <2>4, <3>2, <4>1 DEF DialFails
      <4>3. /\ i # Width /\ BaseDelay * 2 ^ i \in Nat
            /\ Backoff(i) = IF BaseDelay * 2 ^ i > MaxDelay THEN MaxDelay ELSE BaseDelay * 2 ^ i
        BY <4>1, BackoffValue
      <4>4. CASE i = 0
        <5>1. delay[c] = 0 /\ MaxDelay \in Nat
          BY <4>1, <4>4, RpcAssumption DEF BackoffInv
        <5> QED
          BY <4>2, <4>3, <5>1
      <4>5. CASE i # 0
        <5>1. PICK j \in 0 .. Width : j = i - 1 /\ i = j + 1
          BY <4>5, RpcAssumption
        <5>2. delay[c] = Backoff(j)
          <6>1. i \in 1 .. Width - 1 /\ i - 1 = j
            BY <4>3, <4>5, <5>1, RpcAssumption
          <6>2. delay[c] = Backoff(retry[c] - 1)
            BY <4>1, <6>1 DEF BackoffInv
          <6> QED
            BY <4>1, <6>1, <6>2
        <5>3. PICK before \in Nat : before = BaseDelay * 2 ^ j
          BY RpcAssumption
        <5>4. BaseDelay * 2 ^ i = 2 * before
          BY <5>1, <5>3, RpcAssumption
        <5>5. Backoff(j) = IF before > MaxDelay THEN MaxDelay ELSE before
          <6>1. PICK half \in Nat : half = 2 ^ (Width - 1)
            <7>1. Width - 1 \in 0 .. Width
              BY RpcAssumption
            <7> QED
              BY <7>1, RpcAssumption
          <6>2. before < 2 ^ (Width - 1)
            BY <4>1, <5>4, <6>1
          <6> QED
            BY <5>3, <6>2, BackoffValue
        <5> QED
          BY <4>2, <4>3, <5>2, <5>4, <5>5, RpcAssumption
      <4> QED
        BY <4>4, <4>5
    <3> QED
      BY <3>1, <3>2
  <2> QED
    BY <2>2, <2>3, <2>4, DelaySteps
<1> QED
  BY <1>1, BackoffInvCorrect, RpcTypeCorrect, PTL DEF RpcSpec, BackoffPaced
=============================================================================
