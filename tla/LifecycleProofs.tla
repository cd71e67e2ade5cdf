--------------------------- MODULE LifecycleProofs ---------------------------
(***************************************************************************)
(* Proofs about Lifecycle for every set of requests and every command.     *)
(* ServeInv says what the plain HTTP server and the runtime have come to   *)
(* at each place of the shell.                                             *)
(***************************************************************************)
EXTENDS Lifecycle, TLAPS

\* The runtime is there from before the server until after it, and a server
\* that has stopped lets no request in that was not there before.
ServeInv ==
    mode = "serve" =>
        /\ pc \in {"parsing", "starting"} => front = "none"
        /\ pc \in {"startingFront", "rollback", "running", "stopping", "stoppingRuntime"} =>
            runtime = "started"
        /\ pc \in {"startingFront", "rollback"} => front = "none"
        /\ front \in {"none", "binding", "unbound"} => inflight = {}
        /\ front # "none" => runtime # "new"
        /\ pc = "stoppingRuntime" => front \in {"unbound", "closed"} /\ inflight = {}
        /\ runtime = "stopped" =>
            front \in {"none", "unbound", "closed"} /\ inflight = {} /\ (io # "file" => ~worker)
        /\ runtime = "stopped" => pc \in {"stopped", "returned", "exited"}
        /\ pc = "stopped" \/ code = 0 => runtime = "stopped"

-----------------------------------------------------------------------------
\* Every variable keeps its type, and the two exit codes are set when the
\* shell returns and when the process exits.
THEOREM TypeCorrect == Spec => []TypeOK
<1>1. Init => TypeOK
  BY DEF Init, TypeOK, ConfigInit, ConfigTypeOK, Sources
<1>2. TypeOK /\ [Next]_vars => TypeOK'
  <2> SUFFICES ASSUME TypeOK, [Next]_vars PROVE TypeOK'
    OBVIOUS
  <2> USE DEF TypeOK, ConfigTypeOK, configVars, Interfaces
  <2>1. CASE UNCHANGED vars
    BY <2>1 DEF vars, appVars
  <2>2. CASE LoadEnvironment /\ UNCHANGED appVars
    BY <2>2 DEF LoadEnvironment, Sources, appVars
  <2>3. CASE LoadFlags /\ UNCHANGED appVars
    <3>1. k' \in Sources \cup {"default"} /\ loaded' = "flags"
      BY <2>3 DEF LoadFlags, FlagValue, Sources
    <3>2. UNCHANGED <<flag, given, mode, io, pc, front, inflight, runtime, worker, code, exitCode>>
      BY <2>3 DEF LoadFlags, appVars
    <3> QED
      BY <3>1, <3>2
  <2>4. CASE SetupFails \/ Build
    BY <2>4 DEF SetupFails, Build
  <2>5. CASE StartRuntime \/ StartRuntimeFails
    <3>1. worker' \in {FALSE, io = "rpc"}
      BY <2>5, Zenon DEF StartRuntime, StartRuntimeFails
    <3>2. worker' \in BOOLEAN
      BY <3>1, Zenon
    <3>3. \/ pc' = "startingFront" /\ runtime' = "started" /\ code' = code
          \/ pc' = "returned" /\ runtime' = runtime /\ code' = 1
      BY <2>5, Zenon DEF StartRuntime, StartRuntimeFails
    <3>4. pc = "starting" /\ UNCHANGED <<configVars, mode, io, front, inflight, exitCode>>
      BY <2>5, Zenon DEF StartRuntime, StartRuntimeFails
    <3> QED
      BY <3>2, <3>3, <3>4
  <2>6. CASE StartFront \/ StartFrontFails
    BY <2>6 DEF StartFront, StartFrontFails
  <2>7. CASE RollBack
    <3>1. worker' \in BOOLEAN
      BY <2>7, Zenon DEF RollBack
    <3> QED
      BY <2>7, <3>1 DEF RollBack
  <2>8. CASE CloseFront \/ FrontStopped \/ StopFails
    BY <2>8 DEF CloseFront, FrontStopped, StopFails
  <2>9. CASE StopRuntime
    <3>1. worker' \in BOOLEAN
      BY <2>9, Zenon DEF StopRuntime
    <3> QED
      BY <2>9, <3>1 DEF StopRuntime
  <2>10. CASE Return
    BY <2>10 DEF Return
  <2>11. CASE Exit
    <3>1. worker' \in BOOLEAN
      BY <2>11, Zenon DEF Exit
    <3> QED
      BY <2>11, <3>1 DEF Exit
  <2>12. CASE Signal \/ Listen \/ Fatal \/ ServeFails
    BY <2>12 DEF Signal, Listen, Fatal, ServeFails, Alive
  <2>13. CASE Boot
    BY <2>13 DEF Boot, Alive
  <2>14. ASSUME NEW q \in Requests, Arrive(q) \/ Finish(q)
         PROVE  TypeOK'
    BY <2>14 DEF Arrive, Finish, Alive
  <2> QED
    BY <2>1, <2>2, <2>3, <2>4, <2>5, <2>6, <2>7, <2>8, <2>9, <2>10, <2>11, <2>12, <2>13, <2>14
       DEF Next, Main, Parse
<1> QED
  BY <1>1, <1>2, PTL DEF Spec

\* ServeInv is inductive.
LEMMA ServeInvCorrect == Spec => []ServeInv
<1>1. Init => ServeInv
  BY DEF Init, ServeInv
<1>2. TypeOK /\ ServeInv /\ [Next]_vars => ServeInv'
  <2> SUFFICES ASSUME TypeOK, ServeInv, [Next]_vars, mode' = "serve" PROVE ServeInv'
    BY DEF ServeInv
  <2> USE DEF TypeOK, ServeInv
  <2>1. CASE UNCHANGED vars
    BY <2>1 DEF vars, appVars
  <2>2. CASE Parse
    BY <2>2 DEF Parse, appVars
  <2>3. CASE SetupFails \/ Build
    BY <2>3 DEF SetupFails, Build
  <2>4. CASE StartRuntime \/ StartRuntimeFails
    <3>1. pc = "starting" /\ UNCHANGED <<mode, io, front, inflight>>
      BY <2>4, Zenon DEF StartRuntime, StartRuntimeFails
    <3>2. \/ pc' = "startingFront" /\ runtime' = "started" /\ code' = code
          \/ pc' = "returned" /\ runtime' = runtime /\ code' = 1
      BY <2>4, Zenon DEF StartRuntime, StartRuntimeFails
    <3> QED
      BY <3>1, <3>2
  <2>5. CASE StartFront \/ StartFrontFails \/ RollBack
    BY <2>5 DEF StartFront, StartFrontFails, RollBack
  <2>6. CASE CloseFront \/ FrontStopped
    BY <2>6 DEF CloseFront, FrontStopped
  <2>7. CASE StopRuntime
    <3>1. /\ pc = "stoppingRuntime" /\ runtime' = "stopped" /\ pc' = "stopped"
          /\ UNCHANGED <<mode, io, front, inflight, code>>
      BY <2>7, Zenon DEF StopRuntime
    <3>2. io # "file" => ~worker'
      BY <2>7, Zenon DEF StopRuntime
    <3> QED
      BY <3>1, <3>2
  <2>12. CASE StopFails
    BY <2>12 DEF StopFails
  <2>8. CASE Return \/ Exit
    BY <2>8 DEF Return, Exit
  <2>9. CASE Signal \/ Listen \/ Fatal \/ ServeFails
    BY <2>9 DEF Signal, Listen, Fatal, ServeFails, Alive
  <2>10. CASE Boot
    BY <2>10 DEF Boot, Alive
  <2>11. ASSUME NEW q \in Requests, Arrive(q) \/ Finish(q)
         PROVE  ServeInv'
    BY <2>11 DEF Arrive, Finish, Alive, Accepting
  <2> QED
    BY <2>1, <2>2, <2>3, <2>4, <2>5, <2>6, <2>7, <2>8, <2>9, <2>10, <2>11, <2>12
       DEF Next, Main
<1> QED
  BY <1>1, <1>2, TypeCorrect, PTL DEF Spec

\* No request of the plain HTTP server meets a runtime that is not started,
\* through start, shutdown and every failure of either.
THEOREM Served == Spec => []RequestsServed
<1>1. TypeOK /\ ServeInv => RequestsServed
  BY DEF TypeOK, ServeInv, RequestsServed
<1> QED
  BY <1>1, TypeCorrect, ServeInvCorrect, PTL

\* A shutdown that ends without an error has answered all requests and leaves
\* no worker, although requests may come in and boot workers until late; but for
\* the file interface, where the pool does not wait for its processes.
THEOREM ExitsClean == Spec => []CleanExit
<1>1. ServeInv => CleanExit
  BY DEF ServeInv, CleanExit
<1> QED
  BY <1>1, ServeInvCorrect, PTL

\* A flag that is given is what its field holds in the end, from the command line
\* or else from the flag's variable; the command line of a duration apart.
THEOREM FlagsWin == Spec => []FlagsDecide
<1> DEFINE Inv == loaded = "flags" => k = FlagValue
<1>1. Init => Inv
  BY DEF Init, ConfigInit
<1>2. Inv /\ [Next]_vars => Inv'
  <2> SUFFICES ASSUME Inv, [Next]_vars PROVE Inv'
    OBVIOUS
  <2>1. CASE Parse
    BY <2>1 DEF Parse, LoadEnvironment, LoadFlags, FlagValue
  <2>2. CASE UNCHANGED configVars
    BY <2>2 DEF configVars, FlagValue
  <2>3. [Next]_vars => Parse \/ UNCHANGED configVars
    BY DEF Next, Main, vars, SetupFails, Build, StartRuntime, StartRuntimeFails, StartFront,
           StartFrontFails, RollBack, CloseFront, FrontStopped, StopRuntime, StopFails,
           Return, Exit, Signal, Listen, Fatal, ServeFails, Boot, Arrive, Finish
  <2> QED
    BY <2>1, <2>2, <2>3
<1>3. Inv => FlagsDecide
  BY DEF FlagValue, FlagsDecide
<1> QED
  BY <1>1, <1>2, <1>3, PTL DEF Spec
=============================================================================
