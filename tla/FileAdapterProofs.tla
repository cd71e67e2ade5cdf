-------------------------- MODULE FileAdapterProofs --------------------------
(***************************************************************************)
(* Proofs about FileAdapter for every finite set of messages and every     *)
(* number of leases.  StageInv says what a message at a given stage has,   *)
(* LeaseInv counts the leases.                                             *)
(***************************************************************************)
EXTENDS FileAdapter, FiniteSetTheorems, TLAPS

\* What is there, besides the directory, has its removal deferred; the files
\* are there until Send returns.  A process is started after they were made;
\* Send goes on to the response only when stdout has ended and the process has
\* succeeded.
StageInv ==
    \A q \in Requests :
        /\ stage[q] \notin {"returned", "done"} => files[q] \subseteq {"directory"} \cup deferred[q]
        /\ stage[q] \in {"new", "directory", "request", "response", "write", "start"} =>
             proc[q] = "none"
        /\ stage[q] = "response" => "request" \in files[q]
        /\ stage[q] \in {"write", "start", "stdout", "wait", "decode"} =>
             {"request", "response"} \subseteq files[q]
        /\ stage[q] \in {"returned", "done"} => files[q] \subseteq {"directory"}
        /\ stdout[q] = "open" => stage[q] = "stdout"
        /\ stage[q] = "decode" => proc[q] = "success"
        /\ result[q] = "response" => proc[q] = "success" /\ response[q] = "whole"

LeaseInv == Cardinality(Leased) <= MaxWorkers

-----------------------------------------------------------------------------
\* The variables of the model keep their types: Decode and the other returns
\* of Send give data or an error.
THEOREM TypeCorrect == Spec => []TypeOK
<1>1. Init => TypeOK
  BY DEF Init, TypeOK, Stages
<1>2. TypeOK /\ [Next]_vars => TypeOK'
  <2> SUFFICES ASSUME TypeOK, [Next]_vars PROVE TypeOK'
    OBVIOUS
  <2> USE DEF TypeOK, Stages, fileVars, contextVars, processVars
  <2>1. ASSUME NEW q \in Requests, Lease(q) \/ EndSend(q) \/ StdoutEnds(q) PROVE TypeOK'
    BY <2>1 DEF Lease, EndSend, StdoutEnds
  <2>2. ASSUME NEW q \in Requests, MakeDirectory(q) PROVE TypeOK'
    BY <2>2 DEF MakeDirectory, Return
  <2>3. ASSUME NEW q \in Requests, MakeRequestFile(q) PROVE TypeOK'
    BY <2>3 DEF MakeRequestFile, MakeFile, Return
  <2>4. ASSUME NEW q \in Requests, MakeResponseFile(q) PROVE TypeOK'
    BY <2>4 DEF MakeResponseFile, MakeFile, Return
  <2>5. ASSUME NEW q \in Requests, WriteRequest(q) PROVE TypeOK'
    BY <2>5 DEF WriteRequest, Return
  <2>6. ASSUME NEW q \in Requests, StartWorker(q) PROVE TypeOK'
    BY <2>6 DEF StartWorker, Return
  <2>7. ASSUME NEW q \in Requests, WaitEnds(q) PROVE TypeOK'
    BY <2>7 DEF WaitEnds, Succeeded, Return
  <2>8. ASSUME NEW q \in Requests, Decode(q) PROVE TypeOK'
    BY <2>8 DEF Decode, Return
  <2>9. ASSUME NEW q \in Requests, Dispose(q) \/ CancelWorker(q) PROVE TypeOK'
    BY <2>9 DEF Dispose, CancelWorker
  <2>10. ASSUME NEW q \in Requests, WriteResponse(q) \/ CloseStdout(q) PROVE TypeOK'
    BY <2>10 DEF WriteResponse, CloseStdout
  <2>11. ASSUME NEW q \in Requests, Fork(q) \/ ChildExits(q) PROVE TypeOK'
    <3>1. child' \in [Requests -> BOOLEAN]
      BY <2>11 DEF Fork, ChildExits
    <3>2. stdout' \in [Requests -> {"open", "closed"}]
      BY <2>11 DEF Fork, ChildExits
    <3> QED
      BY <2>11, <3>1, <3>2 DEF Fork, ChildExits
  <2>12. ASSUME NEW q \in Requests, Exit(q) \/ Kill(q) PROVE TypeOK'
    BY <2>12 DEF Exit, Kill, Ends
  <2>13. CASE ClosePool \/ ShutdownReturns
    BY <2>13 DEF ClosePool, ShutdownReturns
  <2>14. CASE UNCHANGED vars
    BY <2>14 DEF vars
  <2> QED
    BY <2>1, <2>2, <2>3, <2>4, <2>5, <2>6, <2>7, <2>8, <2>9, <2>10, <2>11, <2>12, <2>13, <2>14
       DEF Next, Step
<1> QED
  BY <1>1, <1>2, PTL DEF Spec

\* StageInv is inductive.
LEMMA StageInvCorrect == Spec => []StageInv
<1>1. Init => StageInv
  BY DEF Init, StageInv
<1>2. TypeOK /\ StageInv /\ [Next]_vars => StageInv'
  <2> SUFFICES ASSUME TypeOK, StageInv, [Next]_vars PROVE StageInv'
    OBVIOUS
  <2> USE DEF TypeOK, Stages, StageInv, fileVars, contextVars, processVars
  <2>1. ASSUME NEW q \in Requests, Lease(q) \/ EndSend(q) \/ StdoutEnds(q) PROVE StageInv'
    BY <2>1 DEF Lease, EndSend, StdoutEnds
  <2>2. ASSUME NEW q \in Requests, MakeDirectory(q) PROVE StageInv'
    BY <2>2 DEF MakeDirectory, Return
  <2>3. ASSUME NEW q \in Requests, MakeRequestFile(q) PROVE StageInv'
    BY <2>3 DEF MakeRequestFile, MakeFile, Return
  <2>4. ASSUME NEW q \in Requests, MakeResponseFile(q) PROVE StageInv'
    BY <2>4 DEF MakeResponseFile, MakeFile, Return
  <2>5. ASSUME NEW q \in Requests, WriteRequest(q) PROVE StageInv'
    BY <2>5 DEF WriteRequest, Return
  <2>6. ASSUME NEW q \in Requests, StartWorker(q) PROVE StageInv'
    BY <2>6 DEF StartWorker, Return
  <2>7. ASSUME NEW q \in Requests, WaitEnds(q) PROVE StageInv'
    BY <2>7 DEF WaitEnds, Succeeded, Return
  <2>8. ASSUME NEW q \in Requests, Decode(q) PROVE StageInv'
    BY <2>8 DEF Decode, Return
  <2>9. ASSUME NEW q \in Requests, Dispose(q) \/ CancelWorker(q) PROVE StageInv'
    BY <2>9 DEF Dispose, CancelWorker
  <2>10. ASSUME NEW q \in Requests, WriteResponse(q) \/ CloseStdout(q) PROVE StageInv'
    BY <2>10 DEF WriteResponse, CloseStdout
  <2>11. ASSUME NEW q \in Requests, Fork(q) \/ ChildExits(q) PROVE StageInv'
    BY <2>11 DEF Fork, ChildExits
  <2>12. ASSUME NEW q \in Requests, Exit(q) \/ Kill(q) PROVE StageInv'
    BY <2>12 DEF Exit, Kill, Ends
  <2>13. CASE ClosePool \/ ShutdownReturns
    BY <2>13 DEF ClosePool, ShutdownReturns
  <2>14. CASE UNCHANGED vars
    BY <2>14 DEF vars
  <2> QED
    BY <2>1, <2>2, <2>3, <2>4, <2>5, <2>6, <2>7, <2>8, <2>9, <2>10, <2>11, <2>12, <2>13, <2>14
       DEF Next, Step
<1> QED
  BY <1>1, <1>2, TypeCorrect, PTL DEF Spec

\* A response that is returned was written in full by a process that has
\* exited with success: Send looks at the exit status before the file.
THEOREM WholeResponses == Spec => []ResponseComplete
<1>1. StageInv => ResponseComplete
  BY DEF StageInv, ResponseComplete
<1> QED
  BY <1>1, StageInvCorrect, PTL

\* Whichever step of Send fails, the removals deferred by then cover the files
\* made by then; and none runs while the process is waited for.
THEOREM FilesRemoved == Spec => []FilesKept
<1>1. StageInv => FilesKept
  BY DEF StageInv, FilesKept
<1> QED
  BY <1>1, StageInvCorrect, PTL

-----------------------------------------------------------------------------
\* The pool's bound on the leases: only Lease adds one, below the bound.
LEMMA LeaseInvCorrect == Spec => []LeaseInv
<1>1. Init => LeaseInv
  <2> SUFFICES ASSUME Init PROVE LeaseInv
    OBVIOUS
  <2>1. Leased = {}
    BY DEF Init, Leased
  <2> QED
    BY <2>1, FS_EmptySet, FileAssumption DEF LeaseInv
<1>2. TypeOK /\ LeaseInv /\ [Next]_vars => LeaseInv'
  <2> SUFFICES ASSUME TypeOK, LeaseInv, [Next]_vars PROVE LeaseInv'
    OBVIOUS
  <2>1. IsFiniteSet(Leased) /\ Cardinality(Leased) \in Nat
    BY FileAssumption, FS_Subset, FS_CardinalityType DEF Leased
  <2>2. ASSUME NEW q \in Requests, Lease(q) PROVE LeaseInv'
    <3>1. Leased' = Leased \cup {q} /\ q \notin Leased
      BY <2>2 DEF Lease, Leased, TypeOK
    <3>2. Cardinality(Leased') = Cardinality(Leased) + 1
      BY <2>1, <3>1, FS_AddElement
    <3> QED
      BY <2>1, <2>2, <3>2, FileAssumption DEF Lease, LeaseInv
  <2>3. ASSUME Leased' \subseteq Leased PROVE LeaseInv'
    BY <2>1, <2>3, FS_Subset, FS_CardinalityType, FileAssumption DEF LeaseInv
  <2>4. ASSUME NEW q \in Requests, Step(q) PROVE Leased' \subseteq Leased
    BY <2>4 DEF Step, MakeDirectory, MakeRequestFile, MakeResponseFile, MakeFile, WriteRequest,
                StartWorker, StdoutEnds, WaitEnds, Decode, Dispose, Return, Leased, TypeOK
  <2>5. ASSUME NEW q \in Requests,
               \/ EndSend(q) \/ CancelWorker(q) \/ WriteResponse(q) \/ CloseStdout(q)
               \/ Fork(q) \/ ChildExits(q) \/ Exit(q) \/ Kill(q)
        PROVE  Leased' \subseteq Leased
    BY <2>5 DEF EndSend, CancelWorker, WriteResponse, CloseStdout, Fork, ChildExits, Exit, Kill,
                Ends, Leased
  <2>6. CASE ClosePool \/ ShutdownReturns \/ UNCHANGED vars
    BY <2>3, <2>6 DEF ClosePool, ShutdownReturns, vars, Leased
  <2> QED
    BY <2>2, <2>3, <2>4, <2>5, <2>6 DEF Next
<1> QED
  BY <1>1, <1>2, TypeCorrect, PTL DEF Spec

\* Processes that have their stdout are never more than MaxWorkers, and one
\* that Send has left behind has closed it.
THEOREM OpenWorkers == Spec => []OpenWorkersBounded
<1>1. TypeOK /\ StageInv /\ LeaseInv => OpenWorkersBounded
  <2> SUFFICES ASSUME TypeOK, StageInv, LeaseInv PROVE OpenWorkersBounded
    OBVIOUS
  <2> DEFINE Open == {q \in Running : stdout[q] = "open"}
  <2>1. Open \subseteq Leased /\ \A q \in Running \ Leased : stdout[q] = "closed"
    BY DEF TypeOK, StageInv, Running, Leased
  <2>2. IsFiniteSet(Leased) /\ Cardinality(Leased) \in Nat
    BY FileAssumption, FS_Subset, FS_CardinalityType DEF Leased
  <2>3. Cardinality(Open) <= MaxWorkers
    BY <2>1, <2>2, FS_Subset, FS_CardinalityType, FileAssumption DEF LeaseInv
  <2> QED
    BY <2>1, <2>3 DEF OpenWorkersBounded
<1> QED
  BY <1>1, TypeCorrect, StageInvCorrect, LeaseInvCorrect, PTL
=============================================================================
