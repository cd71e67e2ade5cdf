------------------------ MODULE ProcessWorkerProofs ------------------------
(***************************************************************************)
(* Proofs about ProcessWorker for every set of calls of Wait, with and     *)
(* without children that share the worker's stderr.                        *)
(***************************************************************************)
EXTENDS ProcessWorker, TLAPS

\* Every variable keeps its type.
THEOREM TypeCorrect == Spec => []TypeOK
<1>1. Init => TypeOK
  <2> SUFFICES ASSUME Init PROVE TypeOK
    OBVIOUS
  <2>1. {stderrOpen, waitClosed, ctxDone, killed} \subseteq BOOLEAN
    BY DEF Init
  <2> QED
    BY <2>1 DEF Init, TypeOK
<1>2. TypeOK /\ [Next]_vars => TypeOK'
  <2> SUFFICES ASSUME TypeOK, [Next]_vars PROVE TypeOK'
    OBVIOUS
  <2> USE WorkerAssumption DEF processVars, goVars, TypeOK, Causes
  <2>1. CASE Start
    BY <2>1 DEF Start
  <2>2. CASE Exit \/ Fork \/ ChildExits
    <3>1. CASE Exit
      BY <3>1 DEF Exit, Die
    <3>2. CASE Fork
      BY <3>2 DEF Fork
    <3>3. CASE ChildExits
      BY <3>3 DEF ChildExits
    <3> QED
      BY <2>2, <3>1, <3>2, <3>3
  <2>3. CASE Stop \/ Kill
    <3> SUFFICES ASSUME NEW force \in BOOLEAN, Halt(force) PROVE TypeOK'
      BY <2>3 DEF Stop, Kill
    <3> PICK dead \in SUBSET (writers \cup {"worker"}) :
          /\ writers' = writers \ dead
          /\ IF "worker" \in dead /\ proc = "running"
             THEN Die("signal")
             ELSE UNCHANGED <<proc, cause>>
      BY DEF Halt
    <3>1. writers' \in SUBSET {"worker", "child"}
      OBVIOUS
    <3>2. proc' \in {"running", "exited"} /\ cause' \in Causes \cup {"none"}
      BY DEF Halt, Die
    <3>3. UNCHANGED <<goVars, stderrOpen, waitClosed, call, ctxDone>>
      BY DEF Halt
    <3> QED
      BY <3>1, <3>2, <3>3
  <2>4. CASE EndContext \/ Cancel
    <3>1. CASE EndContext
      BY <3>1 DEF EndContext
    <3>2. CASE Cancel /\ proc = "running"
      BY <3>2 DEF Cancel, Die
    <3>3. CASE Cancel /\ proc # "running"
      <4>1. killed' \in BOOLEAN /\ stderrOpen' \in BOOLEAN
        BY <3>3 DEF Cancel
      <4>2. writers' \in SUBSET {"worker", "child"}
        BY <3>3 DEF Cancel
      <4>3. UNCHANGED <<started, reader, waiter, event, waitClosed, call, ctxDone, proc, cause>>
        BY <3>3 DEF Cancel
      <4> QED
        BY <4>1, <4>2, <4>3
    <3> QED
      BY <2>4, <3>1, <3>2, <3>3
  <2>5. CASE ReadStderr
    BY <2>5 DEF ReadStderr
  <2>6. CASE WaiterStep
    <3>1. event' \in Causes \cup {"none", "unknown"} /\ stderrOpen' \in BOOLEAN
      BY <2>6 DEF WaiterStep, StderrDone, ExitEvent
    <3>2. /\ waiter' \in {"stderr", "process", "event"}
          /\ proc' \in {"reaped", proc}
      BY <2>6 DEF WaiterStep, StderrDone
    <3>3. UNCHANGED <<cause, writers, started, reader, killed, waitClosed, call, ctxDone>>
      BY <2>6 DEF WaiterStep, StderrDone
    <3> QED
      BY <3>1, <3>2, <3>3
  <2>7. ASSUME NEW c \in Waits, EnterWait(c) PROVE TypeOK'
    BY <2>7 DEF EnterWait
  <2>8. ASSUME NEW c \in Waits, CloseWait(c) PROVE TypeOK'
    BY <2>8 DEF CloseWait
  <2>9. ASSUME NEW c \in Waits, ReceiveEvent(c) PROVE TypeOK'
    BY <2>9 DEF ReceiveEvent
  <2>10. ASSUME NEW c \in Waits, GiveUp(c) PROVE TypeOK'
    BY <2>10 DEF GiveUp
  <2>11. CASE UNCHANGED vars
    BY <2>11 DEF vars
  <2>12. CASE RefuseStart
    BY <2>12 DEF RefuseStart
  <2> QED
    BY <2>1, <2>2, <2>3, <2>4, <2>5, <2>6, <2>7, <2>8, <2>9, <2>10, <2>11, <2>12 DEF Next, Wait
<1> QED
  BY <1>1, <1>2, PTL DEF Spec

-----------------------------------------------------------------------------
\* The waiting goroutine and the process: an event is made when the process is
\* reaped, and handed over once.
EventInv ==
    /\ started = "new" => waiter = "none"
    /\ killed => ctxDone
    /\ proc \in {"exited", "reaped"} => cause \in Causes
    /\ waiter \in {"event", "done"} =>
        /\ proc = "reaped"
        /\ event = cause \/ (event = "unknown" /\ cause = "success" /\ ctxDone)
    /\ \A c \in Waits : call[c] = "event" => waiter = "done"

\* EventInv is inductive.
LEMMA EventCorrect == Spec => []EventInv
<1>1. Init => EventInv
  BY DEF Init, EventInv
<1>2. TypeOK /\ EventInv /\ [Next]_vars => EventInv'
  <2> SUFFICES ASSUME TypeOK, EventInv, [Next]_vars PROVE EventInv'
    OBVIOUS
  <2> USE WorkerAssumption DEF processVars, goVars, TypeOK, Causes, EventInv
  <2>1. CASE Start
    <3>1. /\ waiter' = "call" /\ started' \in {"ok", "failed"}
          /\ UNCHANGED <<cause, event, call, ctxDone, killed>>
          /\ proc' \in {"running", proc}
      BY <2>1 DEF Start
    <3>2. waiter # "done"
      BY <2>1 DEF Start
    <3> QED
      BY <3>1, <3>2
  <2>2. CASE Exit \/ Fork \/ ChildExits
    BY <2>2 DEF Exit, Fork, ChildExits, Die
  <2>3. CASE Stop \/ Kill
    BY <2>3 DEF Stop, Kill, Halt, Die
  <2>4. CASE EndContext \/ Cancel
    BY <2>4 DEF EndContext, Cancel, Die
  <2>5. CASE ReadStderr
    BY <2>5 DEF ReadStderr
  <2>6. CASE WaiterStep
    BY <2>6 DEF WaiterStep, StderrDone, ExitEvent
  <2>7. ASSUME NEW c \in Waits, EnterWait(c) PROVE EventInv'
    BY <2>7 DEF EnterWait
  <2>8. ASSUME NEW c \in Waits, CloseWait(c) PROVE EventInv'
    BY <2>8 DEF CloseWait
  <2>9. ASSUME NEW c \in Waits, ReceiveEvent(c) PROVE EventInv'
    BY <2>9 DEF ReceiveEvent
  <2>10. ASSUME NEW c \in Waits, GiveUp(c) PROVE EventInv'
    BY <2>10 DEF GiveUp
  <2>11. CASE UNCHANGED vars
    BY <2>11 DEF vars
  <2>12. CASE RefuseStart
    BY <2>12 DEF RefuseStart
  <2> QED
    BY <2>1, <2>2, <2>3, <2>4, <2>5, <2>6, <2>7, <2>8, <2>9, <2>10, <2>11, <2>12 DEF Next, Wait
<1> QED
  BY <1>1, <1>2, TypeCorrect, PTL DEF Spec

\* The exit event a caller gets is that of the reaped process.
THEOREM Truthful == Spec => []EventTruthful
<1>1. EventInv => EventTruthful
  BY DEF EventInv, EventTruthful
<1> QED
  BY <1>1, EventCorrect, PTL

-----------------------------------------------------------------------------
\* stderr and its reader: only the end of the worker context and cmd.Wait close
\* the pipe, and cmd.Wait is called after the reader has ended.
StderrInv ==
    /\ waiter \in {"none", "call", "stderr"} \/ reader \in {"eof", "closed"}
    /\ waiter = "none" <=> started \in {"new", "refused"}
    /\ started = "ok" /\ ~stderrOpen => ctxDone \/ waiter \in {"event", "done"}
    /\ started = "ok" /\ reader = "closed" => ctxDone

\* StderrInv is inductive.
LEMMA StderrCorrect == Spec => []StderrInv
<1>1. Init => StderrInv
  BY DEF Init, StderrInv
<1>2. TypeOK /\ StderrInv /\ [Next]_vars => StderrInv'
  <2> SUFFICES ASSUME TypeOK, StderrInv, [Next]_vars PROVE StderrInv'
    OBVIOUS
  <2> USE WorkerAssumption DEF processVars, goVars, TypeOK, StderrInv
  <2>1. CASE Start
    BY <2>1 DEF Start
  <2>2. CASE Exit \/ Fork \/ ChildExits
    BY <2>2 DEF Exit, Fork, ChildExits, Die
  <2>3. CASE Stop \/ Kill
    BY <2>3 DEF Stop, Kill, Halt, Die
  <2>4. CASE EndContext \/ Cancel
    BY <2>4 DEF EndContext, Cancel, Die
  <2>5. CASE ReadStderr
    BY <2>5 DEF ReadStderr
  <2>6. CASE WaiterStep
    BY <2>6 DEF WaiterStep, StderrDone, ExitEvent
  <2>7. ASSUME NEW c \in Waits, EnterWait(c) PROVE StderrInv'
    BY <2>7 DEF EnterWait
  <2>8. ASSUME NEW c \in Waits, CloseWait(c) PROVE StderrInv'
    BY <2>8 DEF CloseWait
  <2>9. ASSUME NEW c \in Waits, ReceiveEvent(c) PROVE StderrInv'
    BY <2>9 DEF ReceiveEvent
  <2>10. ASSUME NEW c \in Waits, GiveUp(c) PROVE StderrInv'
    BY <2>10 DEF GiveUp
  <2>11. CASE UNCHANGED vars
    BY <2>11 DEF vars
  <2>12. CASE RefuseStart
    BY <2>12 DEF RefuseStart
  <2> QED
    BY <2>1, <2>2, <2>3, <2>4, <2>5, <2>6, <2>7, <2>8, <2>9, <2>10, <2>11, <2>12 DEF Next, Wait
<1> QED
  BY <1>1, <1>2, TypeCorrect, PTL DEF Spec

\* The exit event carries all of stderr unless the worker context has ended.
THEOREM WholeStderr == Spec => []StderrWhole
<1>1. TypeOK /\ StderrInv => StderrWhole
  BY DEF TypeOK, StderrInv, StderrWhole
<1> QED
  BY <1>1, TypeCorrect, StderrCorrect, PTL

-----------------------------------------------------------------------------
Past == {"waiting", "event", "gaveUp"}

\* At most one call is between the first select of Wait and its close, and
\* while one is there the channel is open.
WaitInv ==
    /\ \A c \in Waits :
        /\ call[c] # "panic"
        /\ call[c] = "close" => ~waitClosed
        /\ call[c] \in Past => waitClosed
    /\ \A c, d \in Waits :
        /\ call[c] = "close" /\ call[d] = "close" => c = d
        /\ call[c] \in Past /\ call[d] \in Past => c = d

\* When first selects do not overlap, one call of Wait gets through and the
\* others are refused.
THEOREM SingleWait ==
    ASSUME ~OverlappingWaits
    PROVE  Spec => []OneWaiter
<1>1. Init => WaitInv
  BY DEF Init, WaitInv, Past
<1>2. TypeOK /\ WaitInv /\ [Next]_vars => WaitInv'
  <2> SUFFICES ASSUME TypeOK, WaitInv, [Next]_vars PROVE WaitInv'
    OBVIOUS
  <2> USE WorkerAssumption DEF processVars, goVars, TypeOK, WaitInv, Past
  <2>1. CASE Start
    BY <2>1 DEF Start
  <2>2. CASE Exit \/ Fork \/ ChildExits
    BY <2>2 DEF Exit, Fork, ChildExits, Die
  <2>3. CASE Stop \/ Kill
    BY <2>3 DEF Stop, Kill, Halt, Die
  <2>4. CASE EndContext \/ Cancel
    BY <2>4 DEF EndContext, Cancel, Die
  <2>5. CASE ReadStderr
    BY <2>5 DEF ReadStderr
  <2>6. CASE WaiterStep
    BY <2>6 DEF WaiterStep, StderrDone, ExitEvent
  <2>7. ASSUME NEW c \in Waits, EnterWait(c) PROVE WaitInv'
    BY <2>7 DEF EnterWait
  <2>8. ASSUME NEW c \in Waits, CloseWait(c) PROVE WaitInv'
    BY <2>8 DEF CloseWait
  <2>9. ASSUME NEW c \in Waits, ReceiveEvent(c) PROVE WaitInv'
    BY <2>9 DEF ReceiveEvent
  <2>10. ASSUME NEW c \in Waits, GiveUp(c) PROVE WaitInv'
    BY <2>10 DEF GiveUp
  <2>11. CASE UNCHANGED vars
    BY <2>11 DEF vars
  <2>12. CASE RefuseStart
    BY <2>12 DEF RefuseStart
  <2> QED
    BY <2>1, <2>2, <2>3, <2>4, <2>5, <2>6, <2>7, <2>8, <2>9, <2>10, <2>11, <2>12 DEF Next, Wait
<1>3. WaitInv => OneWaiter
  BY DEF WaitInv, OneWaiter, Past
<1> QED
  BY <1>1, <1>2, <1>3, TypeCorrect, PTL DEF Spec
=============================================================================
