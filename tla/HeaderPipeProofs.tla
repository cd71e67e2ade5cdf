-------------------------- MODULE HeaderPipeProofs --------------------------
(***************************************************************************)
(* Proofs about HeaderPipe, for any number of messages and frames, and     *)
(* every length of a body: what the lock does for the worker's stdin, that *)
(* bodies are read in one piece, and that the frames before any broken     *)
(* output are all read, in their order.                                    *)
(***************************************************************************)
EXTENDS HeaderPipe, SequenceTheorems, TLAPS

LastWritten == stdin[Len(stdin)]

\* While the pipe works, wmu is held by the message whose header is the last
\* thing on it.
LockInv ==
    /\ stdin \in Seq({"header", "body"} \X Writers)
    /\ wmu \in Writers \cup {Unlocked}
    /\ wpc \in [Writers -> {"new", "header", "body", "done", "failed"}]
    /\ broken \in BOOLEAN
    /\ \A m \in Writers : wpc[m] = "body" <=> wmu = m
    /\ ~broken =>
        \A m \in Writers :
            wmu = m <=> Len(stdin) > 0 /\ LastWritten = <<"header", m>>

-----------------------------------------------------------------------------
\* The lock keeps the writes of a message together.
LEMMA LockCorrect == Spec => [](LockInv /\ WritesWhole)
<1> DEFINE Inv == LockInv /\ WritesWhole
<1>1. Init => Inv
  <2> SUFFICES ASSUME Init PROVE Inv
    OBVIOUS
  <2>1. stdin = <<>> /\ Len(stdin) = 0
    BY DEF Init
  <2>2. LockInv
    <3>1. stdin \in Seq({"header", "body"} \X Writers)
      BY <2>1
    <3>2. wmu = Unlocked /\ broken = FALSE /\ wpc = [m \in Writers |-> "new"]
      BY DEF Init
    <3>3. \A m \in Writers : wpc[m] # "body" /\ wmu # m
      BY <3>2, PipeAssumption
    <3>4. broken \in BOOLEAN
      BY <3>2
    <3> QED
      BY <2>1, <3>1, <3>2, <3>3, <3>4 DEF LockInv
  <2>3. WritesWhole
    BY <2>1 DEF WritesWhole
  <2> QED
    BY <2>2, <2>3
<1>2. Inv /\ [Next]_vars => Inv'
  <2> SUFFICES ASSUME Inv, [Next]_vars PROVE Inv'
    OBVIOUS
  <2> USE DEF LockInv, LastWritten
  <2>1. ASSUME UNCHANGED writeVars
        PROVE  Inv'
    BY <2>1 DEF writeVars, WritesWhole
  <2>2. ASSUME NEW m \in Writers, WriteHeader(m)
        PROVE  Inv'
    <3>1. stdin' = Append(stdin, <<"header", m>>) /\ ~broken /\ ~broken' /\ wmu = Unlocked
      BY <2>2 DEF WriteHeader
    <3>2. LockInv'
      BY <2>2, <3>1, PipeAssumption DEF WriteHeader
    <3>3. Len(stdin) > 0 => \A w \in Writers : LastWritten # <<"header", w>>
      BY <3>1, PipeAssumption
    <3>4. Len(stdin) > 0 => LastWritten[1] # "header"
      BY <3>3
    <3>5. WritesWhole'
      BY <3>1, <3>4 DEF WritesWhole
    <3> QED
      BY <3>2, <3>5
  <2>3. ASSUME NEW m \in Writers, WriteBody(m)
        PROVE  Inv'
    <3>1. stdin' = Append(stdin, <<"body", m>>) /\ ~broken /\ ~broken' /\ wmu = m /\ wmu' = Unlocked
      BY <2>3 DEF WriteBody
    <3>2. LockInv'
      BY <2>3, <3>1, PipeAssumption DEF WriteBody
    <3>3. Len(stdin) > 0 /\ LastWritten = <<"header", m>>
      BY <3>1
    <3>4. WritesWhole'
      BY <3>1, <3>3 DEF WritesWhole
    <3> QED
      BY <3>2, <3>4
  <2>4. ASSUME NEW m \in Writers, WriteFails(m)
        PROVE  Inv'
    BY <2>4, PipeAssumption DEF WriteFails, WritesWhole
  <2>5. CASE UNCHANGED vars \/ (\E n \in Lengths : PrintFrame(n))
             \/ (\E kind \in {"stray", "invalid", "tail"} : PrintStray(kind)) \/ CloseStdout
    BY <2>1, <2>5 DEF vars, PrintFrame, PrintStray, CloseStdout
  <2>6. CASE Reading \/ ScanLine \/ DrainLine \/ ReadBody \/ ReadEOF
    BY <2>1, <2>6 DEF Reading, Read, ScanLine, DrainLine, ReadBody, ReadEOF
  <2> QED
    BY <2>2, <2>3, <2>4, <2>5, <2>6 DEF Next
<1> QED
  BY <1>1, <1>2, PTL DEF Spec

\* The worker's stdin is a sequence of whole frames, however many messages are
\* written at a time and wherever the pipe breaks (Write, adapter_rpc_pipe.go).
THEOREM Whole == Spec => []WritesWhole
BY LockCorrect, PTL

-----------------------------------------------------------------------------
(* What stdout looks like.                                                  *)

Units == Lines \cup Bytes
stream == got \o buf

\* From position i + 1 on there are the n bytes of a body, unless it was cut.
BodyAt(i, f, n) ==
    /\ \A j \in 1 .. n : i + j <= Len(stdout) => stdout[i + j] = Unit("byte", f, n - j)
    /\ ~closed => i + n <= Len(stdout)

\* From position i on there are a blank line and a body, unless they were cut.
FrameAt(i, f, n) ==
    /\ i <= Len(stdout) => stdout[i].kind = "blank"
    /\ ~closed => i <= Len(stdout)
    /\ BodyAt(i, f, n)

\* A header is followed by its frame, and frames are in order.
StdoutInv ==
    \A i \in 1 .. Len(stdout) : stdout[i].kind = "header" =>
        /\ stdout[i].frame \in 1 .. printed /\ stdout[i].n \in Lengths
        /\ FrameAt(i + 1, stdout[i].frame, stdout[i].n)
        /\ \A j \in 1 .. Len(stdout) :
            i < j /\ stdout[j].kind = "header" => stdout[i].frame < stdout[j].frame

\* All that has been read is from frames before f.
Fresh(f) == \A i \in 1 .. Len(stream) : stream[i].frame < f

\* f is the frame that is being read.
Current(f) ==
    /\ Fresh(f)
    /\ contentLength \in Lengths
    /\ \A i \in 1 .. Len(stdout) : stdout[i].kind = "header" => f < stdout[i].frame
    /\ reader = "drain" => FrameAt(1, f, contentLength)
    /\ reader = "body" => BodyAt(0, f, contentLength)

CurrentInv == reader \in {"drain", "body"} => \E f \in 1 .. printed : Current(f)

\* What has been read are whole bodies, the last one too.
StreamInv ==
    /\ buf # <<>> => reader = "idle"
    /\ \A i \in 1 .. Len(stream) : stream[i].kind = "byte"
    /\ \A i \in 1 .. Len(stream) - 1 :
        \/ stream[i + 1].frame = stream[i].frame /\ stream[i + 1].n = stream[i].n - 1
        \/ stream[i + 1].frame > stream[i].frame /\ stream[i].n = 0
    /\ Len(stream) > 0 => stream[Len(stream)].n = 0
    /\ \A i \in 1 .. Len(stdout) : stdout[i].kind = "header" => Fresh(stdout[i].frame)
    /\ Fresh(printed + 1)

\* The part of TypeOK that is about reading.
ReadType ==
    /\ stdout \in Seq(Units) /\ buf \in Seq(Bytes) /\ got \in Seq(Bytes)
    /\ printed \in 0 .. MaxFrames /\ owed \in Seq(Bytes)
    /\ harmed \in BOOLEAN /\ closed \in BOOLEAN
    /\ reader \in {"idle", "scan", "drain", "body", "failed", "panicked"}
    /\ room \in Sizes \cup {0} /\ contentLength \in Lengths \cup {0}

ReadInv == ReadType /\ StdoutInv /\ CurrentInv /\ StreamInv

\* Stdout loses its first m units; more may be printed behind the others, or
\* some of the last be lost as it ends.
Moved(m) ==
    /\ m \in 0 .. Len(stdout)
    /\ stdout' \in Seq(Units) /\ Len(stdout') \in Nat
    /\ \A i \in 1 .. Len(stdout') : i + m <= Len(stdout) => stdout'[i] = stdout[i + m]
    /\ closed => closed' /\ Len(stdout') <= Len(stdout) - m
    /\ ~closed' => Len(stdout) - m <= Len(stdout')

\* The fields of a unit; text is made of bytes.
LEMMA UnitFields ==
    ASSUME NEW u \in Units
    PROVE  /\ u.frame \in Nat /\ u.n \in Int
           /\ u.kind \in {"header", "blank", "stray", "invalid", "byte", "tail"}
           /\ u.kind \in {"byte", "tail"} => u \in Bytes
BY DEF Units, Lines, Bytes

\* What is printed is made of units.
LEMMA UnitType ==
    ASSUME NEW f \in Nat, NEW n \in Int
    PROVE  /\ \A kind \in {"header", "blank", "stray", "invalid"} : Unit(kind, f, n) \in Units
           /\ n >= 0 => \A kind \in {"byte", "tail"} :
                Unit(kind, f, n) \in Units /\ Unit(kind, f, n) \in Bytes
           /\ \A kind : /\ Unit(kind, f, n).kind = kind /\ Unit(kind, f, n).frame = f
                        /\ Unit(kind, f, n).n = n
BY DEF Units, Lines, Bytes, Unit

\* Frames stay what they are wherever they move.
LEMMA FramesMove ==
    ASSUME stdout \in Seq(Units), NEW m, Moved(m), NEW f, NEW n \in Int, NEW i \in Nat
    PROVE  /\ BodyAt(i + m, f, n) => BodyAt(i, f, n)'
           /\ i > 0 /\ FrameAt(i + m, f, n) => FrameAt(i, f, n)'
<1>1. Len(stdout) \in Nat /\ Len(stdout') \in Nat /\ m \in Nat
  BY DEF Moved
<1>2. ASSUME BodyAt(i + m, f, n)
      PROVE  BodyAt(i, f, n)'
  <2>1. ASSUME NEW j \in 1 .. n, i + j <= Len(stdout')
        PROVE  stdout'[i + j] = Unit("byte", f, n - j)
    <3>1. i + j + m <= Len(stdout)
      BY <1>1, <1>2, <2>1 DEF Moved, BodyAt
    <3>2. stdout'[i + j] = stdout[(i + j) + m]
      BY <1>1, <2>1, <3>1 DEF Moved
    <3>3. stdout[(i + m) + j] = Unit("byte", f, n - j)
      BY <1>1, <1>2, <3>1 DEF BodyAt
    <3>4. (i + j) + m = (i + m) + j
      BY <1>1
    <3> QED
      BY <3>2, <3>3, <3>4
  <2>2. ~closed' => i + n <= Len(stdout')
    BY <1>1, <1>2 DEF Moved, BodyAt
  <2> QED
    BY <2>1, <2>2 DEF BodyAt
<1>3. ASSUME i > 0, FrameAt(i + m, f, n)
      PROVE  FrameAt(i, f, n)'
  <2>1. BodyAt(i, f, n)'
    BY <1>2, <1>3 DEF FrameAt
  <2>2. i <= Len(stdout') => stdout'[i].kind = "blank"
    BY <1>1, <1>3 DEF Moved, FrameAt
  <2>3. ~closed' => i <= Len(stdout')
    BY <1>1, <1>3 DEF Moved, FrameAt
  <2> QED
    BY <2>1, <2>2, <2>3 DEF FrameAt
<1> QED
  BY <1>2, <1>3

\* A line or a body is taken off stdout.
LEMMA DropMoves ==
    ASSUME stdout \in Seq(Units), NEW m \in 0 .. Len(stdout), UNCHANGED closed,
           stdout' = SubSeq(stdout, m + 1, Len(stdout))
    PROVE  Moved(m) /\ Len(stdout') = Len(stdout) - m
<1>1. stdout' \in Seq(Units)
  BY SubSeqProperties
<1>2. Len(stdout') = Len(stdout) - m
  BY SubSeqProperties
<1>3. \A i \in 1 .. Len(stdout') : stdout'[i] = stdout[i + m]
  BY SubSeqProperties
<1> QED
  BY <1>1, <1>2, <1>3 DEF Moved

\* Something is printed.
LEMMA PrintMoves ==
    ASSUME stdout \in Seq(Units), ~closed, ~closed', NEW t \in Seq(Units), stdout' = stdout \o t
    PROVE  /\ Moved(0) /\ Len(stdout') = Len(stdout) + Len(t) /\ Len(t) \in Nat
           /\ \A i \in 1 .. Len(t) : stdout'[Len(stdout) + i] = t[i]
<1>1. stdout' \in Seq(Units) /\ Len(stdout') = Len(stdout) + Len(t)
  BY ConcatProperties
<1>2. \A i \in 1 .. Len(stdout) : stdout'[i] = stdout[i]
  BY ConcatProperties
<1>3. \A i \in 1 .. Len(t) : stdout'[Len(stdout) + i] = t[i]
  BY ConcatProperties
<1> QED
  BY <1>1, <1>2, <1>3 DEF Moved

\* Stdout ends.
LEMMA CloseMoves ==
    ASSUME stdout \in Seq(Units), CloseStdout
    PROVE  Moved(0) /\ Len(stdout') <= Len(stdout)
<1>1. PICK k \in 0 .. Len(stdout) : stdout' = SubSeq(stdout, 1, k)
  BY DEF CloseStdout
<1>2. stdout' \in Seq(Units) /\ Len(stdout') = k /\ \A i \in 1 .. k : stdout'[i] = stdout[i]
  BY <1>1, SubSeqProperties
<1> QED
  BY <1>2 DEF Moved, CloseStdout

\* A frame is printed.
LEMMA FramePrinted ==
    ASSUME stdout \in Seq(Units), printed \in Nat, NEW n \in Int, PrintFrame(n),
           NEW L, L = Len(stdout), NEW f, f = printed + 1
    PROVE  /\ Moved(0) /\ ~closed /\ ~closed' /\ printed' = f
           /\ Len(stdout') = L + 2 + (IF n > 0 THEN n ELSE 0)
           /\ stdout'[L + 1] = Unit("header", f, n)
           /\ FrameAt(L + 2, f, n)'
           /\ \A i \in L + 2 .. Len(stdout') : stdout'[i].kind \in {"blank", "byte"}
           /\ Body(f, n) \in Seq(Bytes)
           /\ Len(Body(f, n)) = IF n > 0 THEN n ELSE 0
           /\ \A j \in 1 .. n : Body(f, n)[j] = Unit("byte", f, n - j)
<1> DEFINE head == <<Unit("header", f, n), Unit("blank", 0, 0)>>
           size == IF n > 0 THEN n ELSE 0
<1>0. L \in Nat /\ f \in Nat
  OBVIOUS
<1>1. ~closed /\ ~closed' /\ printed' = f /\ stdout' = (stdout \o head) \o Body(f, n)
  BY DEF PrintFrame, Printing
<1>2. head \in Seq(Units) /\ Len(head) = 2 /\ head[1] = Unit("header", f, n)
      /\ head[2] = Unit("blank", 0, 0)
  BY UnitType
<1>3. 1 .. n = 1 .. size /\ size \in Nat
  OBVIOUS
<1>4. /\ Body(f, n) \in Seq(Bytes) /\ Body(f, n) \in Seq(Units) /\ Len(Body(f, n)) = size
      /\ \A j \in 1 .. n : Body(f, n)[j] = Unit("byte", f, n - j)
  <2>1. Body(f, n) = [j \in 1 .. size |-> Unit("byte", f, n - j)]
    BY <1>3 DEF Body
  <2>2. \A j \in 1 .. size : Unit("byte", f, n - j) \in Units /\ Unit("byte", f, n - j) \in Bytes
    BY <1>3, UnitType
  <2> HIDE DEF size
  <2> QED
    BY <1>3, <2>1, <2>2
<1> HIDE DEF size, head
<1>5. stdout \o head \in Seq(Units) /\ Len(stdout \o head) = L + 2
      /\ (stdout \o head)[L + 1] = head[1] /\ (stdout \o head)[L + 2] = head[2]
      /\ \A i \in 1 .. L : (stdout \o head)[i] = stdout[i]
  <2>1. /\ stdout \o head \in Seq(Units)
        /\ Len(stdout \o head) = L + Len(head)
        /\ \A i \in 1 .. L + Len(head) :
             (stdout \o head)[i] = IF i <= L THEN stdout[i] ELSE head[i - L]
    BY <1>2, ConcatProperties
  <2> QED
    BY <1>2, <2>1
<1>6. /\ stdout' \in Seq(Units) /\ Len(stdout') = L + 2 + size
      /\ \A i \in 1 .. L + 2 : stdout'[i] = (stdout \o head)[i]
      /\ \A j \in 1 .. size : stdout'[L + 2 + j] = Body(f, n)[j]
  <2> DEFINE front == stdout \o head
  <2>1. front \in Seq(Units) /\ Len(front) = L + 2
    BY <1>5
  <2> HIDE DEF front
  <2>2. /\ front \o Body(f, n) \in Seq(Units)
        /\ Len(front \o Body(f, n)) = Len(front) + Len(Body(f, n))
        /\ \A i \in 1 .. Len(front) + Len(Body(f, n)) :
             (front \o Body(f, n))[i] = IF i <= Len(front) THEN front[i]
                                        ELSE Body(f, n)[i - Len(front)]
    BY <1>4, <2>1, ConcatProperties
  <2>3. stdout' = front \o Body(f, n)
    BY <1>1 DEF front
  <2>4. /\ stdout' \in Seq(Units) /\ Len(stdout') = L + 2 + size
        /\ \A i \in 1 .. L + 2 : stdout'[i] = front[i]
        /\ \A j \in 1 .. size : stdout'[L + 2 + j] = Body(f, n)[j]
    <3>1. stdout' \in Seq(Units) /\ Len(stdout') = L + 2 + size
      BY <1>4, <2>1, <2>2, <2>3
    <3>2. \A i \in 1 .. L + 2 : stdout'[i] = front[i]
      BY <1>0, <1>3, <1>4, <2>1, <2>2, <2>3
    <3>3. ASSUME NEW j \in 1 .. size
          PROVE  stdout'[L + 2 + j] = Body(f, n)[j]
      <4>1. L + 2 + j \in 1 .. Len(front) + Len(Body(f, n)) /\ ~(L + 2 + j <= Len(front))
            /\ (L + 2 + j) - Len(front) = j
        BY <1>0, <1>3, <1>4, <2>1
      <4> QED
        BY <2>2, <2>3, <4>1
    <3> QED
      BY <3>1, <3>2, <3>3
  <2> QED
    BY <2>4 DEF front
<1>7. Moved(0)
  BY <1>1, <1>3, <1>5, <1>6 DEF Moved
<1>8. stdout'[L + 1] = Unit("header", f, n) /\ stdout'[L + 2] = Unit("blank", 0, 0)
  BY <1>2, <1>5, <1>6
<1>9. BodyAt(L + 2, f, n)'
  <2>1. \A j \in 1 .. n : stdout'[L + 2 + j] = Unit("byte", f, n - j)
    BY <1>3, <1>4, <1>6
  <2>2. L + 2 + n <= Len(stdout')
    BY <1>3, <1>6 DEF size
  <2> QED
    BY <2>1, <2>2 DEF BodyAt
<1>10. Unit("blank", 0, 0).kind = "blank" /\ \A j : Unit("byte", f, n - j).kind = "byte"
  BY DEF Unit
<1>11. FrameAt(L + 2, f, n)'
  <2>1. L + 2 <= Len(stdout')
    BY <1>3, <1>6
  <2> QED
    BY <1>8, <1>9, <1>10, <2>1 DEF FrameAt
<1>12. ASSUME NEW i \in L + 2 .. Len(stdout')
       PROVE  stdout'[i].kind \in {"blank", "byte"}
  <2>1. CASE i = L + 2
    BY <1>8, <1>10, <2>1
  <2>2. CASE i # L + 2
    <3>1. PICK j \in 1 .. size : i = L + 2 + j
      <4>1. i - (L + 2) \in 1 .. size
        BY <1>3, <1>6, <1>12, <2>2
      <4> QED
        BY <4>1
    <3>2. j \in 1 .. n /\ stdout'[i] = Body(f, n)[j]
      BY <1>3, <1>6, <3>1
    <3>3. stdout'[i] = Unit("byte", f, n - j)
      BY <1>4, <3>2
    <3> QED
      BY <1>10, <3>3
  <2> QED
    BY <2>1, <2>2
<1> QED
  BY <1>1, <1>4, <1>6, <1>7, <1>8, <1>11, <1>12 DEF size

\* A line is the first unit, or the first behind some text.
LEMMA LineTaken ==
    ASSUME stdout \in Seq(Units), NEW kind, TakeLine(kind)
    PROVE  \E m \in 1 .. Len(stdout) :
             /\ stdout' = SubSeq(stdout, m + 1, Len(stdout))
             /\ stdout[m].kind \notin {"byte", "tail"}
             /\ \A i \in 1 .. m - 1 : stdout[i].kind \in {"byte", "tail"}
             /\ kind = IF m = 1 THEN stdout[1].kind ELSE "stray"
BY DEF TakeLine, IsLine

\* Nothing of a body is lost between what Read hands out and what it keeps.
LEMMA CopiedWhole ==
    ASSUME got \in Seq(Bytes), NEW bytes \in Seq(Bytes), NEW size \in Nat, Copied(bytes, size)
    PROVE  got' \in Seq(Bytes) /\ buf' \in Seq(Bytes) /\ got' \o buf' = got \o bytes
<1> DEFINE n == IF size < Len(bytes) THEN size ELSE Len(bytes)
<1>1. n \in 0 .. Len(bytes) /\ Len(bytes) \in Nat
  OBVIOUS
<1>2. got' = got \o SubSeq(bytes, 1, n) /\ buf' = SubSeq(bytes, n + 1, Len(bytes))
  BY DEF Copied, HandOut
<1> HIDE DEF n
<1>3. SubSeq(bytes, 1, n) \in Seq(Bytes) /\ SubSeq(bytes, n + 1, Len(bytes)) \in Seq(Bytes)
  BY <1>1, SubSeqProperties
<1>4. SubSeq(bytes, 1, n) \o SubSeq(bytes, n + 1, Len(bytes)) = bytes
  <2>1. /\ 1 \in 1 .. Len(bytes) + 1 /\ n \in 1 - 1 .. Len(bytes)
        /\ Len(bytes) \in n .. Len(bytes)
    BY <1>1
  <2>2. SubSeq(bytes, 1, n) \o SubSeq(bytes, n + 1, Len(bytes)) = SubSeq(bytes, 1, Len(bytes))
    BY <2>1, ConcatAdjacentSubSeq
  <2> QED
    BY <2>2, SubSeqFull
<1>5. (got \o SubSeq(bytes, 1, n)) \o SubSeq(bytes, n + 1, Len(bytes))
      = got \o (SubSeq(bytes, 1, n) \o SubSeq(bytes, n + 1, Len(bytes)))
  <2>1. \A t, u \in Seq(Bytes) : (got \o t) \o u = got \o (t \o u)
    BY ConcatAssociative
  <2> QED
    BY <1>3, <2>1
<1> QED
  BY <1>2, <1>3, <1>4, <1>5, ConcatProperties

-----------------------------------------------------------------------------
(* Bodies are read in one piece.                                            *)

\* Every header on stdout was there before.
NoNewHeader(m) ==
    \A i \in 1 .. Len(stdout') :
        stdout'[i].kind = "header" => i + m \in 1 .. Len(stdout) /\ stdout'[i] = stdout[i + m]

\* Something that is no frame is printed.
LEMMA StrayPrinted ==
    ASSUME stdout \in Seq(Units), NEW kind \in {"stray", "invalid", "tail"}, PrintStray(kind)
    PROVE  /\ Moved(0) /\ Len(stdout') = Len(stdout) + 1
           /\ stdout'[Len(stdout) + 1].kind = kind /\ NoNewHeader(0)
<1>1. Unit(kind, 0, 0) \in Units /\ Unit(kind, 0, 0).kind = kind
  BY UnitType
<1>2. /\ ~closed /\ ~closed' /\ <<Unit(kind, 0, 0)>> \in Seq(Units)
      /\ stdout' = stdout \o <<Unit(kind, 0, 0)>>
  BY <1>1 DEF PrintStray, Printing
<1>3. /\ Moved(0) /\ Len(stdout') = Len(stdout) + 1
      /\ stdout'[Len(stdout) + 1].kind = kind
  <2>1. PICK t \in Seq(Units) : t = <<Unit(kind, 0, 0)>>
    BY <1>2
  <2>2. Len(t) = 1 /\ t[1] = Unit(kind, 0, 0)
    BY <2>1
  <2>3. stdout' = stdout \o t
    BY <1>2, <2>1
  <2>4. /\ Moved(0) /\ Len(stdout') = Len(stdout) + 1
        /\ stdout'[Len(stdout) + 1] = t[1]
    BY <1>2, <2>2, <2>3, PrintMoves
  <2> QED
    BY <1>1, <2>2, <2>4
<1>4. NoNewHeader(0)
  <2> SUFFICES ASSUME NEW i \in 1 .. Len(stdout'), stdout'[i].kind = "header"
               PROVE  i + 0 \in 1 .. Len(stdout) /\ stdout'[i] = stdout[i + 0]
    BY DEF NoNewHeader
  <2>1. Len(stdout) \in Nat /\ i # Len(stdout) + 1
    BY <1>3
  <2>2. i + 0 = i /\ i \in 1 .. Len(stdout)
    BY <1>3, <2>1
  <2> QED
    BY <1>3, <2>2 DEF Moved
<1> QED
  BY <1>3, <1>4

\* The order on stdout survives any move without a new header.
LEMMA StdoutMoves ==
    ASSUME ReadType, StdoutInv, NEW m, Moved(m), NoNewHeader(m), UNCHANGED printed
    PROVE  StdoutInv'
<1>1. m \in Nat /\ Len(stdout) \in Nat /\ Len(stdout') \in Nat /\ stdout \in Seq(Units)
  BY DEF Moved, ReadType
<1>2. ASSUME NEW i \in 1 .. Len(stdout'), stdout'[i].kind = "header"
      PROVE  /\ stdout'[i].frame \in 1 .. printed' /\ stdout'[i].n \in Lengths
             /\ FrameAt(i + 1, stdout[i].frame, stdout[i].n)'
             /\ \A j \in 1 .. Len(stdout') :
                  i < j /\ stdout'[j].kind = "header" => stdout'[i].frame < stdout'[j].frame
  <2>1. i + m \in 1 .. Len(stdout) /\ stdout'[i] = stdout[i + m] /\ stdout[i + m].kind = "header"
    BY <1>2 DEF NoNewHeader
  <2>2. PICK f, n : f = stdout[i + m].frame /\ n = stdout[i + m].n
    OBVIOUS
  <2>3. f \in 1 .. printed /\ n \in Lengths /\ n \in Int
    BY <2>1, <2>2, PipeAssumption DEF StdoutInv
  <2>4. FrameAt((i + 1) + m, f, n)
    <3>1. FrameAt((i + m) + 1, f, n)
      BY <2>1, <2>2 DEF StdoutInv
    <3>2. (i + m) + 1 = (i + 1) + m
      BY <1>1
    <3> QED
      BY <3>1, <3>2
  <2>5. FrameAt(i + 1, f, n)'
    BY <1>1, <2>3, <2>4, FramesMove
  <2>6. FrameAt(i + 1, stdout[i].frame, stdout[i].n)'
    BY <2>1, <2>2, <2>5 DEF FrameAt, BodyAt
  <2>7. ASSUME NEW j \in 1 .. Len(stdout'), i < j, stdout'[j].kind = "header"
        PROVE  stdout'[i].frame < stdout'[j].frame
    <3>1. j + m \in 1 .. Len(stdout) /\ stdout'[j] = stdout[j + m] /\ i + m < j + m
      BY <1>1, <2>7 DEF NoNewHeader
    <3> QED
      BY <2>1, <2>7, <3>1 DEF StdoutInv
  <2> QED
    BY <2>1, <2>2, <2>3, <2>6, <2>7
<1> QED
  BY <1>2 DEF StdoutInv

\* What is printed beside the frames does not disturb them, nor does the end of
\* stdout.
LEMMA Beside ==
    ASSUME ReadInv, Moved(0), NoNewHeader(0), UNCHANGED <<printed, readVars>>
    PROVE  /\ StdoutInv' /\ CurrentInv' /\ StreamInv'
           /\ reader \in {"drain", "body"} => \A f \in 1 .. printed : Current(f) => Current(f)'
<1>1. stdout \in Seq(Units) /\ Len(stdout) \in Nat
  BY DEF ReadInv, ReadType
<1>2. StdoutInv'
  BY StdoutMoves DEF ReadInv
<1>3. UNCHANGED <<stream, reader, contentLength, buf>>
  BY DEF readVars, stream
<1>4. \A i \in 1 .. Len(stdout') : stdout'[i].kind = "header" =>
        i \in 1 .. Len(stdout) /\ stdout'[i] = stdout[i] /\ stdout[i].kind = "header"
  BY <1>1 DEF NoNewHeader
<1>5. ASSUME reader \in {"drain", "body"}, NEW f \in 1 .. printed, Current(f)
      PROVE  Current(f)'
  <2>1. /\ Fresh(f) /\ contentLength \in Lengths
        /\ \A i \in 1 .. Len(stdout) : stdout[i].kind = "header" => f < stdout[i].frame
        /\ reader = "drain" => FrameAt(1, f, contentLength)
        /\ reader = "body" => BodyAt(0, f, contentLength)
    BY <1>5 DEF Current
  <2>2. PICK n \in Int : n = contentLength
    BY <2>1, PipeAssumption
  <2>3. /\ reader = "drain" => FrameAt(1, f, n)'
        /\ reader = "body" => BodyAt(0, f, n)'
    <3>1. 0 \in Nat /\ 1 \in Nat /\ 1 > 0 /\ 0 + 0 = 0 /\ 1 + 0 = 1
      OBVIOUS
    <3>2. FrameAt(1, f, n) => FrameAt(1, f, n)'
      BY <1>1, <2>2, <3>1, FramesMove
    <3>3. BodyAt(0, f, n) => BodyAt(0, f, n)'
      BY <1>1, <2>2, <3>1, FramesMove
    <3> QED
      BY <2>1, <2>2, <3>2, <3>3
  <2>4. Fresh(f)'
    BY <1>3, <2>1 DEF Fresh
  <2>5. \A i \in 1 .. Len(stdout') : stdout'[i].kind = "header" => f < stdout'[i].frame
    BY <1>4, <2>1
  <2>6. /\ reader' = "drain" => FrameAt(1, f, contentLength)'
        /\ reader' = "body" => BodyAt(0, f, contentLength)'
    BY <1>3, <2>2, <2>3 DEF FrameAt, BodyAt
  <2> QED
    BY <1>3, <2>1, <2>4, <2>5, <2>6 DEF Current
<1>6. StreamInv'
  <2>1. \A i \in 1 .. Len(stdout') : stdout'[i].kind = "header" => Fresh(stdout[i].frame)'
    BY <1>3, <1>4 DEF ReadInv, StreamInv, Fresh
  <2>2. Fresh(printed + 1)'
    BY <1>3 DEF ReadInv, StreamInv, Fresh
  <2> QED
    BY <1>3, <2>1, <2>2 DEF ReadInv, StreamInv
<1>7. CurrentInv'
  BY <1>3, <1>5 DEF ReadInv, CurrentInv
<1> QED
  BY <1>2, <1>5, <1>6, <1>7

\* A frame is the last on stdout when it is printed.
LEMMA FrameBeside ==
    ASSUME ReadInv, NEW n \in Lengths, PrintFrame(n)
    PROVE  /\ StdoutInv' /\ CurrentInv' /\ StreamInv'
           /\ reader \in {"drain", "body"} => \A f \in 1 .. printed : Current(f) => Current(f)'
<1>1. stdout \in Seq(Units) /\ Len(stdout) \in Nat /\ printed \in Nat /\ n \in Int
  BY PipeAssumption DEF ReadInv, ReadType
<1>2. PICK L, f : L = Len(stdout) /\ f = printed + 1
  OBVIOUS
<1>3. /\ Moved(0) /\ printed' = f
      /\ Len(stdout') = L + 2 + (IF n > 0 THEN n ELSE 0)
      /\ stdout'[L + 1] = Unit("header", f, n)
      /\ FrameAt(L + 2, f, n)'
      /\ \A i \in L + 2 .. Len(stdout') : stdout'[i].kind \in {"blank", "byte"}
  BY <1>1, <1>2, FramePrinted
<1>4. UNCHANGED <<stream, reader, contentLength, buf>>
  BY DEF PrintFrame, readVars, stream
<1>5. Unit("header", f, n).kind = "header" /\ Unit("header", f, n).frame = f
      /\ Unit("header", f, n).n = n
  BY DEF Unit
<1>6. \A i \in 1 .. L : stdout'[i] = stdout[i]
  BY <1>1, <1>2, <1>3 DEF Moved
<1>7. \A i \in 1 .. Len(stdout') : stdout'[i].kind = "header" => i \in 1 .. L \/ i = L + 1
  BY <1>1, <1>2, <1>3
<1>8. ASSUME NEW i \in 1 .. L, stdout[i].kind = "header"
      PROVE  FrameAt(i + 1, stdout[i].frame, stdout[i].n)'
  <2>1. PICK g, l : g = stdout[i].frame /\ l = stdout[i].n
    OBVIOUS
  <2>2. FrameAt(i + 1, g, l) /\ l \in Int
    BY <1>2, <1>8, <2>1, PipeAssumption DEF ReadInv, StdoutInv
  <2>3. i + 1 \in Nat /\ i + 1 > 0 /\ (i + 1) + 0 = i + 1
    BY <1>1, <1>2
  <2>4. FrameAt(i + 1, g, l)'
    BY <1>1, <1>3, <2>2, <2>3, FramesMove
  <2> QED
    BY <1>6, <1>8, <2>1, <2>4 DEF FrameAt, BodyAt
<1>9. StdoutInv'
  <2>1. ASSUME NEW i \in 1 .. L, stdout[i].kind = "header"
        PROVE  stdout[i].frame \in 1 .. printed /\ stdout[i].n \in Lengths
    BY <1>2, <2>1 DEF ReadInv, StdoutInv
  <2>2. FrameAt((L + 1) + 1, stdout[L + 1].frame, stdout[L + 1].n)'
    <3>1. (L + 1) + 1 = L + 2
      BY <1>1, <1>2
    <3> QED
      BY <1>3, <1>5, <3>1 DEF FrameAt, BodyAt
  <2>3. ASSUME NEW i \in 1 .. Len(stdout'), stdout'[i].kind = "header"
        PROVE  /\ stdout'[i].frame \in 1 .. printed' /\ stdout'[i].n \in Lengths
               /\ FrameAt(i + 1, stdout[i].frame, stdout[i].n)'
               /\ \A j \in 1 .. Len(stdout') :
                    i < j /\ stdout'[j].kind = "header" => stdout'[i].frame < stdout'[j].frame
    <3>1. CASE i \in 1 .. L
      <4>1. stdout'[i] = stdout[i] /\ stdout[i].kind = "header"
        BY <1>6, <2>3, <3>1
      <4>2. stdout'[i].frame \in 1 .. printed' /\ stdout'[i].n \in Lengths
        BY <1>1, <1>2, <1>3, <2>1, <3>1, <4>1
      <4>3. ASSUME NEW j \in 1 .. Len(stdout'), i < j, stdout'[j].kind = "header"
            PROVE  stdout'[i].frame < stdout'[j].frame
        <5>1. CASE j \in 1 .. L
          <6>1. stdout'[j] = stdout[j] /\ j \in 1 .. Len(stdout) /\ i \in 1 .. Len(stdout)
            BY <1>2, <1>6, <5>1, <3>1
          <6> QED
            BY <4>1, <4>3, <6>1 DEF ReadInv, StdoutInv
        <5>2. CASE j = L + 1
          BY <1>1, <1>2, <1>3, <1>5, <2>1, <3>1, <4>1, <5>2
        <5> QED
          BY <1>7, <4>3, <5>1, <5>2
      <4> QED
        BY <1>8, <3>1, <4>1, <4>2, <4>3
    <3>2. CASE i = L + 1
      <4>1. \A j \in 1 .. Len(stdout') : i < j => stdout'[j].kind # "header"
        BY <1>1, <1>2, <1>7, <3>2
      <4>2. stdout'[i].frame \in 1 .. printed' /\ stdout'[i].n \in Lengths
        BY <1>1, <1>2, <1>3, <1>5, <3>2
      <4> QED
        BY <2>2, <3>2, <4>1, <4>2
    <3> QED
      BY <1>7, <2>3, <3>1, <3>2
  <2> QED
    BY <2>3 DEF StdoutInv
<1>10. ASSUME reader \in {"drain", "body"}, NEW g \in 1 .. printed, Current(g)
       PROVE  Current(g)' /\ g \in 1 .. printed'
  <2>1. /\ Fresh(g) /\ contentLength \in Lengths
        /\ \A i \in 1 .. Len(stdout) : stdout[i].kind = "header" => g < stdout[i].frame
        /\ reader = "drain" => FrameAt(1, g, contentLength)
        /\ reader = "body" => BodyAt(0, g, contentLength)
    BY <1>10 DEF Current
  <2>2. PICK l \in Int : l = contentLength
    BY <2>1, PipeAssumption
  <2>3. /\ reader = "drain" => FrameAt(1, g, l)'
        /\ reader = "body" => BodyAt(0, g, l)'
    <3>1. 0 \in Nat /\ 1 \in Nat /\ 1 > 0 /\ 0 + 0 = 0 /\ 1 + 0 = 1
      OBVIOUS
    <3>2. FrameAt(1, g, l) => FrameAt(1, g, l)'
      BY <1>1, <1>3, <2>2, <3>1, FramesMove
    <3>3. BodyAt(0, g, l) => BodyAt(0, g, l)'
      BY <1>1, <1>3, <2>2, <3>1, FramesMove
    <3> QED
      BY <2>1, <2>2, <3>2, <3>3
  <2>4. Fresh(g)'
    BY <1>4, <2>1 DEF Fresh
  <2>5. ASSUME NEW i \in 1 .. Len(stdout'), stdout'[i].kind = "header"
        PROVE  g < stdout'[i].frame
    BY <1>1, <1>2, <1>3, <1>5, <1>6, <1>7, <2>1, <2>5
  <2>6. /\ reader' = "drain" => FrameAt(1, g, contentLength)'
        /\ reader' = "body" => BodyAt(0, g, contentLength)'
    BY <1>4, <2>2, <2>3 DEF FrameAt, BodyAt
  <2>7. g \in 1 .. printed'
    BY <1>1, <1>2, <1>3
  <2> QED
    BY <1>4, <2>1, <2>4, <2>5, <2>6, <2>7 DEF Current
<1>11. StreamInv'
  <2>1. \A i \in 1 .. Len(stream) : stream[i].frame < f
    BY <1>2 DEF ReadInv, StreamInv, Fresh
  <2>2. stream \in Seq(Bytes)
    BY ConcatProperties DEF stream, ReadInv, ReadType
  <2>3. \A i \in 1 .. Len(stream) : stream[i].frame \in Nat
    <3>1. \A i \in 1 .. Len(stream) : stream[i] \in Bytes
      BY <2>2, ElementOfSeq
    <3>2. \A b \in Bytes : b.frame \in Nat
      BY DEF Bytes
    <3> QED
      BY <3>1, <3>2
  <2>4. Fresh(printed + 1)'
    BY <1>1, <1>2, <1>3, <1>4, <2>1, <2>3 DEF Fresh
  <2>5. ASSUME NEW i \in 1 .. Len(stdout'), stdout'[i].kind = "header"
        PROVE  Fresh(stdout[i].frame)'
    <3>1. CASE i \in 1 .. L
      BY <1>2, <1>4, <1>6, <2>5, <3>1 DEF ReadInv, StreamInv, Fresh
    <3>2. CASE i = L + 1
      BY <1>3, <1>4, <1>5, <2>1, <3>2 DEF Fresh
    <3> QED
      BY <1>7, <2>5, <3>1, <3>2
  <2> QED
    BY <1>4, <2>4, <2>5 DEF ReadInv, StreamInv
<1>12. CurrentInv'
  BY <1>4, <1>10 DEF ReadInv, CurrentInv
<1> QED
  BY <1>9, <1>10, <1>11, <1>12

\* What has been taken off stdout leaves the rest as it is.
LEMMA Dropped ==
    ASSUME ReadInv, NEW m \in 0 .. Len(stdout), UNCHANGED <<printed, closed>>,
           stdout' = SubSeq(stdout, m + 1, Len(stdout))
    PROVE  /\ Moved(m) /\ Len(stdout') = Len(stdout) - m /\ Len(stdout) \in Nat
           /\ \A i \in 1 .. Len(stdout') :
                i + m \in 1 .. Len(stdout) /\ stdout'[i] = stdout[i + m]
           /\ StdoutInv'
<1>1. stdout \in Seq(Units) /\ Len(stdout) \in Nat
  BY DEF ReadInv, ReadType
<1>2. Moved(m) /\ Len(stdout') = Len(stdout) - m
  BY <1>1, DropMoves
<1>3. \A i \in 1 .. Len(stdout') : i + m \in 1 .. Len(stdout) /\ stdout'[i] = stdout[i + m]
  BY <1>1, <1>2 DEF Moved
<1>4. NoNewHeader(m)
  BY <1>3 DEF NoNewHeader
<1>5. StdoutInv'
  BY <1>2, <1>4, StdoutMoves DEF ReadInv
<1> QED
  BY <1>1, <1>2, <1>3, <1>5

\* What has been read stays fresh when lines are taken off stdout.
LEMMA StreamKept ==
    ASSUME ReadInv, NEW m \in 0 .. Len(stdout), UNCHANGED <<printed, stream, buf>>,
           \A i \in 1 .. Len(stdout') : i + m \in 1 .. Len(stdout) /\ stdout'[i] = stdout[i + m],
           buf # <<>> => reader' = "idle"
    PROVE  StreamInv'
<1>1. ASSUME NEW i \in 1 .. Len(stdout'), stdout'[i].kind = "header"
      PROVE  Fresh(stdout[i].frame)'
  BY <1>1 DEF ReadInv, StreamInv, Fresh
<1>2. Fresh(printed + 1)'
  BY DEF ReadInv, StreamInv, Fresh
<1> QED
  BY <1>1, <1>2 DEF ReadInv, StreamInv

\* Reading the header of a frame.
LEMMA HeaderRead ==
    ASSUME ReadInv, reader = "scan", TakeLine("header"), contentLength' = stdout[1].n,
           reader' = "drain", UNCHANGED <<room, buf, got, printVars>>
    PROVE  /\ ReadInv' /\ 1 \in 1 .. Len(stdout) /\ stdout[1].kind = "header"
           /\ stdout' = SubSeq(stdout, 1 + 1, Len(stdout))
           /\ \A f : f = stdout[1].frame => f \in 1 .. printed /\ Current(f)'
<1>1. 1 \in 1 .. Len(stdout) /\ stdout' = SubSeq(stdout, 1 + 1, Len(stdout)) /\ stdout[1].kind = "header"
  <2>1. PICK m \in 1 .. Len(stdout) :
          /\ stdout' = SubSeq(stdout, m + 1, Len(stdout))
          /\ "header" = IF m = 1 THEN stdout[1].kind ELSE "stray"
    BY LineTaken DEF ReadInv, ReadType
  <2> QED
    BY <2>1 DEF ReadInv, ReadType
<1>2. UNCHANGED <<printed, closed, owed, harmed, stream>>
  BY DEF printVars, stream
<1>3. /\ Moved(1) /\ StdoutInv'
      /\ \A i \in 1 .. Len(stdout') : i + 1 \in 1 .. Len(stdout) /\ stdout'[i] = stdout[i + 1]
  <2>1. 1 \in 0 .. Len(stdout) /\ stdout' = SubSeq(stdout, 1 + 1, Len(stdout))
    BY <1>1
  <2> QED
    BY <1>2, <2>1, Dropped
<1>4. PICK f, n : f = stdout[1].frame /\ n = stdout[1].n
  OBVIOUS
<1>5. /\ f \in 1 .. printed /\ n \in Lengths /\ n \in Int /\ FrameAt(1 + 1, f, n)
      /\ \A j \in 1 .. Len(stdout) : 1 < j /\ stdout[j].kind = "header" => f < stdout[j].frame
  BY <1>1, <1>4, PipeAssumption DEF ReadInv, StdoutInv
<1>6. Current(f)'
  <2>1. FrameAt(1, f, n)'
    BY <1>3, <1>5, FramesMove DEF ReadInv, ReadType
  <2>2. FrameAt(1, f, contentLength)'
    BY <1>4, <2>1 DEF FrameAt, BodyAt
  <2>3. Fresh(f)'
    BY <1>1, <1>2, <1>4 DEF ReadInv, StreamInv, Fresh
  <2>4. ASSUME NEW i \in 1 .. Len(stdout'), stdout'[i].kind = "header"
        PROVE  f < stdout'[i].frame
    <3>1. i + 1 \in 1 .. Len(stdout) /\ stdout'[i] = stdout[i + 1]
      BY <1>3
    <3>2. 1 < i + 1
      OBVIOUS
    <3>3. PICK k \in 1 .. Len(stdout) : stdout'[i] = stdout[k] /\ 1 < k
      BY <3>1, <3>2
    <3> QED
      BY <1>5, <2>4, <3>3
  <2> QED
    BY <1>2, <1>4, <1>5, <2>2, <2>3, <2>4 DEF Current
<1>7. buf = <<>>
  BY DEF ReadInv, StreamInv
<1>8. StreamInv'
  BY <1>1, <1>2, <1>3, <1>7, StreamKept
<1>9. ReadType'
  BY <1>2, <1>3, <1>4, <1>5 DEF ReadInv, ReadType, Moved
<1>10. CurrentInv'
  BY <1>2, <1>5, <1>6 DEF CurrentInv
<1> QED
  BY <1>1, <1>3, <1>4, <1>5, <1>6, <1>8, <1>9, <1>10 DEF ReadInv

\* Skipping a line, or failing at one.
LEMMA LineSkipped ==
    ASSUME ReadInv, reader = "scan", NEW kind, TakeLine(kind), reader' \in {"scan", "failed"},
           UNCHANGED <<room, contentLength, buf, got, printVars>>
    PROVE  ReadInv'
<1>1. PICK m \in 1 .. Len(stdout) : stdout' = SubSeq(stdout, m + 1, Len(stdout))
  BY LineTaken DEF ReadInv, ReadType
<1>2. UNCHANGED <<printed, closed, owed, harmed, stream>>
  BY DEF printVars, stream
<1>3. m \in 0 .. Len(stdout)
  BY <1>1
<1>4. /\ Moved(m) /\ StdoutInv'
      /\ \A i \in 1 .. Len(stdout') : i + m \in 1 .. Len(stdout) /\ stdout'[i] = stdout[i + m]
  BY <1>1, <1>2, <1>3, Dropped
<1>5. buf = <<>>
  BY DEF ReadInv, StreamInv
<1>6. StreamInv'
  BY <1>2, <1>3, <1>4, <1>5, StreamKept
<1>7. ReadType'
  BY <1>2, <1>4 DEF ReadInv, ReadType, Moved
<1> QED
  BY <1>4, <1>6, <1>7 DEF ReadInv, CurrentInv

\* Behind a header there is nothing to drain but the blank line.
LEMMA BlankTaken ==
    ASSUME ReadInv, reader = "drain", NEW kind, TakeLine(kind)
    PROVE  /\ 1 \in 1 .. Len(stdout) /\ stdout' = SubSeq(stdout, 2, Len(stdout))
           /\ stdout[1].kind = "blank" /\ kind = "blank"
<1>1. PICK m \in 1 .. Len(stdout) :
        /\ stdout' = SubSeq(stdout, m + 1, Len(stdout))
        /\ \A i \in 1 .. m - 1 : stdout[i].kind \in {"byte", "tail"}
        /\ kind = IF m = 1 THEN stdout[1].kind ELSE "stray"
  BY LineTaken DEF ReadInv, ReadType
<1>2. Len(stdout) \in Nat /\ 1 \in 1 .. Len(stdout)
  BY <1>1 DEF ReadInv, ReadType
<1>3. stdout[1].kind = "blank"
  BY <1>2 DEF ReadInv, CurrentInv, Current, FrameAt
<1>4. m = 1
  <2> SUFFICES ASSUME m # 1 PROVE FALSE
    OBVIOUS
  <2>1. 1 \in 1 .. m - 1
    BY <1>2
  <2>2. stdout[1].kind \in {"byte", "tail"}
    BY <1>1, <2>1
  <2> QED
    BY <1>3, <2>2
<1> QED
  BY <1>1, <1>2, <1>3, <1>4

\* From the blank line on the body follows.
LEMMA BlankRead ==
    ASSUME ReadInv, reader = "drain", TakeLine("blank"), reader' = "body",
           UNCHANGED <<room, contentLength, buf, got, printVars>>
    PROVE  ReadInv' /\ \A f \in 1 .. printed : Current(f) => Current(f)'
<1>1. 1 \in 1 .. Len(stdout) /\ stdout' = SubSeq(stdout, 1 + 1, Len(stdout))
  BY BlankTaken
<1>2. UNCHANGED <<printed, closed, owed, harmed, stream>>
  BY DEF printVars, stream
<1>3. /\ Moved(1) /\ StdoutInv'
      /\ \A i \in 1 .. Len(stdout') : i + 1 \in 1 .. Len(stdout) /\ stdout'[i] = stdout[i + 1]
  BY <1>1, <1>2, Dropped
<1>4. ASSUME NEW f \in 1 .. printed, Current(f)
      PROVE  Current(f)'
  <2>1. /\ Fresh(f) /\ contentLength \in Lengths
        /\ \A i \in 1 .. Len(stdout) : stdout[i].kind = "header" => f < stdout[i].frame
        /\ FrameAt(1, f, contentLength)
    BY <1>4 DEF Current
  <2>2. PICK n \in Int : n = contentLength
    BY <2>1, PipeAssumption
  <2>3. BodyAt(0, f, n)'
    <3>1. BodyAt(0 + 1, f, n)
      BY <2>1, <2>2 DEF FrameAt
    <3> QED
      BY <1>3, <2>2, <3>1, FramesMove DEF ReadInv, ReadType
  <2>4. BodyAt(0, f, contentLength)'
    BY <2>2, <2>3 DEF BodyAt
  <2>5. Fresh(f)'
    BY <1>2, <2>1 DEF Fresh
  <2>6. \A i \in 1 .. Len(stdout') : stdout'[i].kind = "header" => f < stdout'[i].frame
    BY <1>3, <2>1
  <2> QED
    BY <1>2, <2>1, <2>4, <2>5, <2>6 DEF Current
<1>7. CurrentInv'
  BY <1>2, <1>4 DEF ReadInv, CurrentInv
<1>8. buf = <<>>
  BY DEF ReadInv, StreamInv
<1>9. StreamInv'
  BY <1>1, <1>2, <1>3, <1>8, StreamKept
<1>10. ReadType'
  BY <1>2, <1>3 DEF ReadInv, ReadType, Moved
<1> QED
  BY <1>3, <1>4, <1>7, <1>9, <1>10 DEF ReadInv

\* Reading the body: it goes to the client in one piece.
LEMMA BodyRead ==
    ASSUME ReadInv, reader = "body", ReadBody, contentLength >= 0
    PROVE  /\ contentLength \in 0 .. Len(stdout) /\ contentLength \in Nat
           /\ stdout' = SubSeq(stdout, contentLength + 1, Len(stdout))
           /\ got' \in Seq(Bytes) /\ buf' \in Seq(Bytes) /\ Len(stream) \in Nat
           /\ Len(stream') = Len(stream) + contentLength
           /\ \A i \in 1 .. Len(stream) : stream'[i] = stream[i] /\ stream[i] \in Bytes
           /\ \A j \in 1 .. contentLength : stream'[Len(stream) + j] = stdout[j]
<1> DEFINE n == contentLength
           bytes == SubSeq(stdout, 1, n)
<1>1. Len(stdout) >= n /\ Copied(bytes, room) /\ stdout' = SubSeq(stdout, n + 1, Len(stdout))
  BY DEF ReadBody
<1>2. n \in 0 .. Len(stdout) /\ n \in Nat /\ Len(stdout) \in Nat /\ room \in Nat
  BY <1>1, PipeAssumption DEF ReadInv, ReadType
<1>3. PICK f \in 1 .. printed : BodyAt(0, f, n)
  BY DEF ReadInv, CurrentInv, Current
<1>4. \A j \in 1 .. n : stdout[j] \in Bytes
  <2>1. ASSUME NEW j \in 1 .. n
        PROVE  stdout[j] = Unit("byte", f, n - j)
    <3>1. 0 + j <= Len(stdout) /\ 0 + j = j
      BY <1>2
    <3> QED
      BY <1>3, <3>1 DEF BodyAt
  <2>2. \A j \in 1 .. n : Unit("byte", f, n - j) \in Bytes
    BY <1>2 DEF Unit, Bytes, ReadInv, ReadType
  <2> QED
    BY <2>1, <2>2
<1> HIDE DEF n
<1>5. bytes \in Seq(Bytes) /\ Len(bytes) = n /\ \A j \in 1 .. n : bytes[j] = stdout[j]
  BY <1>2, <1>4, SubSeqProperties
<1> HIDE DEF bytes
<1>6. got \in Seq(Bytes) /\ buf = <<>>
  BY DEF ReadInv, ReadType, StreamInv
<1>7. stream = got
  BY <1>6, ConcatEmptySeq DEF stream
<1>8. got' \in Seq(Bytes) /\ buf' \in Seq(Bytes) /\ stream' = got \o bytes
  BY <1>1, <1>2, <1>5, <1>6, CopiedWhole DEF stream
<1>9. /\ Len(got \o bytes) = Len(got) + Len(bytes) /\ Len(got) \in Nat
      /\ \A i \in 1 .. Len(got) + Len(bytes) :
           (got \o bytes)[i] = IF i <= Len(got) THEN got[i] ELSE bytes[i - Len(got)]
  <2>1. \A s, t \in Seq(Bytes) :
          /\ Len(s \o t) = Len(s) + Len(t) /\ Len(s) \in Nat
          /\ \A i \in 1 .. Len(s) + Len(t) :
               (s \o t)[i] = IF i <= Len(s) THEN s[i] ELSE t[i - Len(s)]
    BY ConcatProperties
  <2> QED
    BY <1>5, <1>6, <2>1
<1>10. \A i \in 1 .. Len(got) : (got \o bytes)[i] = got[i] /\ got[i] \in Bytes
  BY <1>2, <1>5, <1>6, <1>9
<1>11. ASSUME NEW j \in 1 .. n
       PROVE  (got \o bytes)[Len(got) + j] = stdout[j]
  <2>1. Len(got) + j \in 1 .. Len(got) + Len(bytes) /\ ~(Len(got) + j <= Len(got))
        /\ (Len(got) + j) - Len(got) = j
    BY <1>2, <1>5, <1>9
  <2> QED
    BY <1>5, <1>9, <2>1
<1> QED
  BY <1>1, <1>2, <1>5, <1>7, <1>8, <1>9, <1>10, <1>11 DEF n, bytes

\* A body that has been read continues the stream.
LEMMA BodyStreamed ==
    ASSUME ReadInv, reader = "body", ReadBody, contentLength >= 0, UNCHANGED printVars,
           reader' = "idle"
    PROVE  ReadInv'
<1> DEFINE n == contentLength
<1>1. /\ n \in 0 .. Len(stdout) /\ n \in Nat
      /\ stdout' = SubSeq(stdout, n + 1, Len(stdout))
      /\ got' \in Seq(Bytes) /\ buf' \in Seq(Bytes) /\ Len(stream) \in Nat
      /\ Len(stream') = Len(stream) + n
      /\ \A i \in 1 .. Len(stream) : stream'[i] = stream[i] /\ stream[i] \in Bytes
      /\ \A j \in 1 .. n : stream'[Len(stream) + j] = stdout[j]
  BY BodyRead
<1>2. PICK f \in 1 .. printed :
        /\ Fresh(f)
        /\ \A i \in 1 .. Len(stdout) : stdout[i].kind = "header" => f < stdout[i].frame
        /\ BodyAt(0, f, n)
  BY DEF ReadInv, CurrentInv, Current
<1> HIDE DEF n
<1>3. UNCHANGED <<printed, closed, owed, harmed>>
  BY DEF printVars
<1>4. /\ Moved(n) /\ StdoutInv' /\ Len(stdout) \in Nat
      /\ \A i \in 1 .. Len(stdout') : i + n \in 1 .. Len(stdout) /\ stdout'[i] = stdout[i + n]
  BY <1>1, <1>3, Dropped
<1>5. ASSUME NEW j \in 1 .. n
      PROVE  /\ stream'[Len(stream) + j].kind = "byte"
             /\ stream'[Len(stream) + j].frame = f
             /\ stream'[Len(stream) + j].n = n - j
  <2>1. 0 + j <= Len(stdout) /\ 0 + j = j
    BY <1>1, <1>4
  <2>2. stdout[j] = Unit("byte", f, n - j)
    BY <1>2, <2>1 DEF BodyAt
  <2> QED
    BY <1>1, <2>2 DEF Unit
<1>6. \A i \in 1 .. Len(stream') : i \in 1 .. Len(stream) \/ \E j \in 1 .. n : i = Len(stream) + j
  <2> TAKE i \in 1 .. Len(stream')
  <2>1. CASE i <= Len(stream)
    BY <1>1, <2>1
  <2>2. CASE ~(i <= Len(stream))
    <3>1. i - Len(stream) \in 1 .. n /\ i = Len(stream) + (i - Len(stream))
      BY <1>1, <2>2
    <3> QED
      BY <3>1
  <2> QED
    BY <2>1, <2>2
<1>7. printed \in Nat /\ f \in Nat /\ f < printed + 1
  BY DEF ReadInv, ReadType
<1>8. \A b \in Bytes : b.frame \in Nat /\ b.n \in Nat
  BY DEF Bytes
<1>9. \A i \in 1 .. Len(stream') : stream'[i].frame <= f /\ stream'[i].frame \in Nat
  <2> TAKE i \in 1 .. Len(stream')
  <2>1. CASE i \in 1 .. Len(stream)
    <3>1. stream'[i] = stream[i] /\ stream[i].frame < f /\ stream[i].frame \in Nat
      BY <1>1, <1>2, <1>8, <2>1 DEF Fresh
    <3> QED
      BY <1>7, <3>1
  <2>2. CASE \E j \in 1 .. n : i = Len(stream) + j
    BY <1>5, <1>7, <2>2
  <2> QED
    BY <1>6, <2>1, <2>2
<1>10. StreamInv'
  <2>1. \A i \in 1 .. Len(stream') : stream'[i].kind = "byte"
    BY <1>1, <1>5, <1>6 DEF ReadInv, StreamInv
  <2>2. ASSUME NEW i \in 1 .. Len(stream') - 1
        PROVE  \/ stream'[i + 1].frame = stream'[i].frame /\ stream'[i + 1].n = stream'[i].n - 1
               \/ stream'[i + 1].frame > stream'[i].frame /\ stream'[i].n = 0
    <3>1. i \in 1 .. Len(stream') /\ i + 1 \in 1 .. Len(stream')
      BY <1>1
    <3>2. CASE i + 1 \in 1 .. Len(stream)
      <4>1. i \in 1 .. Len(stream) - 1 /\ i \in 1 .. Len(stream)
        BY <1>1, <3>2
      <4> QED
        BY <1>1, <3>2, <4>1 DEF ReadInv, StreamInv
    <3>3. CASE i = Len(stream)
      <4>1. stream'[i] = stream[i] /\ stream[i].n = 0 /\ stream[i].frame < f /\ stream[i] \in Bytes
        BY <1>1, <1>2, <3>1, <3>3 DEF Fresh, ReadInv, StreamInv
      <4>2. 1 \in 1 .. n
        BY <1>1, <3>1, <3>3
      <4>3. stream'[i + 1].frame = f
        BY <1>5, <3>3, <4>2
      <4> QED
        BY <1>7, <1>8, <4>1, <4>3
    <3>4. CASE i > Len(stream)
      <4>1. PICK j \in 1 .. n : i = Len(stream) + j
        <5>1. i \notin 1 .. Len(stream)
          BY <1>1, <3>4
        <5> QED
          BY <1>6, <3>1, <5>1
      <4>2. j + 1 \in 1 .. n /\ i + 1 = Len(stream) + (j + 1)
        BY <1>1, <3>1, <4>1
      <4>3. stream'[i].frame = f /\ stream'[i].n = n - j
        BY <1>5, <4>1
      <4>4. stream'[i + 1].frame = f /\ stream'[i + 1].n = n - (j + 1)
        BY <1>5, <4>2
      <4>5. n - (j + 1) = (n - j) - 1
        BY <1>1
      <4> QED
        BY <4>3, <4>4, <4>5
    <3> QED
      BY <1>1, <3>1, <3>2, <3>3, <3>4
  <2>3. Len(stream') > 0 => stream'[Len(stream')].n = 0
    <3>1. CASE n = 0
      BY <1>1, <3>1 DEF ReadInv, StreamInv
    <3>2. CASE n # 0
      <4>1. n \in 1 .. n /\ n - n = 0
        BY <1>1, <3>2
      <4> QED
        BY <1>1, <1>5, <4>1
    <3> QED
      BY <3>1, <3>2
  <2>4. ASSUME NEW i \in 1 .. Len(stdout'), stdout'[i].kind = "header"
        PROVE  Fresh(stdout[i].frame)'
    <3>1. f < stdout'[i].frame /\ stdout'[i].frame \in Nat
      BY <1>2, <1>4, <2>4 DEF ReadInv, StdoutInv
    <3> QED
      BY <1>7, <1>9, <3>1 DEF Fresh
  <2>5. Fresh(printed + 1)'
    BY <1>3, <1>7, <1>9 DEF Fresh
  <2> QED
    BY <2>1, <2>2, <2>3, <2>4, <2>5 DEF StreamInv
<1>11. ReadType'
  BY <1>1, <1>3, <1>4 DEF ReadInv, ReadType, ReadBody, Moved
<1>12. CurrentInv'
  BY DEF CurrentInv
<1> QED
  BY <1>4, <1>10, <1>11, <1>12 DEF ReadInv

\* Stdout keeps its frames and the client gets whole bodies, whatever is printed
\* and wherever it ends.
LEMMA ReadInvCorrect == Spec => []ReadInv
<1>1. Init => ReadInv
  <2> SUFFICES ASSUME Init PROVE ReadInv
    OBVIOUS
  <2>1. stream = <<>> /\ Len(stream) = 0
    BY DEF Init, stream
  <2>2. ReadType
    <3>1. <<>> \in Seq(Units) /\ <<>> \in Seq(Bytes)
      OBVIOUS
    <3>2. harmed \in BOOLEAN /\ closed \in BOOLEAN
      BY Zenon DEF Init
    <3>3. printed \in 0 .. MaxFrames
      BY PipeAssumption DEF Init
    <3> QED
      BY <3>1, <3>2, <3>3 DEF Init, ReadType
  <2> QED
    BY <2>1, <2>2 DEF Init, ReadInv, StdoutInv, CurrentInv, StreamInv, Fresh
<1>2. ReadInv /\ [Next]_vars => ReadInv'
  <2> SUFFICES ASSUME ReadInv, [Next]_vars PROVE ReadInv'
    OBVIOUS
  <2>0. ReadType
    BY DEF ReadInv
  <2>1. ASSUME NEW n \in Lengths, PrintFrame(n)
        PROVE  ReadInv'
    <3>1. StdoutInv' /\ CurrentInv' /\ StreamInv'
      BY <2>1, FrameBeside
    <3>2. PICK L, f : L = Len(stdout) /\ f = printed + 1
      OBVIOUS
    <3>3. n \in Int /\ printed \in Nat /\ stdout \in Seq(Units)
      BY <2>0, PipeAssumption DEF ReadType
    <3>4. Moved(0) /\ printed' = f /\ Body(f, n) \in Seq(Bytes)
      BY <2>1, <3>2, <3>3, FramePrinted
    <3>5. stdout' \in Seq(Units) /\ printed' \in 0 .. MaxFrames
      BY <2>0, <2>1, <3>2, <3>4, PipeAssumption DEF ReadType, PrintFrame, Moved
    <3>6. harmed' \in BOOLEAN
      BY <2>0, <2>1, Zenon DEF ReadType, PrintFrame
    <3>7. owed \in Seq(Bytes) /\ owed \o Body(f, n) \in Seq(Bytes)
      BY <2>0, <3>4, ConcatProperties DEF ReadType
    <3>8. owed' \in Seq(Bytes)
      BY <2>1, <3>2, <3>4, <3>7 DEF PrintFrame
    <3>9. UNCHANGED <<closed, readVars>>
      BY <2>1 DEF PrintFrame
    <3> QED
      BY <2>0, <3>1, <3>5, <3>6, <3>8, <3>9 DEF ReadInv, ReadType, readVars
  <2>2. ASSUME NEW kind \in {"stray", "invalid", "tail"}, PrintStray(kind)
        PROVE  ReadInv'
    <3>1. stdout \in Seq(Units)
      BY <2>0 DEF ReadType
    <3>3. Moved(0) /\ Len(stdout') = Len(stdout) + 1
      BY <2>2, <3>1, StrayPrinted
    <3>4. NoNewHeader(0)
      BY <2>2, <3>1, StrayPrinted
    <3>5. UNCHANGED <<printed, owed, closed, readVars>>
      BY <2>2 DEF PrintStray
    <3>6. StdoutInv' /\ CurrentInv' /\ StreamInv'
      BY <3>3, <3>4, <3>5, Beside
    <3>7. harmed' \in BOOLEAN
      BY <2>0, <2>2, Zenon DEF ReadType, PrintStray
    <3> QED
      BY <2>0, <3>3, <3>5, <3>6, <3>7 DEF ReadInv, ReadType, readVars, Moved
  <2>3. CASE CloseStdout
    <3>1. Moved(0) /\ Len(stdout') <= Len(stdout) /\ Len(stdout) \in Nat
      BY <2>0, <2>3, CloseMoves DEF ReadType
    <3>2. NoNewHeader(0)
      BY <3>1 DEF NoNewHeader, Moved
    <3>3. UNCHANGED <<printed, harmed, owed, readVars>> /\ closed' = TRUE
      BY <2>3 DEF CloseStdout
    <3>4. StdoutInv' /\ CurrentInv' /\ StreamInv'
      BY <3>1, <3>2, <3>3, Beside
    <3> QED
      BY <2>0, <3>1, <3>3, <3>4 DEF ReadInv, ReadType, readVars, Moved
  <2>4. ASSUME NEW size \in Sizes, Read(size)
        PROVE  ReadInv'
    <3>1. UNCHANGED <<stdout, contentLength, printVars>> /\ reader = "idle"
          /\ reader' \in {"idle", "scan"}
      BY <2>4 DEF Read
    <3>2. /\ got' \in Seq(Bytes) /\ buf' \in Seq(Bytes) /\ stream' = stream
          /\ room' \in Sizes \cup {0} /\ (buf' # <<>> => reader' = "idle")
      <4>1. CASE buf # <<>>
        <5>1. Copied(buf, size) /\ UNCHANGED <<reader, room>> /\ size \in Nat
          BY <2>4, <4>1, PipeAssumption DEF Read
        <5> QED
          BY <2>0, <3>1, <5>1, CopiedWhole DEF stream, ReadType
      <4>2. CASE buf = <<>>
        BY <2>0, <2>4, <4>2 DEF Read, stream, ReadType
      <4> QED
        BY <4>1, <4>2
    <3>3. ReadType'
      BY <2>0, <3>1, <3>2 DEF ReadType, printVars
    <3>4. StdoutInv'
      BY <3>1 DEF ReadInv, StdoutInv, FrameAt, BodyAt, printVars
    <3>5. CurrentInv'
      BY <3>1 DEF CurrentInv
    <3>6. StreamInv'
      BY <3>1, <3>2 DEF ReadInv, StreamInv, Fresh, printVars
    <3> QED
      BY <3>3, <3>4, <3>5, <3>6 DEF ReadInv
  <2>5. CASE ScanLine
    <3>1. reader = "scan" /\ UNCHANGED <<room, buf, got, printVars>>
      BY <2>5 DEF ScanLine
    <3>2. \/ TakeLine("header") /\ contentLength' = stdout[1].n /\ reader' = "drain"
          \/ \E kind \in {"invalid", "stray", "blank"} :
               TakeLine(kind) /\ UNCHANGED contentLength /\ reader' \in {"scan", "failed"}
      BY <2>5 DEF ScanLine
    <3> QED
      BY <3>1, <3>2, HeaderRead, LineSkipped
  <2>6. CASE DrainLine
    <3>1. reader = "drain" /\ UNCHANGED <<room, contentLength, buf, got, printVars>>
      BY <2>6 DEF DrainLine
    <3>2. \A kind : TakeLine(kind) => kind = "blank"
      BY <3>1, BlankTaken
    <3>3. TakeLine("blank") /\ reader' = "body"
      BY <2>6, <3>2 DEF DrainLine
    <3> QED
      BY <3>1, <3>3, BlankRead
  <2>7. CASE ReadBody
    <3>1. reader = "body" /\ room' = 0 /\ contentLength' = 0 /\ UNCHANGED printVars
      BY <2>7 DEF ReadBody
    <3>2. CASE contentLength < 0
      <4>1. reader' = "panicked" /\ UNCHANGED <<stdout, buf, got>>
        BY <2>7, <3>2 DEF ReadBody
      <4>2. stream' = stream /\ buf = <<>>
        BY <3>1, <4>1 DEF stream, ReadInv, StreamInv
      <4>3. ReadType'
        BY <2>0, <3>1, <4>1 DEF ReadType, printVars
      <4>4. StdoutInv'
        BY <3>1, <4>1 DEF ReadInv, StdoutInv, FrameAt, BodyAt, printVars
      <4>5. StreamInv'
        BY <3>1, <4>1, <4>2 DEF ReadInv, StreamInv, Fresh, printVars
      <4> QED
        BY <4>1, <4>3, <4>4, <4>5 DEF ReadInv, CurrentInv
    <3>3. CASE ~(contentLength < 0)
      <4>1. contentLength >= 0
        BY <2>0, <3>3, PipeAssumption DEF ReadType
      <4>2. reader' = "idle"
        BY <2>7, <3>3 DEF ReadBody
      <4> QED
        BY <2>7, <3>1, <4>1, <4>2, BodyStreamed
    <3> QED
      BY <3>2, <3>3
  <2>8. CASE ReadEOF
    <3>1. reader' = "failed" /\ UNCHANGED <<stdout, room, contentLength, buf, got, printVars>>
          /\ reader # "idle"
      BY <2>8 DEF ReadEOF
    <3>2. stream' = stream /\ buf = <<>>
      BY <3>1 DEF stream, ReadInv, StreamInv
    <3>3. ReadType'
      BY <2>0, <3>1 DEF ReadType, printVars
    <3>4. StdoutInv'
      BY <3>1 DEF ReadInv, StdoutInv, FrameAt, BodyAt, printVars
    <3>5. StreamInv'
      BY <3>1, <3>2 DEF ReadInv, StreamInv, Fresh, printVars
    <3> QED
      BY <3>1, <3>3, <3>4, <3>5 DEF ReadInv, CurrentInv
  <2>9. CASE UNCHANGED <<stdout, printVars, readVars>>
    <3>1. UNCHANGED <<stdout, printed, harmed, owed, closed, reader, room, contentLength, buf,
                      got, stream>>
      BY <2>9 DEF printVars, readVars, stream
    <3> QED
      BY <3>1 DEF ReadInv, ReadType, StdoutInv, CurrentInv, Current, StreamInv, FrameAt, BodyAt,
                    Fresh
  <2>10. ASSUME NEW m \in Writers, WriteHeader(m) \/ WriteBody(m) \/ WriteFails(m)
         PROVE  ReadInv'
    BY <2>9, <2>10 DEF WriteHeader, WriteBody, WriteFails
  <2> QED
    BY <2>1, <2>2, <2>3, <2>4, <2>5, <2>6, <2>7, <2>8, <2>9, <2>10 DEF Next, Reading, vars
<1> QED
  BY <1>1, <1>2, PTL DEF Spec

\* What Read returns, call after call, are whole bodies in their order, whatever
\* else the worker prints and wherever it dies (Read, adapter_rpc_pipe.go).
THEOREM WholeBodies == Spec => []BodiesWhole
<1>1. ReadInv => BodiesWhole
  BY DEF ReadInv, StreamInv, BodiesWhole, stream
<1> QED
  BY <1>1, ReadInvCorrect, PTL

\* The pipe's state is well typed, however stdout is cut and whatever Read is
\* called with; wmu is held exactly by the message that has written its header
\* and not its body.
THEOREM TypeCorrect == Spec => []TypeOK
<1>1. ReadInv /\ LockInv => TypeOK
  <2> SUFFICES ASSUME ReadInv, LockInv PROVE TypeOK
    OBVIOUS
  <2>1. {harmed, closed, broken} \subseteq BOOLEAN
    BY Zenon DEF ReadInv, ReadType, LockInv
  <2> QED
    BY <2>1 DEF ReadInv, ReadType, Units, LockInv, TypeOK
<1> QED
  BY <1>1, ReadInvCorrect, LockCorrect, PTL
-----------------------------------------------------------------------------
(* The frames that no broken output precedes are read in their order.       *)

\* A header of frame f is on stdout.
Shown(f) == \E i \in 1 .. Len(stdout) : stdout[i].kind = "header" /\ stdout[i].frame = f

\* Some of owed is the body of frame f.
Owes(f) == \E k \in 1 .. Len(owed) : owed[k].frame = f

\* The n bytes of frame f are in owed, side by side.
Owed(f, n) ==
    \E p \in 0 .. Len(owed) :
        /\ n >= 0 /\ p + n <= Len(owed)
        /\ \A j \in 1 .. n : owed[p + j] = Unit("byte", f, n - j)
        /\ \A k \in 1 .. Len(owed) : owed[k].frame = f => k \in p + 1 .. p + n

\* Or the frame comes behind some broken output, and so behind all of owed.
Due(f, n) == Owed(f, n) \/ (harmed /\ \A k \in 1 .. Len(owed) : owed[k].frame < f)

\* What has been read agrees with owed, and does not go beyond it before
\* anything is broken.
OwedInv ==
    /\ \A k \in 1 .. Len(owed) : owed[k].frame \in 1 .. printed
    /\ \A k, l \in 1 .. Len(owed) : k < l => owed[k].frame <= owed[l].frame
    /\ \A k \in 1 .. Len(stream) : k <= Len(owed) => stream[k] = owed[k]
    /\ ~harmed => Len(stream) <= Len(owed)
    /\ \A i \in 1 .. Len(stdout) :
        stdout[i].kind = "header" => Due(stdout[i].frame, stdout[i].n)

InBody(b) ==
    \/ \E h \in 1 .. b - 1 : stdout[h].kind = "header" /\ b <= h + 1 + stdout[h].n
    \/ reader = "drain" /\ b <= 1 + contentLength
    \/ reader = "body" /\ b <= contentLength

\* No text precedes a frame that is owed, but the bodies of other frames.
Clean(b) ==
    /\ stdout[b].kind \notin {"tail", "invalid"}
    /\ stdout[b].kind = "byte" => InBody(b)

Protected(b) ==
    \/ ~harmed
    \/ \E i \in b + 1 .. Len(stdout) : stdout[i].kind = "header" /\ Owes(stdout[i].frame)

CleanInv ==
    reader \notin {"failed", "panicked"} =>
        \A b \in 1 .. Len(stdout) : Protected(b) => Clean(b)

\* What has not been read of owed is on stdout or, as frame f, being read; or it
\* was lost with all that followed it.
Pending(f) ==
    \A k \in 1 .. Len(owed) : k > Len(stream) =>
        \/ Shown(owed[k].frame) \/ owed[k].frame = f
        \/ /\ closed /\ f < owed[k].frame
           /\ \A i \in 1 .. Len(stdout) :
                stdout[i].kind = "header" => stdout[i].frame < owed[k].frame

PendingInv ==
    /\ reader \in {"idle", "scan"} => Pending(0)
    /\ reader \in {"drain", "body"} =>
        \E f \in 1 .. printed : Current(f) /\ Due(f, contentLength) /\ Pending(f)

OrderInv == OwedInv /\ CleanInv /\ PendingInv

\* The frames of what is owed are numbers.
LEMMA OwedFrames ==
    ASSUME ReadInv, OwedInv
    PROVE  /\ Len(owed) \in Nat /\ Len(stream) \in Nat /\ Len(stdout) \in Nat /\ printed \in Nat
           /\ \A k \in 1 .. Len(owed) : owed[k].frame \in Nat /\ owed[k].frame >= 1
           /\ \A i \in 1 .. Len(stdout) : stdout[i].frame \in Nat /\ stdout[i].n \in Int
<1>1. printed \in Nat /\ owed \in Seq(Bytes) /\ stdout \in Seq(Units)
  BY DEF ReadInv, ReadType
<1>2. stream \in Seq(Bytes)
  BY ConcatProperties DEF stream, ReadInv, ReadType
<1>3. \A i \in 1 .. Len(stdout) : stdout[i].frame \in Nat /\ stdout[i].n \in Int
  <2>1. \A i \in 1 .. Len(stdout) : stdout[i] \in Units
    BY <1>1, ElementOfSeq
  <2> QED
    BY <2>1, UnitFields
<1>4. \A k \in 1 .. Len(owed) : owed[k].frame \in Nat /\ owed[k].frame >= 1
  BY <1>1 DEF OwedInv
<1> QED
  BY <1>1, <1>2, <1>3, <1>4

\* What is owed stays owed when nothing is added to it.
LEMMA OwedKept ==
    ASSUME ReadInv, OwedInv, UNCHANGED <<owed, printed, stream>>, harmed => harmed',
           NEW m, NoNewHeader(m)
    PROVE  OwedInv' /\ \A f, n : Due(f, n) => Due(f, n)'
<1>1. \A f, n : Due(f, n) => Due(f, n)'
  BY DEF Due, Owed
<1>2. ASSUME NEW i \in 1 .. Len(stdout'), stdout'[i].kind = "header"
      PROVE  Due(stdout[i].frame, stdout[i].n)'
  <2>1. i + m \in 1 .. Len(stdout) /\ stdout'[i] = stdout[i + m]
    BY <1>2 DEF NoNewHeader
  <2>2. PICK f, n : f = stdout[i + m].frame /\ n = stdout[i + m].n
    OBVIOUS
  <2>3. Due(f, n)'
    BY <1>1, <1>2, <2>1, <2>2 DEF OwedInv
  <2> QED
    BY <2>1, <2>2, <2>3 DEF Due, Owed
<1> QED
  BY <1>1, <1>2 DEF OwedInv

\* What is pending stays so while the headers of what is owed stay.
LEMMA PendingKept ==
    ASSUME UNCHANGED <<owed, stream, closed>>, NEW f, Pending(f), NEW m, NoNewHeader(m),
           \A k \in 1 .. Len(owed) : k > Len(stream) /\ Shown(owed[k].frame) =>
               \E i \in 1 .. Len(stdout') :
                   stdout'[i].kind = "header" /\ stdout'[i].frame = owed[k].frame
    PROVE  Pending(f)'
<1> SUFFICES ASSUME NEW k \in 1 .. Len(owed), k > Len(stream)
             PROVE  \/ Shown(owed[k].frame)' \/ owed[k].frame = f
                    \/ /\ closed /\ f < owed[k].frame
                       /\ \A i \in 1 .. Len(stdout') :
                            stdout'[i].kind = "header" => stdout'[i].frame < owed[k].frame
  BY DEF Pending
<1>1. CASE Shown(owed[k].frame)
  BY <1>1 DEF Shown
<1>2. CASE owed[k].frame = f
  BY <1>2
<1>3. CASE /\ closed /\ f < owed[k].frame
           /\ \A i \in 1 .. Len(stdout) :
                stdout[i].kind = "header" => stdout[i].frame < owed[k].frame
  BY <1>3 DEF NoNewHeader
<1> QED
  BY <1>1, <1>2, <1>3 DEF Pending

\* What has been printed without text before it stays so when some of it is
\* taken off stdout.
LEMMA CleanKept ==
    ASSUME ReadInv, CleanInv, reader \notin {"failed", "panicked"}, UNCHANGED <<owed, harmed>>,
           NEW m \in 0 .. Len(stdout), Len(stdout') = Len(stdout) - m,
           \A i \in 1 .. Len(stdout') : i + m \in 1 .. Len(stdout) /\ stdout'[i] = stdout[i + m],
           \A b \in 1 .. Len(stdout') : InBody(b + m) => InBody(b)'
    PROVE  CleanInv'
<1>1. Len(stdout) \in Nat
  BY DEF ReadInv, ReadType
<1> SUFFICES ASSUME NEW b \in 1 .. Len(stdout'), Protected(b)'
             PROVE  Clean(b)'
  BY DEF CleanInv
<1>2. b + m \in 1 .. Len(stdout) /\ stdout'[b] = stdout[b + m]
  OBVIOUS
<1>3. Protected(b + m)
  <2>1. CASE ~harmed'
    BY <2>1 DEF Protected
  <2>2. CASE harmed'
    <3>1. PICK i \in b + 1 .. Len(stdout') : stdout'[i].kind = "header" /\ Owes(stdout[i].frame)'
      BY <2>2 DEF Protected
    <3>2. i \in 1 .. Len(stdout')
      BY <1>1, <3>1
    <3>3. i + m \in b + m + 1 .. Len(stdout) /\ stdout'[i] = stdout[i + m]
      BY <1>1, <1>2, <3>1, <3>2
    <3>4. Owes(stdout[i + m].frame)
      BY <3>1, <3>3 DEF Owes
    <3> QED
      BY <3>1, <3>3, <3>4 DEF Protected
  <2> QED
    BY <2>1, <2>2
<1>4. Clean(b + m)
  BY <1>2, <1>3 DEF CleanInv
<1> QED
  BY <1>2, <1>4 DEF Clean

\* What is owed when a frame is printed.
LEMMA OwedGrows ==
    ASSUME ReadInv, OwedInv, NEW n \in Lengths, PrintFrame(n),
           NEW L, L = Len(stdout), NEW f, f = printed + 1
    PROVE  \/ harmed' /\ owed' = owed /\ (harmed \/ n < 0)
           \/ /\ ~harmed /\ ~harmed' /\ n >= 0
              /\ Len(owed') = Len(owed) + n
              /\ \A k \in 1 .. Len(owed) : owed'[k] = owed[k]
              /\ \A j \in 1 .. n : owed'[Len(owed) + j] = Unit("byte", f, n - j)
<1>1. n \in Int /\ owed \in Seq(Bytes) /\ stdout \in Seq(Units) /\ printed \in Nat
  BY PipeAssumption DEF ReadInv, ReadType
<1>2. /\ printed' = f /\ Body(f, n) \in Seq(Bytes)
      /\ Len(Body(f, n)) = IF n > 0 THEN n ELSE 0
      /\ \A j \in 1 .. n : Body(f, n)[j] = Unit("byte", f, n - j)
  BY <1>1, FramePrinted
<1>3. harmed' = (harmed \/ n < 0)
  BY DEF PrintFrame
<1>4. CASE harmed'
  <2>1. owed' = owed
    BY <1>4 DEF PrintFrame
  <2>2. harmed \/ n < 0
    BY <1>3, <1>4
  <2> QED
    BY <1>4, <2>1, <2>2
<1>5. CASE ~harmed'
  <2>1. ~harmed /\ n >= 0
    <3>1. ~harmed /\ ~(n < 0)
      BY <1>3, <1>5, Zenon
    <3> QED
      BY <1>1, <3>1
  <2>2. owed' = owed \o Body(f, n)
    BY <1>2, <1>5 DEF PrintFrame
  <2>3. Len(Body(f, n)) = n
    BY <1>1, <1>2, <2>1
  <2>4. /\ Len(owed \o Body(f, n)) = Len(owed) + n /\ Len(owed) \in Nat
        /\ \A k \in 1 .. Len(owed) + n :
             (owed \o Body(f, n))[k] = IF k <= Len(owed) THEN owed[k] ELSE Body(f, n)[k - Len(owed)]
    <3>1. \A s, t \in Seq(Bytes) :
            /\ Len(s \o t) = Len(s) + Len(t) /\ Len(s) \in Nat
            /\ \A k \in 1 .. Len(s) + Len(t) :
                 (s \o t)[k] = IF k <= Len(s) THEN s[k] ELSE t[k - Len(s)]
      BY ConcatProperties
    <3> QED
      BY <1>1, <1>2, <2>3, <3>1
  <2>5. \A k \in 1 .. Len(owed) : owed'[k] = owed[k]
    BY <1>1, <2>1, <2>2, <2>4
  <2>6. ASSUME NEW j \in 1 .. n
        PROVE  owed'[Len(owed) + j] = Unit("byte", f, n - j)
    <3>1. Len(owed) + j \in 1 .. Len(owed) + n /\ ~(Len(owed) + j <= Len(owed))
          /\ (Len(owed) + j) - Len(owed) = j
      BY <1>1, <2>4
    <3> QED
      BY <1>2, <2>2, <2>4, <3>1
  <2> QED
    BY <1>5, <2>1, <2>2, <2>4, <2>5, <2>6
<1> QED
  BY <1>4, <1>5

\* What is owed depends on the output and on what reaches the client only.
LEMMA OwedUnchanged ==
    ASSUME OwedInv, UNCHANGED <<stdout, printed, harmed, owed, stream>>
    PROVE  OwedInv'
<1>1. \A g, l : Due(g, l) => Due(g, l)'
  BY DEF Due, Owed
<1>2. (\A i \in 1 .. Len(stdout) :
         stdout[i].kind = "header" => Due(stdout[i].frame, stdout[i].n))'
  <2> SUFFICES ASSUME NEW i \in 1 .. Len(stdout'), stdout'[i].kind = "header"
               PROVE  Due(stdout[i].frame, stdout[i].n)'
    OBVIOUS
  <2>1. PICK g, l : g = stdout'[i].frame /\ l = stdout'[i].n
    OBVIOUS
  <2>2. Due(g, l)
    BY <2>1 DEF OwedInv
  <2>3. Due(g, l)'
    BY <1>1, <2>2
  <2> QED
    BY <2>1, <2>3 DEF Due, Owed
<1> QED
  BY <1>2 DEF OwedInv

\* A frame that is printed is owed, unless it comes behind some broken output.
LEMMA FrameOwed ==
    ASSUME ReadInv, OwedInv, NEW n \in Lengths, PrintFrame(n)
    PROVE  /\ OwedInv' /\ \A g \in 1 .. printed, l \in Int : Due(g, l) => Due(g, l)'
           /\ \A k \in 1 .. Len(owed') :
                \/ k \in 1 .. Len(owed) /\ owed'[k] = owed[k]
                \/ ~harmed /\ ~harmed' /\ owed'[k].frame = printed + 1
<1>1. PICK L, f : L = Len(stdout) /\ f = printed + 1
  OBVIOUS
<1>2. n \in Int /\ stdout \in Seq(Units) /\ printed \in Nat /\ owed \in Seq(Bytes)
  BY PipeAssumption DEF ReadInv, ReadType
<1>3. /\ printed' = f /\ Len(stdout') = L + 2 + (IF n > 0 THEN n ELSE 0)
      /\ stdout'[L + 1] = Unit("header", f, n) /\ Moved(0)
      /\ \A i \in L + 2 .. Len(stdout') : stdout'[i].kind \in {"blank", "byte"}
  BY <1>1, <1>2, FramePrinted
<1>4. \/ harmed' /\ owed' = owed
      \/ /\ ~harmed /\ ~harmed' /\ n >= 0
         /\ Len(owed') = Len(owed) + n
         /\ \A k \in 1 .. Len(owed) : owed'[k] = owed[k]
         /\ \A j \in 1 .. n : owed'[Len(owed) + j] = Unit("byte", f, n - j)
  BY <1>1, OwedGrows
<1>5. stream' = stream
  BY DEF PrintFrame, readVars, stream
<1>6. Len(owed) \in Nat /\ Len(stream) \in Nat /\ Len(stdout) \in Nat
      /\ \A k \in 1 .. Len(owed) : owed[k].frame \in Nat /\ owed[k].frame >= 1
  BY OwedFrames
<1>7. \A k \in 1 .. Len(owed) : owed[k].frame < f
  BY <1>1, <1>2 DEF OwedInv
<1>8. \A j : Unit("byte", f, j).frame = f
  BY DEF Unit
<1>9. CASE harmed' /\ owed' = owed
  <2>1. \A g, l : Due(g, l) => Due(g, l)'
    BY <1>9 DEF Due, Owed
  <2>2. Due(f, n)'
    BY <1>7, <1>9 DEF Due
  <2>3. (\A k \in 1 .. Len(owed) : owed[k].frame \in 1 .. printed)'
    BY <1>1, <1>2, <1>3, <1>9 DEF OwedInv
  <2> QED
    <3>1. (\A i \in 1 .. Len(stdout) :
             stdout[i].kind = "header" => Due(stdout[i].frame, stdout[i].n))'
      <4> SUFFICES ASSUME NEW i \in 1 .. Len(stdout'), stdout'[i].kind = "header"
                   PROVE  Due(stdout[i].frame, stdout[i].n)'
        OBVIOUS
      <4>1. CASE i = L + 1
        <5>1. stdout'[i].frame = f /\ stdout'[i].n = n
          BY <1>3, <4>1 DEF Unit
        <5> QED
          BY <2>2, <5>1 DEF Due, Owed
      <4>2. CASE i \in 1 .. L
        <5>1. stdout'[i] = stdout[i]
          BY <1>1, <1>3, <1>6, <4>2 DEF Moved
        <5>2. PICK g, l : g = stdout[i].frame /\ l = stdout[i].n
          OBVIOUS
        <5>3. Due(g, l)'
          BY <1>1, <2>1, <4>2, <5>1, <5>2 DEF OwedInv
        <5> QED
          BY <5>1, <5>2, <5>3 DEF Due, Owed
      <4> QED
        BY <1>1, <1>3, <1>6, <4>1, <4>2
    <3>2. (~harmed => Len(stream) <= Len(owed))'
      BY <1>9
    <3> QED
      BY <1>5, <1>9, <2>1, <2>3, <3>1, <3>2 DEF OwedInv
<1>10. CASE /\ ~harmed /\ ~harmed' /\ n >= 0
            /\ Len(owed') = Len(owed) + n
            /\ \A k \in 1 .. Len(owed) : owed'[k] = owed[k]
            /\ \A j \in 1 .. n : owed'[Len(owed) + j] = Unit("byte", f, n - j)
  <2>1. \A k \in 1 .. Len(owed') : k \in 1 .. Len(owed) \/ \E j \in 1 .. n : k = Len(owed) + j
    <3> TAKE k \in 1 .. Len(owed')
    <3>1. CASE k <= Len(owed)
      BY <1>6, <3>1
    <3>2. CASE ~(k <= Len(owed))
      <4>1. k - Len(owed) \in 1 .. n /\ k = Len(owed) + (k - Len(owed))
        BY <1>2, <1>6, <1>10, <3>2
      <4> QED
        BY <4>1
    <3> QED
      BY <3>1, <3>2
  <2>2. \A k \in 1 .. Len(owed') :
          \/ k \in 1 .. Len(owed) /\ owed'[k] = owed[k] /\ owed'[k].frame < f
          \/ k > Len(owed) /\ owed'[k].frame = f
    <3> TAKE k \in 1 .. Len(owed')
    <3>1. CASE k \in 1 .. Len(owed)
      BY <1>7, <1>10, <3>1
    <3>2. CASE \E j \in 1 .. n : k = Len(owed) + j
      <4>1. PICK j \in 1 .. n : k = Len(owed) + j
        BY <3>2
      <4>2. k > Len(owed)
        BY <1>2, <1>6, <4>1
      <4>3. owed'[k] = Unit("byte", f, n - j)
        BY <1>10, <4>1
      <4> QED
        BY <1>8, <4>2, <4>3
    <3> QED
      BY <2>1, <3>1, <3>2
  <2>3. ASSUME NEW g \in 1 .. printed, NEW l \in Int, Due(g, l)
        PROVE  Due(g, l)'
    <3>1. PICK p \in 0 .. Len(owed) :
            /\ l >= 0 /\ p + l <= Len(owed)
            /\ \A j \in 1 .. l : owed[p + j] = Unit("byte", g, l - j)
            /\ \A k \in 1 .. Len(owed) : owed[k].frame = g => k \in p + 1 .. p + l
      BY <1>10, <2>3 DEF Due, Owed
    <3>2. p \in 0 .. Len(owed')
      BY <1>2, <1>6, <1>10
    <3>3. ASSUME NEW k \in 1 .. Len(owed'), owed'[k].frame = g
          PROVE  k \in p + 1 .. p + l
      <4>1. g # f
        BY <1>1, <1>2
      <4>2. k \in 1 .. Len(owed) /\ owed'[k] = owed[k]
        BY <2>2, <3>3, <4>1
      <4> QED
        BY <3>1, <3>3, <4>2
    <3>4. ASSUME NEW j \in 1 .. l
          PROVE  owed'[p + j] = Unit("byte", g, l - j)
      <4>1. p + j \in 1 .. Len(owed)
        BY <1>6, <3>1, <3>4
      <4> QED
        BY <1>10, <3>1, <4>1
    <3>5. p + l <= Len(owed')
      BY <1>2, <1>6, <1>10, <3>1
    <3>6. Owed(g, l)'
      BY <3>1, <3>2, <3>3, <3>4, <3>5 DEF Owed
    <3> QED
      BY <3>6 DEF Due
  <2>4. Due(f, n)'
    <3>1. \A k \in 1 .. Len(owed') : owed'[k].frame = f => k \in Len(owed) + 1 .. Len(owed) + n
      BY <1>1, <1>2, <1>6, <1>7, <1>10, <2>2
    <3>2. Len(owed) \in 0 .. Len(owed') /\ Len(owed) + n <= Len(owed')
      BY <1>2, <1>6, <1>10
    <3>3. PICK p : p = Len(owed)
      OBVIOUS
    <3> QED
      BY <1>10, <3>1, <3>2, <3>3 DEF Due, Owed
  <2>5. (\A k \in 1 .. Len(owed) : owed[k].frame \in 1 .. printed)'
    BY <1>1, <1>2, <1>3, <1>6, <2>2
  <2>6. (\A k, l \in 1 .. Len(owed) : k < l => owed[k].frame <= owed[l].frame)'
    <3> SUFFICES ASSUME NEW k \in 1 .. Len(owed'), NEW l \in 1 .. Len(owed'), k < l
                 PROVE  owed'[k].frame <= owed'[l].frame
      OBVIOUS
    <3>1. CASE l \in 1 .. Len(owed)
      <4>1. k \in 1 .. Len(owed)
        BY <1>6, <3>1
      <4> QED
        BY <1>10, <3>1, <4>1 DEF OwedInv
    <3>2. CASE l > Len(owed)
      <4>1. owed'[l].frame = f
        BY <1>6, <2>2, <3>2
      <4>2. f <= f /\ \A i \in Nat : i < f => i <= f
        BY <1>1, <1>2
      <4>3. owed'[k].frame <= f
        <5>1. CASE k \in 1 .. Len(owed) /\ owed'[k] = owed[k] /\ owed'[k].frame < f
          BY <1>6, <4>2, <5>1
        <5>2. CASE owed'[k].frame = f
          BY <4>2, <5>2
        <5> QED
          BY <2>2, <5>1, <5>2
      <4> QED
        BY <4>1, <4>3
    <3> QED
      BY <2>2, <3>1, <3>2
  <2>7. Len(stream) <= Len(owed)
    BY <1>10 DEF OwedInv
  <2>8. (\A k \in 1 .. Len(stream) : k <= Len(owed) => stream[k] = owed[k])'
    BY <1>5, <1>6, <1>10, <2>7 DEF OwedInv
  <2>9. (\A i \in 1 .. Len(stdout) :
           stdout[i].kind = "header" => Due(stdout[i].frame, stdout[i].n))'
    <3> SUFFICES ASSUME NEW i \in 1 .. Len(stdout'), stdout'[i].kind = "header"
                 PROVE  Due(stdout[i].frame, stdout[i].n)'
      OBVIOUS
    <3>1. CASE i = L + 1
      <4>1. stdout'[i].frame = f /\ stdout'[i].n = n
        BY <1>3, <3>1 DEF Unit
      <4> QED
        BY <2>4, <4>1 DEF Due, Owed
    <3>2. CASE i \in 1 .. L
      <4>1. stdout'[i] = stdout[i]
        BY <1>1, <1>3, <1>6, <3>2 DEF Moved
      <4>2. PICK g, l : g = stdout[i].frame /\ l = stdout[i].n
        OBVIOUS
      <4>3. g \in 1 .. printed /\ l \in Int
        BY <1>1, <3>2, <4>1, <4>2, PipeAssumption DEF ReadInv, StdoutInv
      <4>4. Due(g, l)'
        BY <1>1, <2>3, <3>2, <4>1, <4>2, <4>3 DEF OwedInv
      <4> QED
        BY <4>1, <4>2, <4>4 DEF Due, Owed
    <3> QED
      BY <1>1, <1>3, <1>6, <3>1, <3>2
  <2>10. (~harmed => Len(stream) <= Len(owed))'
    BY <1>2, <1>5, <1>6, <1>10, <2>7
  <2> QED
    BY <1>1, <1>10, <2>2, <2>3, <2>5, <2>6, <2>8, <2>9, <2>10 DEF OwedInv
<1> QED
  BY <1>4, <1>9, <1>10

\* Printing a frame.
LEMMA FrameOrdered ==
    ASSUME ReadInv, OrderInv, NEW n \in Lengths, PrintFrame(n)
    PROVE  OrderInv'
<1>1. PICK L, f : L = Len(stdout) /\ f = printed + 1
  OBVIOUS
<1>2. /\ n \in Int /\ stdout \in Seq(Units) /\ printed \in Nat
      /\ OwedInv /\ CleanInv /\ PendingInv
  BY PipeAssumption DEF ReadInv, ReadType, OrderInv
<1>3. /\ printed' = f /\ Len(stdout') = L + 2 + (IF n > 0 THEN n ELSE 0)
      /\ stdout'[L + 1] = Unit("header", f, n) /\ Moved(0) /\ ~closed /\ ~closed'
      /\ \A i \in L + 2 .. Len(stdout') : stdout'[i].kind \in {"blank", "byte"}
  BY <1>1, <1>2, FramePrinted
<1>4. /\ OwedInv' /\ \A g \in 1 .. printed, l \in Int : Due(g, l) => Due(g, l)'
      /\ \A k \in 1 .. Len(owed') :
           \/ k \in 1 .. Len(owed) /\ owed'[k] = owed[k]
           \/ ~harmed /\ ~harmed' /\ owed'[k].frame = f
  BY <1>1, <1>2, FrameOwed
<1>5. UNCHANGED <<stream, reader, contentLength>>
  BY DEF PrintFrame, readVars, stream
<1>6. /\ Len(owed) \in Nat /\ Len(stream) \in Nat /\ L \in Nat /\ Len(stdout) \in Nat
      /\ \A i \in 1 .. L : stdout[i].frame \in Nat /\ stdout[i].n \in Int
  BY <1>1, <1>2, OwedFrames
<1>7. \A i \in 1 .. L : i \in 1 .. Len(stdout') /\ stdout'[i] = stdout[i]
  BY <1>1, <1>2, <1>3, <1>6 DEF Moved
<1>8. L + 1 \in 1 .. Len(stdout') /\ stdout'[L + 1].kind = "header"
      /\ stdout'[L + 1].frame = f /\ stdout'[L + 1].n = n
  BY <1>2, <1>3, <1>6 DEF Unit
<1>9. \A i \in 1 .. Len(stdout') : stdout'[i].kind = "header" => i \in 1 .. L \/ i = L + 1
  BY <1>2, <1>3, <1>6
<1>10. harmed => harmed'
  BY DEF PrintFrame
<1>11. CleanInv'
  <2> SUFFICES ASSUME reader \notin {"failed", "panicked"},
                      NEW b \in 1 .. Len(stdout'), Protected(b)'
               PROVE  Clean(b)'
    BY <1>5 DEF CleanInv
  <2>1. CASE b \in 1 .. L
    <3>1. Protected(b)
      <4>1. CASE ~harmed'
        BY <1>10, <4>1 DEF Protected
      <4>2. CASE harmed'
        <5>1. PICK i \in b + 1 .. Len(stdout') : stdout'[i].kind = "header" /\ Owes(stdout[i].frame)'
          BY <4>2 DEF Protected
        <5>2. i \in 1 .. Len(stdout')
          BY <2>1, <5>1, <1>6
        <5>3. PICK k \in 1 .. Len(owed') : owed'[k].frame = stdout'[i].frame
          BY <5>1 DEF Owes
        <5>4. k \in 1 .. Len(owed) /\ owed'[k] = owed[k]
          BY <1>4, <4>2
        <5>5. owed[k].frame \in 1 .. printed
          BY <1>2, <5>4 DEF OwedInv
        <5>6. i \in 1 .. L
          BY <1>1, <1>2, <1>8, <1>9, <5>1, <5>2, <5>3, <5>4, <5>5
        <5>7. i \in b + 1 .. Len(stdout) /\ stdout[i].kind = "header"
          BY <1>1, <1>7, <2>1, <5>1, <5>6
        <5>8. Owes(stdout[i].frame)
          BY <1>7, <5>3, <5>4, <5>6 DEF Owes
        <5> QED
          BY <5>7, <5>8 DEF Protected
      <4> QED
        BY <4>1, <4>2
    <3>2. Clean(b)
      BY <1>1, <1>2, <2>1, <3>1 DEF CleanInv
    <3>3. InBody(b) => InBody(b)'
      <4>1. \A h \in 1 .. b - 1 : h \in 1 .. L
        BY <1>6, <2>1
      <4> QED
        BY <1>5, <1>7, <4>1 DEF InBody
    <3> QED
      BY <1>7, <2>1, <3>2, <3>3 DEF Clean
  <2>2. CASE b = L + 1
    BY <1>8, <2>2 DEF Clean
  <2>3. CASE b \in L + 2 .. Len(stdout')
    <3>1. stdout'[b].kind \in {"blank", "byte"}
      BY <1>3, <2>3
    <3>2. b <= (L + 1) + 1 + n \/ b = L + 2
      BY <1>2, <1>3, <1>6, <2>3
    <3>3. stdout'[b].kind = "byte" => InBody(b)'
      <4>1. PICK h : h = L + 1
        OBVIOUS
      <4>2. h \in 1 .. b - 1 /\ stdout'[h].kind = "header" /\ stdout'[h].n = n
        BY <1>6, <1>8, <2>3, <4>1
      <4>3. stdout'[L + 2].kind = "blank"
        <5>1. FrameAt(L + 2, f, n)'
          BY <1>1, <1>2, FramePrinted
        <5> QED
          BY <1>2, <1>3, <1>6, <5>1 DEF FrameAt
      <4> QED
        BY <3>2, <4>1, <4>2, <4>3 DEF InBody
    <3> QED
      BY <3>1, <3>3 DEF Clean
  <2> QED
    BY <1>6, <1>3, <1>2, <2>1, <2>2, <2>3
<1>12. ASSUME NEW g, Pending(g)
       PROVE  Pending(g)'
  <2> SUFFICES ASSUME NEW k \in 1 .. Len(owed'), k > Len(stream)
               PROVE  Shown(owed[k].frame)' \/ owed'[k].frame = g
    BY <1>5 DEF Pending
  <2>1. CASE k \in 1 .. Len(owed) /\ owed'[k] = owed[k]
    <3>1. Shown(owed[k].frame) \/ owed[k].frame = g
      BY <1>3, <1>12, <2>1 DEF Pending
    <3> QED
      BY <1>1, <1>7, <2>1, <3>1 DEF Shown
  <2>2. CASE owed'[k].frame = f
    BY <1>8, <2>2 DEF Shown
  <2> QED
    BY <1>4, <2>1, <2>2
<1>13. PendingInv'
  <2>1. CASE reader \in {"drain", "body"}
    <3>1. PICK g \in 1 .. printed : Current(g) /\ Due(g, contentLength) /\ Pending(g)
      BY <1>2, <2>1 DEF PendingInv
    <3>2. PICK l \in Int : l = contentLength
      BY <3>1, PipeAssumption DEF Current
    <3>3. Due(g, l)'
      BY <1>4, <3>1, <3>2
    <3>4. Due(g, contentLength)'
      BY <1>5, <3>2, <3>3 DEF Due, Owed
    <3>5. Current(g)' /\ g \in 1 .. printed'
      BY <1>1, <1>2, <1>3, <2>1, <3>1, FrameBeside
    <3> QED
      BY <1>5, <1>12, <2>1, <3>1, <3>4, <3>5 DEF PendingInv
  <2>2. CASE reader \notin {"drain", "body"}
    BY <1>2, <1>5, <1>12, <2>2 DEF PendingInv
  <2> QED
    BY <2>1, <2>2
<1> QED
  BY <1>4, <1>11, <1>13 DEF OrderInv

\* Printing something else.
LEMMA StrayOrdered ==
    ASSUME ReadInv, OrderInv, NEW kind \in {"stray", "invalid", "tail"}, PrintStray(kind),
           Moved(0), NoNewHeader(0), Len(stdout') = Len(stdout) + 1,
           stdout'[Len(stdout) + 1].kind = kind
    PROVE  OrderInv'
<1>1. PICK L : L = Len(stdout)
  OBVIOUS
<1>2. OwedInv /\ CleanInv /\ PendingInv /\ L \in Nat /\ Len(stdout') = L + 1
  BY <1>1 DEF ReadInv, ReadType, OrderInv
<1>3. /\ UNCHANGED <<printed, owed, closed, stream, reader, contentLength>>
      /\ UNCHANGED readVars /\ ~closed
  BY DEF PrintStray, Printing, readVars, stream
<1>4. harmed => harmed'
  BY DEF PrintStray
<1>5. OwedInv' /\ \A f, n : Due(f, n) => Due(f, n)'
  BY <1>2, <1>3, <1>4, OwedKept
<1>6. \A i \in 1 .. L : i \in 1 .. Len(stdout') /\ stdout'[i] = stdout[i]
  BY <1>1, <1>2 DEF Moved
<1>7. CleanInv'
  <2> SUFFICES ASSUME reader \notin {"failed", "panicked"},
                      NEW b \in 1 .. Len(stdout'), Protected(b)'
               PROVE  Clean(b)'
    BY <1>3 DEF CleanInv
  <2>1. CASE b \in 1 .. L
    <3>1. Protected(b)
      <4>1. CASE ~harmed'
        BY <1>4, <4>1 DEF Protected
      <4>2. CASE harmed'
        <5>1. PICK i \in b + 1 .. Len(stdout') : stdout'[i].kind = "header" /\ Owes(stdout[i].frame)'
          BY <4>2 DEF Protected
        <5>2. i \in 1 .. Len(stdout')
          BY <1>2, <2>1, <5>1
        <5>3. i + 0 \in 1 .. Len(stdout) /\ stdout'[i] = stdout[i + 0] /\ i + 0 = i
          BY <5>1, <5>2 DEF NoNewHeader
        <5>4. i \in b + 1 .. Len(stdout) /\ stdout[i].kind = "header"
          BY <1>1, <1>2, <2>1, <5>1, <5>3
        <5>5. Owes(stdout[i].frame)
          BY <1>3, <5>1, <5>3 DEF Owes
        <5> QED
          BY <5>4, <5>5 DEF Protected
      <4> QED
        BY <4>1, <4>2
    <3>2. Clean(b)
      BY <1>1, <1>2, <2>1, <3>1 DEF CleanInv
    <3>3. InBody(b) => InBody(b)'
      <4>1. \A h \in 1 .. b - 1 : h \in 1 .. L
        BY <1>2, <2>1
      <4> QED
        BY <1>3, <1>6, <4>1 DEF InBody
    <3> QED
      BY <1>6, <2>1, <3>2, <3>3 DEF Clean
  <2>2. CASE b = L + 1
    <3>1. ~harmed'
      <4>1. b + 1 .. Len(stdout') = {}
        BY <1>2, <2>2
      <4> QED
        BY <4>1 DEF Protected
    <3>2. kind = "stray"
      BY <3>1, Zenon DEF PrintStray
    <3> QED
      BY <1>1, <2>2, <3>2 DEF Clean
  <2> QED
    BY <1>2, <2>1, <2>2
<1>8. ASSUME NEW f, Pending(f)
      PROVE  Pending(f)'
  <2>1. ASSUME NEW k \in 1 .. Len(owed), Shown(owed[k].frame)
        PROVE  \E i \in 1 .. Len(stdout') :
                 stdout'[i].kind = "header" /\ stdout'[i].frame = owed[k].frame
    BY <1>1, <1>6, <2>1 DEF Shown
  <2> QED
    BY <1>3, <1>8, <2>1, PendingKept
<1>9. PendingInv'
  <2>1. CASE reader \in {"drain", "body"}
    <3>1. PICK f \in 1 .. printed : Current(f) /\ Due(f, contentLength) /\ Pending(f)
      BY <1>2, <2>1 DEF PendingInv
    <3>2. Current(f)'
      BY <1>3, <2>1, <3>1, Beside
    <3>3. PICK n : n = contentLength
      OBVIOUS
    <3>4. Due(f, n)'
      BY <1>5, <3>1, <3>3
    <3>5. Due(f, contentLength)'
      BY <1>3, <3>3, <3>4 DEF Due, Owed
    <3> QED
      BY <1>3, <1>8, <2>1, <3>1, <3>2, <3>5 DEF PendingInv
  <2>2. CASE reader \notin {"drain", "body"}
    BY <1>2, <1>3, <1>8, <2>2 DEF PendingInv
  <2> QED
    BY <2>1, <2>2
<1> QED
  BY <1>5, <1>7, <1>9 DEF OrderInv

\* Stdout ends: of the frames that are lost none is followed by one that is not.
LEMMA CloseOrdered ==
    ASSUME ReadInv, OrderInv, CloseStdout
    PROVE  OrderInv'
<1>1. PICK m \in 0 .. Len(stdout) : stdout' = SubSeq(stdout, 1, m)
  BY DEF CloseStdout
<1>2. /\ OwedInv /\ CleanInv /\ PendingInv /\ m \in Nat
      /\ Len(stdout) \in Nat /\ stdout \in Seq(Units)
  BY DEF ReadInv, ReadType, OrderInv
<1>3. /\ UNCHANGED <<printed, harmed, owed, stream, reader, contentLength>>
      /\ UNCHANGED readVars /\ ~closed /\ closed'
  BY DEF CloseStdout, readVars, stream
<1>4. /\ Len(stdout') = m
      /\ \A i \in 1 .. m : i \in 1 .. Len(stdout) /\ stdout'[i] = stdout[i]
  BY <1>1, <1>2, SubSeqProperties
<1>5. Moved(0) /\ NoNewHeader(0)
  <2>1. Moved(0)
    BY <1>2, CloseMoves
  <2> QED
    BY <1>2, <1>4, <2>1 DEF NoNewHeader
<1>6. OwedInv' /\ \A f, n : Due(f, n) => Due(f, n)'
  BY <1>2, <1>3, <1>5, OwedKept
<1>7. CleanInv'
  <2> SUFFICES ASSUME reader \notin {"failed", "panicked"},
                      NEW b \in 1 .. m, Protected(b)'
               PROVE  Clean(b)'
    BY <1>3, <1>4 DEF CleanInv
  <2>1. Protected(b)
    <3>1. CASE ~harmed'
      BY <1>3, <3>1 DEF Protected
    <3>2. CASE harmed'
      <4>1. PICK i \in b + 1 .. m : stdout'[i].kind = "header" /\ Owes(stdout[i].frame)'
        BY <1>4, <3>2 DEF Protected
      <4>2. i \in 1 .. m /\ i \in b + 1 .. Len(stdout)
        BY <1>2, <4>1
      <4>3. Owes(stdout[i].frame) /\ stdout[i].kind = "header"
        BY <1>3, <1>4, <4>1, <4>2 DEF Owes
      <4> QED
        BY <4>2, <4>3 DEF Protected
    <3> QED
      BY <3>1, <3>2
  <2>2. Clean(b)
    BY <1>2, <1>4, <2>1 DEF CleanInv
  <2>3. InBody(b) => InBody(b)'
    <3>1. \A h \in 1 .. b - 1 : h \in 1 .. m
      BY <1>2
    <3> QED
      BY <1>3, <1>4, <3>1 DEF InBody
  <2> QED
    BY <1>4, <2>2, <2>3 DEF Clean
<1>8. ASSUME NEW f \in Nat, Pending(f),
             \A i \in 1 .. Len(stdout) : stdout[i].kind = "header" => f < stdout[i].frame
      PROVE  Pending(f)'
  <2> SUFFICES ASSUME NEW k \in 1 .. Len(owed), k > Len(stream), owed[k].frame # f
               PROVE  \/ Shown(owed[k].frame)'
                      \/ /\ f < owed[k].frame
                         /\ \A i \in 1 .. m :
                              stdout'[i].kind = "header" => stdout'[i].frame < owed[k].frame
    BY <1>3, <1>4 DEF Pending
  <2>1. PICK j \in 1 .. Len(stdout) : stdout[j].kind = "header" /\ stdout[j].frame = owed[k].frame
    BY <1>3, <1>8 DEF Pending, Shown
  <2>2. CASE j <= m
    <3>1. j \in 1 .. m
      BY <1>2, <2>2
    <3> QED
      BY <1>3, <1>4, <2>1, <3>1 DEF Shown
  <2>3. CASE ~(j <= m)
    <3>1. ASSUME NEW i \in 1 .. m, stdout'[i].kind = "header"
          PROVE  stdout'[i].frame < owed[k].frame
      <4>1. i \in 1 .. Len(stdout) /\ i < j /\ stdout'[i] = stdout[i]
        BY <1>2, <1>4, <2>3
      <4> QED
        BY <2>1, <3>1, <4>1 DEF ReadInv, StdoutInv
    <3> QED
      BY <1>8, <2>1, <3>1
  <2> QED
    BY <2>2, <2>3
<1>9. PendingInv'
  <2>1. CASE reader \in {"drain", "body"}
    <3>1. PICK f \in 1 .. printed : Current(f) /\ Due(f, contentLength) /\ Pending(f)
      BY <1>2, <2>1 DEF PendingInv
    <3>2. Current(f)'
      BY <1>3, <1>5, <2>1, <3>1, Beside
    <3>3. PICK n : n = contentLength
      OBVIOUS
    <3>4. Due(f, n)'
      BY <1>6, <3>1, <3>3
    <3>5. Due(f, contentLength)'
      BY <1>3, <3>3, <3>4 DEF Due, Owed
    <3>6. Pending(f)'
      BY <1>8, <3>1 DEF Current
    <3> QED
      BY <1>3, <2>1, <3>1, <3>2, <3>5, <3>6 DEF PendingInv
  <2>2. CASE reader \notin {"drain", "body"}
    <3>1. \A i \in 1 .. Len(stdout) : stdout[i].kind = "header" => 0 < stdout[i].frame
      BY DEF ReadInv, StdoutInv
    <3>2. Pending(0) => Pending(0)'
      BY <1>8, <3>1
    <3> QED
      BY <1>2, <1>3, <2>2, <3>2 DEF PendingInv
  <2> QED
    BY <2>1, <2>2
<1> QED
  BY <1>6, <1>7, <1>9 DEF OrderInv

\* A header is read: its frame is the next of those that are owed.
LEMMA HeaderOrdered ==
    ASSUME ReadInv, OrderInv, reader = "scan", TakeLine("header"), contentLength' = stdout[1].n,
           reader' = "drain", UNCHANGED <<room, buf, got, printVars>>
    PROVE  OrderInv'
<1>1. PICK f, n : f = stdout[1].frame /\ n = stdout[1].n
  OBVIOUS
<1>2. /\ 1 \in 1 .. Len(stdout) /\ stdout[1].kind = "header" /\ contentLength' = n
      /\ stdout' = SubSeq(stdout, 1 + 1, Len(stdout))
      /\ f \in 1 .. printed /\ Current(f)'
  BY <1>1, HeaderRead
<1>3. UNCHANGED <<printed, closed, owed, harmed, stream>>
  BY DEF printVars, stream
<1>4. /\ OwedInv /\ CleanInv /\ PendingInv /\ 1 \in 0 .. Len(stdout)
      /\ Len(stdout) \in Nat /\ printed \in Nat
  BY <1>2 DEF ReadInv, ReadType, OrderInv
<1>5. /\ Len(stdout') = Len(stdout) - 1
      /\ \A i \in 1 .. Len(stdout') : i + 1 \in 1 .. Len(stdout) /\ stdout'[i] = stdout[i + 1]
  BY <1>2, <1>3, <1>4, Dropped
<1>6. NoNewHeader(1)
  BY <1>5 DEF NoNewHeader
<1>7. OwedInv' /\ \A g, l : Due(g, l) => Due(g, l)'
  BY <1>3, <1>4, <1>6, OwedKept
<1>8. ASSUME NEW b \in 1 .. Len(stdout'), InBody(b + 1)
      PROVE  InBody(b)'
  <2>1. PICK h \in 1 .. (b + 1) - 1 : stdout[h].kind = "header" /\ b + 1 <= h + 1 + stdout[h].n
    BY <1>8 DEF InBody
  <2>2. n \in Int /\ \A i \in 1 .. Len(stdout) : stdout[i].n \in Int
    BY <1>1, <1>2, <1>4, OwedFrames
  <2>3. CASE h = 1
    <3>1. b <= 1 + n
      BY <1>1, <2>1, <2>2, <2>3
    <3> QED
      BY <1>2, <3>1 DEF InBody
  <2>4. CASE h # 1
    <3>1. PICK g : g = h - 1
      OBVIOUS
    <3>2. g \in 1 .. b - 1 /\ g \in 1 .. Len(stdout') /\ h = g + 1 /\ h \in 1 .. Len(stdout)
      BY <1>4, <1>5, <2>1, <2>4, <3>1
    <3>3. stdout'[g] = stdout[h] /\ b <= g + 1 + stdout[h].n
      BY <1>5, <2>1, <2>2, <3>2
    <3> QED
      BY <2>1, <3>2, <3>3 DEF InBody
  <2> QED
    BY <2>3, <2>4
<1>9. CleanInv'
  BY <1>3, <1>4, <1>5, <1>8, CleanKept
<1>10. Pending(f)'
  <2> SUFFICES ASSUME NEW k \in 1 .. Len(owed), k > Len(stream), owed[k].frame # f
               PROVE  \/ Shown(owed[k].frame)'
                      \/ /\ closed /\ f < owed[k].frame
                         /\ \A i \in 1 .. Len(stdout') :
                              stdout'[i].kind = "header" => stdout'[i].frame < owed[k].frame
    BY <1>3 DEF Pending
  <2>1. owed[k].frame # 0 /\ Pending(0)
    BY <1>4, OwedFrames DEF PendingInv
  <2>2. CASE Shown(owed[k].frame)
    <3>1. PICK i \in 1 .. Len(stdout) : stdout[i].kind = "header" /\ stdout[i].frame = owed[k].frame
      BY <2>2 DEF Shown
    <3>2. PICK j : j = i - 1
      OBVIOUS
    <3>3. j \in 1 .. Len(stdout') /\ i = j + 1
      BY <1>1, <1>4, <1>5, <3>1, <3>2
    <3>4. stdout'[j] = stdout[i]
      BY <1>5, <3>3
    <3> QED
      BY <1>3, <3>1, <3>3, <3>4 DEF Shown
  <2>3. CASE /\ closed
             /\ \A i \in 1 .. Len(stdout) :
                  stdout[i].kind = "header" => stdout[i].frame < owed[k].frame
    BY <1>1, <1>2, <1>5, <2>3
  <2> QED
    BY <2>1, <2>2, <2>3 DEF Pending
<1>11. Due(f, n)'
  BY <1>1, <1>2, <1>4, <1>7 DEF OwedInv
<1>12. Due(f, contentLength)'
  BY <1>2, <1>11 DEF Due, Owed
<1>13. PendingInv'
  BY <1>2, <1>3, <1>10, <1>12 DEF PendingInv
<1> QED
  BY <1>7, <1>9, <1>13 DEF OrderInv

\* A line is skipped: if text hides a header, the frame is not owed.
LEMMA SkipOrdered ==
    ASSUME ReadInv, OrderInv, reader = "scan", NEW kind \in {"stray", "blank"}, TakeLine(kind),
           reader' = "scan", UNCHANGED <<room, contentLength, buf, got, printVars>>
    PROVE  OrderInv'
<1>1. PICK m \in 1 .. Len(stdout) :
        /\ stdout' = SubSeq(stdout, m + 1, Len(stdout))
        /\ stdout[m].kind \notin {"byte", "tail"}
        /\ \A i \in 1 .. m - 1 : stdout[i].kind \in {"byte", "tail"}
        /\ kind = IF m = 1 THEN stdout[1].kind ELSE "stray"
  BY LineTaken DEF ReadInv, ReadType
<1>2. UNCHANGED <<printed, closed, owed, harmed, stream>>
  BY DEF printVars, stream
<1>3. /\ OwedInv /\ CleanInv /\ PendingInv /\ m \in 0 .. Len(stdout)
      /\ Len(stdout) \in Nat
  BY <1>1 DEF ReadInv, ReadType, OrderInv
<1>4. /\ Len(stdout') = Len(stdout) - m
      /\ \A i \in 1 .. Len(stdout') : i + m \in 1 .. Len(stdout) /\ stdout'[i] = stdout[i + m]
  BY <1>1, <1>2, <1>3, Dropped
<1>5. NoNewHeader(m)
  BY <1>4 DEF NoNewHeader
<1>6. OwedInv'
  BY <1>2, <1>3, <1>5, OwedKept
<1>7. m # 1 => ~Protected(1)
  <2> SUFFICES ASSUME m # 1, Protected(1) PROVE FALSE
    OBVIOUS
  <2>1. 1 \in 1 .. m - 1 /\ 1 \in 1 .. Len(stdout)
    BY <1>1, <1>3
  <2>2. stdout[1].kind \in {"byte", "tail"}
    BY <1>1, <2>1
  <2>3. Clean(1)
    BY <1>3, <2>1 DEF CleanInv
  <2>4. ~InBody(1)
    BY DEF InBody
  <2> QED
    BY <2>2, <2>3, <2>4 DEF Clean
<1>8. ASSUME NEW i \in 1 .. m, stdout[i].kind = "header"
      PROVE  i = m /\ m # 1 /\ ~Owes(stdout[i].frame)
  <2>1. i = m
    <3> SUFFICES ASSUME i # m PROVE FALSE
      OBVIOUS
    <3>1. i \in 1 .. m - 1
      BY <1>3
    <3>2. stdout[i].kind \in {"byte", "tail"}
      BY <1>1, <3>1
    <3> QED
      BY <1>8, <3>2
  <2>2. m # 1
    BY <1>1, <1>8, <2>1
  <2>3. m \in 1 + 1 .. Len(stdout)
    BY <1>1, <1>3, <2>2
  <2> QED
    BY <1>7, <1>8, <2>1, <2>2, <2>3 DEF Protected
<1>9. CleanInv'
  <2> SUFFICES ASSUME NEW b \in 1 .. Len(stdout'), Protected(b)'
               PROVE  Clean(b)'
    BY DEF CleanInv
  <2>1. Protected(b + m) /\ Protected(1)
    <3>1. CASE ~harmed'
      BY <1>2, <3>1 DEF Protected
    <3>2. CASE harmed'
      <4>1. PICK i \in b + 1 .. Len(stdout') : stdout'[i].kind = "header" /\ Owes(stdout[i].frame)'
        BY <3>2 DEF Protected
      <4>2. i \in 1 .. Len(stdout')
        BY <1>3, <4>1
      <4>3. i + m \in (b + m) + 1 .. Len(stdout) /\ i + m \in 1 + 1 .. Len(stdout)
            /\ stdout'[i] = stdout[i + m]
        BY <1>3, <1>4, <4>1, <4>2
      <4>4. Owes(stdout[i + m].frame)
        BY <1>2, <4>1, <4>3 DEF Owes
      <4> QED
        BY <4>1, <4>3, <4>4 DEF Protected
    <3> QED
      BY <3>1, <3>2
  <2>2. m = 1 /\ stdout[1].kind # "header"
    BY <1>1, <1>7, <2>1
  <2>3. b + m \in 1 .. Len(stdout) /\ stdout'[b] = stdout[b + m] /\ Clean(b + m)
    BY <1>3, <1>4, <2>1 DEF CleanInv
  <2>4. InBody(b + m) => InBody(b)'
    <3> SUFFICES ASSUME InBody(b + 1) PROVE InBody(b)'
      BY <2>2
    <3>1. PICK h \in 1 .. (b + 1) - 1 : stdout[h].kind = "header" /\ b + 1 <= h + 1 + stdout[h].n
      BY DEF InBody
    <3>2. \A i \in 1 .. Len(stdout) : stdout[i].n \in Int
      BY <1>3, OwedFrames
    <3>3. PICK g : g = h - 1
      OBVIOUS
    <3>4. g \in 1 .. b - 1 /\ g \in 1 .. Len(stdout') /\ h = g + 1 /\ h \in 1 .. Len(stdout)
      BY <1>3, <1>4, <2>2, <3>1, <3>3
    <3>5. stdout'[g] = stdout[h] /\ b <= g + 1 + stdout[h].n
      BY <1>4, <2>2, <3>1, <3>2, <3>4
    <3> QED
      BY <3>1, <3>4, <3>5 DEF InBody
  <2> QED
    BY <2>3, <2>4 DEF Clean
<1>10. Pending(0)'
  <2>1. ASSUME NEW k \in 1 .. Len(owed), Shown(owed[k].frame)
        PROVE  \E i \in 1 .. Len(stdout') :
                 stdout'[i].kind = "header" /\ stdout'[i].frame = owed[k].frame
    <3>1. PICK i \in 1 .. Len(stdout) : stdout[i].kind = "header" /\ stdout[i].frame = owed[k].frame
      BY <2>1 DEF Shown
    <3>2. i \notin 1 .. m
      BY <1>8, <3>1 DEF Owes
    <3>3. PICK j : j = i - m
      OBVIOUS
    <3>4. j \in 1 .. Len(stdout') /\ i = j + m
      BY <1>3, <1>4, <3>1, <3>2, <3>3
    <3>5. stdout'[j] = stdout[i]
      BY <1>4, <3>4
    <3> QED
      BY <3>1, <3>4, <3>5
  <2> QED
    BY <1>2, <1>3, <1>5, <2>1, PendingKept DEF PendingInv
<1> QED
  BY <1>6, <1>9, <1>10 DEF OrderInv, PendingInv

\* The blank line is read: the body is next.
LEMMA BlankOrdered ==
    ASSUME ReadInv, OrderInv, reader = "drain", TakeLine("blank"), reader' = "body",
           UNCHANGED <<room, contentLength, buf, got, printVars>>
    PROVE  OrderInv'
<1>1. /\ 1 \in 1 .. Len(stdout) /\ stdout' = SubSeq(stdout, 1 + 1, Len(stdout))
      /\ stdout[1].kind = "blank"
  BY BlankTaken
<1>2. UNCHANGED <<printed, closed, owed, harmed, stream>>
  BY DEF printVars, stream
<1>3. /\ OwedInv /\ CleanInv /\ PendingInv /\ 1 \in 0 .. Len(stdout)
      /\ Len(stdout) \in Nat
  BY <1>1 DEF ReadInv, ReadType, OrderInv
<1>4. /\ Len(stdout') = Len(stdout) - 1
      /\ \A i \in 1 .. Len(stdout') : i + 1 \in 1 .. Len(stdout) /\ stdout'[i] = stdout[i + 1]
  BY <1>1, <1>2, <1>3, Dropped
<1>5. NoNewHeader(1)
  BY <1>4 DEF NoNewHeader
<1>6. OwedInv' /\ \A f, n : Due(f, n) => Due(f, n)'
  BY <1>2, <1>3, <1>5, OwedKept
<1>7. PICK f \in 1 .. printed : Current(f) /\ Due(f, contentLength) /\ Pending(f)
  BY <1>3 DEF PendingInv
<1>8. contentLength \in Int
  BY <1>7, PipeAssumption DEF Current
<1>9. ASSUME NEW b \in 1 .. Len(stdout'), InBody(b + 1)
      PROVE  InBody(b)'
  <2>1. CASE b + 1 <= 1 + contentLength
    BY <1>8, <2>1 DEF InBody
  <2>2. CASE \E h \in 1 .. (b + 1) - 1 : stdout[h].kind = "header" /\ b + 1 <= h + 1 + stdout[h].n
    <3>1. PICK h \in 1 .. (b + 1) - 1 : stdout[h].kind = "header" /\ b + 1 <= h + 1 + stdout[h].n
      BY <2>2
    <3>2. (\A i \in 1 .. Len(stdout) : stdout[i].n \in Int) /\ h # 1
      BY <1>1, <1>3, <3>1, OwedFrames
    <3>3. PICK g : g = h - 1
      OBVIOUS
    <3>4. g \in 1 .. b - 1 /\ g \in 1 .. Len(stdout') /\ h = g + 1 /\ h \in 1 .. Len(stdout)
      BY <1>3, <1>4, <3>1, <3>2, <3>3
    <3>5. stdout'[g] = stdout[h] /\ b <= g + 1 + stdout[h].n
      BY <1>4, <3>1, <3>2, <3>4
    <3> QED
      BY <3>1, <3>4, <3>5 DEF InBody
  <2> QED
    BY <1>9, <2>1, <2>2 DEF InBody
<1>10. CleanInv'
  BY <1>2, <1>3, <1>4, <1>9, CleanKept
<1>11. Pending(f)'
  <2>1. ASSUME NEW k \in 1 .. Len(owed), Shown(owed[k].frame)
        PROVE  \E i \in 1 .. Len(stdout') :
                 stdout'[i].kind = "header" /\ stdout'[i].frame = owed[k].frame
    <3>1. PICK i \in 1 .. Len(stdout) : stdout[i].kind = "header" /\ stdout[i].frame = owed[k].frame
      BY <2>1 DEF Shown
    <3>2. PICK j : j = i - 1
      OBVIOUS
    <3>3. j \in 1 .. Len(stdout') /\ i = j + 1
      BY <1>1, <1>3, <1>4, <3>1, <3>2
    <3>4. stdout'[j] = stdout[i]
      BY <1>4, <3>3
    <3> QED
      BY <3>1, <3>3, <3>4
  <2> QED
    BY <1>2, <1>5, <1>7, <2>1, PendingKept
<1>12. PendingInv'
  <2>1. Current(f)'
    BY <1>7, BlankRead
  <2>2. PICK n : n = contentLength
    OBVIOUS
  <2>3. Due(f, n)'
    BY <1>6, <1>7, <2>2
  <2>4. Due(f, contentLength)'
    BY <2>2, <2>3 DEF Due, Owed
  <2> QED
    BY <1>2, <1>7, <1>11, <2>1, <2>4 DEF PendingInv
<1> QED
  BY <1>6, <1>10, <1>12 DEF OrderInv

\* The frame that is being read is the first of owed that has not been read; or
\* all of owed has been.
LEMMA NextOwed ==
    ASSUME ReadInv, OrderInv, NEW f \in 1 .. printed, NEW n \in Nat, Current(f), Due(f, n), Pending(f)
    PROVE  \/ n = 0
           \/ /\ Len(stream) + n <= Len(owed)
              /\ \A j \in 1 .. n : owed[Len(stream) + j] = Unit("byte", f, n - j)
           \/ harmed /\ Len(stream) >= Len(owed)
<1>1. /\ OwedInv /\ Len(owed) \in Nat /\ Len(stream) \in Nat /\ f \in Nat
      /\ \A k \in 1 .. Len(owed) : owed[k].frame \in Nat
      /\ \A i \in 1 .. Len(stdout) : stdout[i].frame \in Nat
  BY OwedFrames DEF OrderInv
<1>2. \A k \in 1 .. Len(owed) : k > Len(stream) => f <= owed[k].frame
  BY <1>1 DEF Pending, Shown, Current
<1>3. CASE harmed /\ \A k \in 1 .. Len(owed) : owed[k].frame < f
  <2> SUFFICES ASSUME ~(Len(stream) >= Len(owed)) PROVE FALSE
    BY <1>3
  <2>1. Len(stream) + 1 \in 1 .. Len(owed) /\ Len(stream) + 1 > Len(stream)
    BY <1>1
  <2>2. PICK k : k = Len(stream) + 1
    OBVIOUS
  <2> QED
    BY <1>1, <1>2, <1>3, <2>1, <2>2
<1>4. CASE Owed(f, n) /\ n # 0
  <2>1. PICK p \in 0 .. Len(owed) :
          /\ p + n <= Len(owed)
          /\ \A j \in 1 .. n : owed[p + j] = Unit("byte", f, n - j)
          /\ \A k \in 1 .. Len(owed) : owed[k].frame = f => k \in p + 1 .. p + n
    BY <1>4 DEF Owed
  <2>2. PICK q : q = p + 1
    OBVIOUS
  <2>3. q \in 1 .. Len(owed) /\ owed[q].frame = f
    <3>1. 1 \in 1 .. n /\ p + 1 \in 1 .. Len(owed)
      BY <1>1, <1>4, <2>1
    <3>2. owed[p + 1] = Unit("byte", f, n - 1)
      BY <2>1, <3>1
    <3> QED
      BY <2>2, <3>1, <3>2 DEF Unit
  <2>4. ~(q <= Len(stream))
    <3> SUFFICES ASSUME q <= Len(stream) PROVE FALSE
      OBVIOUS
    <3>1. q \in 1 .. Len(stream)
      BY <1>1, <2>3
    <3>2. stream[q] = owed[q] /\ stream[q].frame < f
      BY <1>1, <2>3, <3>1 DEF OwedInv, Current, Fresh
    <3> QED
      BY <1>1, <2>3, <3>2
  <2>5. p = Len(stream)
    <3> SUFFICES ASSUME p # Len(stream) PROVE FALSE
      OBVIOUS
    <3>1. PICK k : k = Len(stream) + 1
      OBVIOUS
    <3>2. k \in 1 .. Len(owed) /\ k > Len(stream) /\ k < q
      BY <1>1, <2>1, <2>2, <2>3, <2>4, <3>1
    <3>3. f <= owed[k].frame /\ owed[k].frame <= owed[q].frame
      BY <1>1, <1>2, <2>3, <3>2 DEF OwedInv
    <3>4. owed[k].frame = f
      BY <1>1, <2>3, <3>2, <3>3
    <3>5. k \in p + 1 .. p + n
      BY <2>1, <3>2, <3>4
    <3> QED
      BY <1>1, <2>2, <3>2, <3>5
  <2> QED
    BY <2>1, <2>5
<1> QED
  BY <1>3, <1>4 DEF Due

\* The body is read: what reaches the client is owed, or comes behind all that
\* is.
LEMMA BodyOrdered ==
    ASSUME ReadInv, OrderInv, reader = "body", ReadBody, contentLength >= 0, UNCHANGED printVars,
           reader' = "idle"
    PROVE  OrderInv'
<1>1. PICK n : n = contentLength
  OBVIOUS
<1>2. /\ n \in 0 .. Len(stdout) /\ n \in Nat
      /\ stdout' = SubSeq(stdout, n + 1, Len(stdout))
      /\ Len(stream) \in Nat /\ Len(stream') = Len(stream) + n
      /\ \A i \in 1 .. Len(stream) : stream'[i] = stream[i]
      /\ \A j \in 1 .. n : stream'[Len(stream) + j] = stdout[j]
  BY <1>1, BodyRead
<1>3. UNCHANGED <<printed, closed, owed, harmed>>
  BY DEF printVars
<1>4. /\ OwedInv /\ CleanInv /\ PendingInv
      /\ Len(stdout) \in Nat /\ Len(owed) \in Nat /\ harmed \in BOOLEAN
      /\ \A k \in 1 .. Len(owed) : owed[k].frame \in Nat /\ owed[k].frame >= 1
      /\ \A i \in 1 .. Len(stdout) : stdout[i].n \in Int
  BY OwedFrames DEF ReadInv, ReadType, OrderInv
<1>5. /\ Len(stdout') = Len(stdout) - n
      /\ \A i \in 1 .. Len(stdout') : i + n \in 1 .. Len(stdout) /\ stdout'[i] = stdout[i + n]
  BY <1>2, <1>3, Dropped
<1>6. NoNewHeader(n)
  BY <1>5 DEF NoNewHeader
<1>7. PICK f \in 1 .. printed : Current(f) /\ Due(f, n) /\ Pending(f)
  BY <1>1, <1>4 DEF PendingInv
<1>8. \A j \in 1 .. n : stdout[j] = Unit("byte", f, n - j) /\ stdout[j].kind = "byte"
  <2> TAKE j \in 1 .. n
  <2>1. 0 + j <= Len(stdout) /\ 0 + j = j
    BY <1>2, <1>4
  <2>2. stdout[j] = Unit("byte", f, n - j)
    BY <1>1, <1>7, <2>1 DEF Current, BodyAt
  <2> QED
    BY <2>2 DEF Unit
<1>9. \/ n = 0
      \/ /\ Len(stream) + n <= Len(owed)
         /\ \A j \in 1 .. n : owed[Len(stream) + j] = Unit("byte", f, n - j)
      \/ harmed /\ Len(stream) >= Len(owed)
  BY <1>2, <1>7, NextOwed
<1>10. OwedInv'
  <2>1. \A g, l : Due(g, l) => Due(g, l)'
    BY <1>3 DEF Due, Owed
  <2>2. (\A i \in 1 .. Len(stdout) :
           stdout[i].kind = "header" => Due(stdout[i].frame, stdout[i].n))'
    <3> SUFFICES ASSUME NEW i \in 1 .. Len(stdout'), stdout'[i].kind = "header"
                 PROVE  Due(stdout[i].frame, stdout[i].n)'
      OBVIOUS
    <3>1. PICK g, l : g = stdout'[i].frame /\ l = stdout'[i].n
      OBVIOUS
    <3>2. Due(g, l)
      BY <1>4, <1>5, <3>1 DEF OwedInv
    <3>3. Due(g, l)'
      BY <2>1, <3>2
    <3> QED
      BY <3>1, <3>3 DEF Due, Owed
  <2>3. ASSUME NEW k \in 1 .. Len(stream'), k <= Len(owed)
        PROVE  stream'[k] = owed[k]
    <3>1. CASE k \in 1 .. Len(stream)
      BY <1>2, <1>4, <2>3, <3>1 DEF OwedInv
    <3>2. CASE k \notin 1 .. Len(stream)
      <4>1. PICK j : j = k - Len(stream)
        OBVIOUS
      <4>2. j \in 1 .. n /\ k = Len(stream) + j
        BY <1>2, <3>2, <4>1
      <4>3. n # 0 /\ ~(Len(stream) >= Len(owed))
        BY <1>2, <1>4, <2>3, <4>2
      <4>4. owed[Len(stream) + j] = Unit("byte", f, n - j)
        BY <1>9, <4>2, <4>3
      <4> QED
        BY <1>2, <1>8, <4>2, <4>4
    <3> QED
      BY <3>1, <3>2
  <2>4. ~harmed => Len(stream') <= Len(owed)
    BY <1>2, <1>4, <1>9 DEF OwedInv
  <2> QED
    BY <1>3, <1>4, <2>2, <2>3, <2>4 DEF OwedInv
<1>11. ASSUME NEW b \in 1 .. Len(stdout'), InBody(b + n)
       PROVE  InBody(b)'
  <2>1. ~(b + n <= n)
    BY <1>2, <1>4, <1>5
  <2>2. PICK h \in 1 .. (b + n) - 1 : stdout[h].kind = "header" /\ b + n <= h + 1 + stdout[h].n
    BY <1>1, <1>11, <2>1 DEF InBody
  <2>3. h \notin 1 .. n
    <3> SUFFICES ASSUME h \in 1 .. n PROVE FALSE
      OBVIOUS
    <3>1. stdout[h].kind = "byte"
      BY <1>8
    <3> QED
      BY <2>2, <3>1
  <2>4. PICK g : g = h - n
    OBVIOUS
  <2>5. g \in 1 .. b - 1 /\ g \in 1 .. Len(stdout') /\ h = g + n /\ h \in 1 .. Len(stdout)
    BY <1>2, <1>4, <1>5, <2>2, <2>3, <2>4
  <2>6. stdout'[g] = stdout[h]
    BY <1>5, <2>5
  <2>7. b <= g + 1 + stdout[h].n
    <3>1. stdout[h].n \in Int /\ b + n <= (g + n) + 1 + stdout[h].n
      BY <1>4, <2>2, <2>5
    <3>2. b \in Int /\ g \in Int /\ n \in Int
      BY <1>2, <2>5
    <3> QED
      BY <3>1, <3>2
  <2> QED
    BY <2>2, <2>5, <2>6, <2>7 DEF InBody
<1>12. CleanInv'
  BY <1>2, <1>3, <1>4, <1>5, <1>11, CleanKept
<1>13. Pending(0)'
  <2> SUFFICES ASSUME NEW k \in 1 .. Len(owed), k > Len(stream')
               PROVE  \/ Shown(owed[k].frame)'
                      \/ /\ closed
                         /\ \A i \in 1 .. Len(stdout') :
                              stdout'[i].kind = "header" => stdout'[i].frame < owed[k].frame
    BY <1>3, <1>4 DEF Pending
  <2>1. k > Len(stream)
    BY <1>2, <1>4
  <2>2. CASE Shown(owed[k].frame)
    <3>1. PICK i \in 1 .. Len(stdout) : stdout[i].kind = "header" /\ stdout[i].frame = owed[k].frame
      BY <2>2 DEF Shown
    <3>2. i \notin 1 .. n
      <4> SUFFICES ASSUME i \in 1 .. n PROVE FALSE
        OBVIOUS
      <4>1. stdout[i].kind = "byte"
        BY <1>8
      <4> QED
        BY <3>1, <4>1
    <3>3. PICK j : j = i - n
      OBVIOUS
    <3>4. j \in 1 .. Len(stdout') /\ i = j + n
      BY <1>2, <1>4, <1>5, <3>1, <3>2, <3>3
    <3>5. stdout'[j] = stdout[i]
      BY <1>5, <3>4
    <3> QED
      BY <1>3, <3>1, <3>4, <3>5 DEF Shown
  <2>3. owed[k].frame # f
    <3> SUFFICES ASSUME owed[k].frame = f PROVE FALSE
      OBVIOUS
    <3>1. PICK p \in 0 .. Len(owed) :
            \A l \in 1 .. Len(owed) : owed[l].frame = f => l \in p + 1 .. p + n
      <4>1. ~(\A l \in 1 .. Len(owed) : owed[l].frame < f)
        BY <1>4
      <4>2. Owed(f, n)
        BY <1>7, <4>1 DEF Due
      <4> QED
        BY <4>2 DEF Owed
    <3>2. k \in p + 1 .. p + n /\ n # 0 /\ ~(Len(stream) >= Len(owed))
      BY <1>2, <1>4, <2>1, <3>1
    <3>3. /\ Len(stream) + n <= Len(owed)
          /\ \A j \in 1 .. n : owed[Len(stream) + j] = Unit("byte", f, n - j)
      BY <1>9, <3>2
    <3>4. PICK l : l = Len(stream) + 1
      OBVIOUS
    <3>5. 1 \in 1 .. n /\ l \in 1 .. Len(owed)
      BY <1>2, <1>4, <3>2, <3>3, <3>4
    <3>6. owed[l].frame = f
      <4>1. owed[Len(stream) + 1] = Unit("byte", f, n - 1)
        BY <3>3, <3>5
      <4> QED
        BY <3>4, <4>1 DEF Unit
    <3>7. l \in p + 1 .. p + n
      BY <3>1, <3>5, <3>6
    <3> QED
      BY <1>2, <1>4, <3>2, <3>4, <3>7
  <2>4. CASE /\ closed
             /\ \A i \in 1 .. Len(stdout) :
                  stdout[i].kind = "header" => stdout[i].frame < owed[k].frame
    BY <1>5, <2>4
  <2> QED
    BY <1>7, <2>1, <2>2, <2>3, <2>4 DEF Pending
<1> QED
  BY <1>10, <1>12, <1>13 DEF OrderInv, PendingInv

\* Reading fails: the client has what it got.
LEMMA FailOrdered ==
    ASSUME ReadInv, OrderInv, reader' \in {"failed", "panicked"},
           UNCHANGED <<buf, got, printVars>>, NEW m, NoNewHeader(m)
    PROVE  OrderInv'
<1>1. UNCHANGED <<printed, closed, owed, harmed, stream>>
  BY DEF printVars, stream
<1>2. OwedInv'
  BY <1>1, OwedKept DEF OrderInv
<1> QED
  BY <1>2 DEF OrderInv, CleanInv, PendingInv

\* The frames that no broken output precedes are read first, in their order.
LEMMA OrderInvCorrect == Spec => [](ReadInv /\ OrderInv)
<1>1. Init => OrderInv
  <2> SUFFICES ASSUME Init PROVE OrderInv
    OBVIOUS
  <2>1. stream = <<>> /\ Len(stream) = 0 /\ Len(owed) = 0 /\ Len(stdout) = 0 /\ reader = "idle"
    BY DEF Init, stream
  <2>2. OwedInv
    BY <2>1 DEF OwedInv
  <2>3. CleanInv /\ PendingInv
    BY <2>1 DEF CleanInv, PendingInv, Pending
  <2> QED
    BY <2>2, <2>3 DEF OrderInv
<1>2. ReadInv /\ OrderInv /\ [Next]_vars => OrderInv'
  <2> SUFFICES ASSUME ReadInv, OrderInv, [Next]_vars PROVE OrderInv'
    OBVIOUS
  <2>0. stdout \in Seq(Units) /\ Len(stdout) \in Nat
    BY DEF ReadInv, ReadType
  <2>1. ASSUME NEW n \in Lengths, PrintFrame(n)
        PROVE  OrderInv'
    BY <2>1, FrameOrdered
  <2>2. ASSUME NEW kind \in {"stray", "invalid", "tail"}, PrintStray(kind)
        PROVE  OrderInv'
    BY <2>0, <2>2, StrayPrinted, StrayOrdered
  <2>3. CASE CloseStdout
    BY <2>3, CloseOrdered
  <2>4. ASSUME NEW size \in Sizes, Read(size)
        PROVE  OrderInv'
    <3>1. /\ UNCHANGED <<stdout, printed, harmed, owed, closed>>
          /\ reader = "idle" /\ reader' \in {"idle", "scan"}
      BY <2>4 DEF Read, printVars
    <3>2. stream' = stream
      <4>1. CASE buf # <<>>
        <5>1. got \in Seq(Bytes) /\ buf \in Seq(Bytes) /\ size \in Nat /\ Copied(buf, size)
          BY <2>4, <4>1, PipeAssumption DEF Read, ReadInv, ReadType
        <5> QED
          BY <5>1, CopiedWhole DEF stream
      <4>2. CASE buf = <<>>
        BY <2>4, <4>2 DEF Read, stream
      <4> QED
        BY <4>1, <4>2
    <3>3. OwedInv'
      BY <3>1, <3>2, OwedUnchanged DEF OrderInv
    <3>4. CleanInv'
      BY <3>1 DEF OrderInv, CleanInv, Protected, Owes, Clean, InBody
    <3>5. PendingInv'
      BY <3>1, <3>2 DEF OrderInv, PendingInv, Pending, Shown
    <3> QED
      BY <3>3, <3>4, <3>5 DEF OrderInv
  <2>5. CASE ScanLine
    <3>1. reader = "scan" /\ UNCHANGED <<room, buf, got, printVars>>
      BY <2>5 DEF ScanLine
    <3>2. CASE TakeLine("header") /\ contentLength' = stdout[1].n /\ reader' = "drain"
      BY <3>1, <3>2, HeaderOrdered
    <3>3. CASE TakeLine("invalid") /\ reader' = "failed"
      <4>1. PICK m \in 1 .. Len(stdout) : stdout' = SubSeq(stdout, m + 1, Len(stdout))
        BY <2>0, <3>3, LineTaken
      <4>2. m \in 0 .. Len(stdout) /\ UNCHANGED <<printed, closed>>
        BY <3>1, <4>1 DEF printVars
      <4>3. NoNewHeader(m)
        BY <4>1, <4>2, Dropped DEF NoNewHeader
      <4> QED
        BY <3>1, <3>3, <4>3, FailOrdered
    <3>4. ASSUME NEW kind \in {"stray", "blank"}, TakeLine(kind), UNCHANGED <<reader, contentLength>>
          PROVE  OrderInv'
      BY <3>1, <3>4, SkipOrdered
    <3> QED
      BY <2>5, <3>2, <3>3, <3>4 DEF ScanLine
  <2>6. CASE DrainLine
    <3>1. reader = "drain" /\ UNCHANGED <<room, contentLength, buf, got, printVars>>
      BY <2>6 DEF DrainLine
    <3>2. \A kind : TakeLine(kind) => kind = "blank"
      BY <3>1, BlankTaken
    <3>3. TakeLine("blank") /\ reader' = "body"
      BY <2>6, <3>2 DEF DrainLine
    <3> QED
      BY <3>1, <3>3, BlankOrdered
  <2>7. CASE ReadBody
    <3>1. reader = "body" /\ UNCHANGED printVars /\ contentLength \in Int
      BY <2>7, PipeAssumption DEF ReadBody, ReadInv, ReadType
    <3>2. CASE contentLength < 0
      <4>1. reader' = "panicked" /\ UNCHANGED <<stdout, buf, got>>
        BY <2>7, <3>2 DEF ReadBody
      <4>2. NoNewHeader(0)
        BY <2>0, <4>1 DEF NoNewHeader
      <4> QED
        BY <3>1, <4>1, <4>2, FailOrdered
    <3>3. CASE contentLength >= 0
      <4>1. reader' = "idle"
        BY <2>7, <3>1, <3>3 DEF ReadBody
      <4> QED
        BY <2>7, <3>1, <3>3, <4>1, BodyOrdered
    <3> QED
      BY <3>1, <3>2, <3>3
  <2>8. CASE ReadEOF
    <3>1. reader' = "failed" /\ UNCHANGED <<stdout, buf, got, printVars>>
      BY <2>8 DEF ReadEOF
    <3>2. NoNewHeader(0)
      BY <2>0, <3>1 DEF NoNewHeader
    <3> QED
      BY <3>1, <3>2, FailOrdered
  <2>9. CASE UNCHANGED <<stdout, printVars, readVars>>
    <3>1. UNCHANGED <<stdout, printed, harmed, owed, closed, reader, contentLength, stream>>
      BY <2>9 DEF printVars, readVars, stream
    <3>2. OwedInv'
      BY <3>1, OwedUnchanged DEF OrderInv
    <3>3. CleanInv'
      BY <3>1 DEF OrderInv, CleanInv, Protected, Owes, Clean, InBody
    <3>4. PendingInv'
      BY <3>1 DEF OrderInv, PendingInv, Pending, Shown, Current, Fresh, FrameAt, BodyAt, Due, Owed
    <3> QED
      BY <3>2, <3>3, <3>4 DEF OrderInv
  <2>10. ASSUME NEW m \in Writers, WriteHeader(m) \/ WriteBody(m) \/ WriteFails(m)
         PROVE  OrderInv'
    BY <2>9, <2>10 DEF WriteHeader, WriteBody, WriteFails
  <2> QED
    BY <2>1, <2>2, <2>3, <2>4, <2>5, <2>6, <2>7, <2>8, <2>9, <2>10 DEF Next, Reading, vars
<1> QED
  BY <1>1, <1>2, ReadInvCorrect, PTL DEF Spec

\* What reaches the client are the frames that no broken output precedes, in full
\* and with nothing between them, then others, if any: however many stray lines
\* are around them ("skipping any stray output", Read, adapter_rpc_pipe.go).
THEOREM InOrder == Spec => []FramesInOrder
<1>1. ASSUME NEW s \in Seq(Bytes), NEW t \in Seq(Bytes), Len(s) <= Len(t),
             \A k \in 1 .. Len(s) : s[k] = t[k]
      PROVE  IsPrefix(s, t)
  <2>1. Len(s) \in Nat /\ Len(t) \in Nat
    OBVIOUS
  <2>2. /\ SubSeq(s, 1, Len(s)) \in Seq(Bytes) /\ Len(SubSeq(s, 1, Len(s))) = Len(s)
        /\ \A k \in 1 .. Len(s) : SubSeq(s, 1, Len(s))[k] = s[k]
    BY <2>1, SubSeqProperties
  <2>3. /\ SubSeq(t, 1, Len(s)) \in Seq(Bytes) /\ Len(SubSeq(t, 1, Len(s))) = Len(s)
        /\ \A k \in 1 .. Len(s) : SubSeq(t, 1, Len(s))[k] = t[k]
    BY <1>1, <2>1, SubSeqProperties
  <2>4. SubSeq(s, 1, Len(s)) = SubSeq(t, 1, Len(s))
    BY <1>1, <2>2, <2>3, SeqEqual
  <2> QED
    BY <1>1, <2>4 DEF IsPrefix
<1>2. ReadInv /\ OrderInv => FramesInOrder
  <2> SUFFICES ASSUME ReadInv, OrderInv PROVE FramesInOrder
    OBVIOUS
  <2>1. stream \in Seq(Bytes) /\ owed \in Seq(Bytes)
    BY ConcatProperties DEF stream, ReadInv, ReadType
  <2>2. Len(stream) \in Nat /\ Len(owed) \in Nat
    BY <2>1
  <2>3. CASE Len(stream) <= Len(owed)
    <3>1. \A k \in 1 .. Len(stream) : stream[k] = owed[k]
      BY <2>2, <2>3 DEF OrderInv, OwedInv
    <3> QED
      BY <1>1, <2>1, <2>3, <3>1 DEF FramesInOrder, stream
  <2>4. CASE Len(owed) <= Len(stream)
    <3>1. \A k \in 1 .. Len(owed) : owed[k] = stream[k]
      BY <2>2, <2>4 DEF OrderInv, OwedInv
    <3> QED
      BY <1>1, <2>1, <2>4, <3>1 DEF FramesInOrder, stream
  <2> QED
    BY <2>2, <2>3, <2>4
<1> QED
  BY <1>2, OrderInvCorrect, PTL
=============================================================================
