------------------------------ MODULE HeaderPipe -----------------------------
(***************************************************************************)
(* The pipe the rpc adapter puts around a worker's stdin and stdout        *)
(* (supervisor/adapter_rpc_pipe.go): messages travel as frames, a          *)
(* Content-Length line, a blank line and a body, and whatever else the     *)
(* worker prints between frames has to be skipped.                         *)
(*                                                                         *)
(* Stdout is a sequence of units: whole lines, the bytes of bodies, and    *)
(* text without a newline, which becomes part of the line that follows.    *)
(* Frames are printed in one piece, but may be cut when the worker dies.   *)
(***************************************************************************)
EXTENDS Integers, SequencesExt

CONSTANTS
    Writers,     \* the messages the rpc client writes
    MaxFrames,   \* how many frames the worker prints
    MaxUnread,   \* how much it prints ahead of the reader
    Lengths,     \* the lengths its headers give
    MaxLength,   \* the largest of them
    Sizes,       \* the sizes of the buffers Read is called with
    Unlocked     \* a free lock

ASSUME PipeAssumption ==
    /\ MaxFrames \in Nat /\ MaxUnread \in Nat /\ Lengths \subseteq Int
    /\ \A n \in Lengths : n <= MaxLength
    /\ Sizes \subseteq Nat \ {0} /\ Unlocked \notin Writers

VARIABLES
    stdout,      \* what the worker has printed and nobody has read
    printed,     \* how many frames it has printed
    harmed,      \* it has printed something that is no frame and no whole line
    owed,        \* the bodies of the frames it had printed before that
    closed,      \* stdout has ended
    reader,      \* where Read is
    room,        \* len(p)
    contentLength,
    buf,         \* h.buf
    got,         \* the bytes Read has returned so far, all calls together
    wmu,         \* the message whose Write holds h.wmu
    wpc,         \* wpc[m]: how far the Write of message m has come
    stdin,       \* what has been written
    broken       \* a write to stdin has failed

printVars == <<printed, harmed, owed, closed>>
readVars == <<reader, room, contentLength, buf, got>>
writeVars == <<wmu, wpc, stdin, broken>>
vars == <<stdout, printVars, readVars, writeVars>>

Lines == [kind : {"header", "blank", "stray", "invalid"}, frame : Nat, n : Int]
Bytes == [kind : {"byte", "tail"}, frame : Nat, n : Nat]

TypeOK ==
    /\ stdout \in Seq(Lines \cup Bytes) /\ buf \in Seq(Bytes) /\ got \in Seq(Bytes)
    /\ printed \in 0 .. MaxFrames /\ owed \in Seq(Bytes)
    /\ {harmed, closed, broken} \subseteq BOOLEAN
    /\ reader \in {"idle", "scan", "drain", "body", "failed", "panicked"}
    /\ room \in Sizes \cup {0} /\ contentLength \in Lengths \cup {0}
    /\ wmu \in Writers \cup {Unlocked}
    /\ wpc \in [Writers -> {"new", "header", "body", "done", "failed"}]
    /\ \A m \in Writers : wpc[m] = "body" <=> wmu = m
    /\ stdin \in Seq({"header", "body"} \X Writers)

Init ==
    /\ stdout = <<>> /\ buf = <<>> /\ got = <<>> /\ stdin = <<>>
    /\ owed = <<>> /\ printed = 0 /\ room = 0 /\ contentLength = 0
    /\ harmed = FALSE /\ closed = FALSE /\ broken = FALSE
    /\ reader = "idle"
    /\ wmu = Unlocked
    /\ wpc = [m \in Writers |-> "new"]

-----------------------------------------------------------------------------
(* The worker prints.                                                       *)

Unit(kind, f, n) == [kind |-> kind, frame |-> f, n |-> n]
\* A byte carries the number of those that follow it.
Body(f, n) == [i \in 1 .. n |-> Unit("byte", f, n - i)]

Printing == ~closed /\ Len(stdout) < MaxUnread

\* The header and the body it announces; a negative length has none.  A length
\* that is too short is that frame and a "tail"; none is too long, as ReadBody
\* would cut the next header into bytes.
PrintFrame(n) ==
    /\ Printing /\ printed < MaxFrames
    /\ printed' = printed + 1
    /\ stdout' = stdout \o <<Unit("header", printed', n), Unit("blank", 0, 0)>>
                        \o Body(printed', n)
    /\ harmed' = (harmed \/ n < 0)
    /\ owed' = IF harmed' THEN owed ELSE owed \o Body(printed', n)
    /\ UNCHANGED <<closed, readVars, writeVars>>

\* A line of output, a header without a number, or text without a newline.
PrintStray(kind) ==
    /\ Printing
    /\ stdout' = Append(stdout, Unit(kind, 0, 0))
    /\ harmed' = (harmed \/ kind # "stray")
    /\ UNCHANGED <<printed, owed, closed, readVars, writeVars>>

\* The worker ends, and what it had not flushed is lost.
CloseStdout ==
    /\ ~closed
    /\ closed' = TRUE
    /\ \E k \in 0 .. Len(stdout) : stdout' = SubSeq(stdout, 1, k)
    /\ UNCHANGED <<printed, harmed, owed, readVars, writeVars>>

-----------------------------------------------------------------------------
(* Read.  One call at a time, under rmu.                                    *)

\* ReadString: the shortest prefix that ends a line.
IsLine(k) ==
    /\ stdout[k].kind \notin {"byte", "tail"}
    /\ \A i \in 1 .. k - 1 : stdout[i].kind \in {"byte", "tail"}

HasLine == \E k \in 1 .. Len(stdout) : IsLine(k)

\* Text before it makes a header or a separator a line like any other.
TakeLine(kind) ==
    \E k \in 1 .. Len(stdout) :
        /\ IsLine(k)
        /\ kind = IF k = 1 THEN stdout[1].kind ELSE "stray"
        /\ stdout' = SubSeq(stdout, k + 1, Len(stdout))

\* What Read hands out of a body, and what it keeps for the next call.
HandOut(bytes, n) ==
    /\ got' = got \o SubSeq(bytes, 1, n)
    /\ buf' = SubSeq(bytes, n + 1, Len(bytes))

\* Mutant of Copied: a body larger than p loses what does not fit.
DropOverflow(bytes, size) ==
    /\ got' = got \o SubSeq(bytes, 1, IF size < Len(bytes) THEN size ELSE Len(bytes))
    /\ buf' = <<>>

Copied(bytes, size) == HandOut(bytes, IF size < Len(bytes) THEN size ELSE Len(bytes))

\* Leftover bytes first; else the next frame.
Read(size) ==
    /\ reader = "idle"
    /\ IF buf # <<>> THEN Copied(buf, size) /\ UNCHANGED <<reader, room>>
       ELSE reader' = "scan" /\ room' = size /\ UNCHANGED <<buf, got>>
    /\ UNCHANGED <<stdout, contentLength, printVars, writeVars>>

\* Mutant of ScanLine: a stray line is an error.
ScanStrictly ==
    /\ reader = "scan"
    /\ \/ /\ TakeLine("header")
          /\ contentLength' = stdout[1].n
          /\ reader' = "drain"
       \/ /\ TakeLine("stray") \/ TakeLine("blank") \/ TakeLine("invalid")
          /\ reader' = "failed"
          /\ UNCHANGED contentLength
    /\ UNCHANGED <<room, buf, got, printVars, writeVars>>

\* Scan until a Content-Length line, skipping any other.
ScanLine ==
    /\ reader = "scan"
    /\ \/ /\ TakeLine("header")
          /\ contentLength' = stdout[1].n
          /\ reader' = "drain"
       \/ /\ TakeLine("invalid")
          /\ reader' = "failed"
          /\ UNCHANGED contentLength
       \/ /\ TakeLine("stray") \/ TakeLine("blank")
          /\ UNCHANGED <<reader, contentLength>>
    /\ UNCHANGED <<room, buf, got, printVars, writeVars>>

\* Drain the remaining header lines until the blank one.
DrainLine ==
    /\ reader = "drain"
    /\ \/ TakeLine("blank") /\ reader' = "body"
       \/ \E kind \in {"header", "stray", "invalid"} : TakeLine(kind) /\ UNCHANGED reader
    /\ UNCHANGED <<room, contentLength, buf, got, printVars, writeVars>>

\* io.ReadFull of contentLength bytes; make panics on a negative length.
ReadBody ==
    /\ reader = "body"
    /\ IF contentLength < 0
       THEN reader' = "panicked" /\ UNCHANGED <<stdout, room, contentLength, buf, got>>
       ELSE /\ Len(stdout) >= contentLength
            /\ Copied(SubSeq(stdout, 1, contentLength), room)
            /\ stdout' = SubSeq(stdout, contentLength + 1, Len(stdout))
            /\ reader' = "idle"
    /\ room' = 0 /\ contentLength' = 0
    /\ UNCHANGED <<printVars, writeVars>>

\* The stream ends in the middle of what is being read.
ReadEOF ==
    /\ closed
    /\ \/ reader \in {"scan", "drain"} /\ ~HasLine
       \/ reader = "body" /\ Len(stdout) < contentLength
    /\ reader' = "failed"
    /\ UNCHANGED <<stdout, room, contentLength, buf, got, printVars, writeVars>>

-----------------------------------------------------------------------------
(* Write: header and body, two writes under wmu.                            *)

\* Mutant of WriteHeader: wmu is not taken.
WriteUnlocked(m) ==
    /\ wpc[m] = "new" /\ ~broken
    /\ stdin' = Append(stdin, <<"header", m>>)
    /\ wpc' = [wpc EXCEPT ![m] = "body"]
    /\ UNCHANGED <<wmu, broken, stdout, printVars, readVars>>

WriteHeader(m) ==
    /\ wpc[m] = "new" /\ wmu = Unlocked /\ ~broken
    /\ wmu' = m
    /\ stdin' = Append(stdin, <<"header", m>>)
    /\ wpc' = [wpc EXCEPT ![m] = "body"]
    /\ UNCHANGED <<broken, stdout, printVars, readVars>>

WriteBody(m) ==
    /\ wpc[m] = "body" /\ ~broken
    /\ stdin' = Append(stdin, <<"body", m>>)
    /\ wpc' = [wpc EXCEPT ![m] = "done"]
    /\ wmu' = Unlocked
    /\ UNCHANGED <<broken, stdout, printVars, readVars>>

\* Mutant of WriteFails: an early return without the deferred unlock.
WriteFailsLocked(m) ==
    /\ wpc[m] = "body" \/ (wpc[m] = "new" /\ wmu = Unlocked)
    /\ broken' = TRUE
    /\ wpc' = [wpc EXCEPT ![m] = "failed"]
    /\ UNCHANGED <<wmu, stdin, stdout, printVars, readVars>>

\* Either write fails, because the worker has closed its stdin, and so do all
\* that come after it; the lock is released on every return.
WriteFails(m) ==
    /\ wpc[m] = "body" \/ (wpc[m] = "new" /\ wmu = Unlocked)
    /\ broken' = TRUE
    /\ wpc' = [wpc EXCEPT ![m] = "failed"]
    /\ wmu' = Unlocked
    /\ UNCHANGED <<stdin, stdout, printVars, readVars>>

-----------------------------------------------------------------------------
Reading == \E size \in Sizes : Read(size)

Next ==
    \/ \E n \in Lengths : PrintFrame(n)
    \/ \E kind \in {"stray", "invalid", "tail"} : PrintStray(kind)
    \/ CloseStdout
    \/ Reading \/ ScanLine \/ DrainLine \/ ReadBody \/ ReadEOF
    \/ \E m \in Writers : WriteHeader(m) \/ WriteBody(m) \/ WriteFails(m)

Spec == Init /\ [][Next]_vars

(***************************************************************************)
(* The rpc client reads in a loop until Read fails.  The worker need not   *)
(* print anything, and nobody need write.                                  *)
(***************************************************************************)
Fairness == WF_vars(Reading \/ ScanLine \/ DrainLine \/ ReadBody \/ ReadEOF)

FairSpec == Spec /\ Fairness

-----------------------------------------------------------------------------
(* Properties.                                                              *)

\* What Read returns, call after call, are whole bodies in their order: the
\* pieces of a body larger than the buffer never mix with the next frame
\* ("overflow from a read where contentLength > len(p)", adapter_rpc_pipe.go:18),
\* whatever else the worker prints and wherever it dies.
BodiesWhole ==
    LET stream == got \o buf
    IN  /\ \A i \in 1 .. Len(stream) - 1 :
             LET a == stream[i]  b == stream[i + 1]
             IN  \/ b.frame = a.frame /\ b.n = a.n - 1
                 \/ b.frame > a.frame /\ a.n = 0
        /\ \A i \in 1 .. Len(stream) : stream[i].kind = "byte"

\* What reaches the client are the frames that no broken output precedes, then
\* others, if any.
FramesInOrder == IsPrefix(got \o buf, owed) \/ IsPrefix(owed, got \o buf)

\* The frames that no broken output precedes reach the client in full, each
\* once and with nothing between them, however many stray lines there are
\* around them ("skipping any stray output", adapter_rpc_pipe.go:53), unless the
\* worker dies first.  A text without a newline, or a bad header, breaks this
\* for what follows it: its frame is hidden, or the client stops reading.
SoundFramesArrive ==
    /\ []FramesInOrder
    /\ \A k \in 1 .. MaxFrames * MaxLength : Len(owed) >= k ~> closed \/ Len(got) >= k

\* The worker's stdin is a sequence of frames: a header is followed by its own
\* body, unless the pipe broke in between.
WritesWhole ==
    \A i \in 1 .. Len(stdin) - 1 :
        stdin[i][1] = "header" => stdin[i + 1] = <<"body", stdin[i][2]>>
=============================================================================
