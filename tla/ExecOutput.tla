----------------------------- MODULE ExecOutput -----------------------------
(***************************************************************************)
(* The output of one command (cmd/agent/buffer.go, and runExec in exec.go):*)
(* the process writes to a pipe per stream, a copying goroutine of os/exec *)
(* reads the pipe and writes to the stream's capBuffer, and cmd.Wait       *)
(* returns once the process and both goroutines have ended.                *)
(*                                                                         *)
(* A byte is its position in the stream.  The process and os/exec are      *)
(* external.  A descendant that keeps the pipe open is in AgentConn.       *)
(***************************************************************************)
EXTENDS Integers, Sequences

CONSTANTS
    Streams,    \* stdout and stderr
    Cap,        \* capBuffer.max (the frame's OutputCap, 1 MiB by default)
    PipeCap,    \* capacity of a pipe
    MaxBytes    \* bound on what the process writes to a stream

ASSUME ExecOutputAssumption ==
    Cap \in Nat \ {0} /\ PipeCap \in Nat \ {0} /\ MaxBytes \in Nat

VARIABLES
    written,    \* written[s]: bytes the process has written to s
    read,       \* read[s]: bytes the copying goroutine has read of s
    buf,        \* buf[s]: the bytes kept
    full,       \* capBuffer.full
    copier,     \* the copying goroutine: "copy", at the end "eof", or "short"
    proc,       \* the process: running, or how it ended
    exit        \* the exit frame: none yet, or its contents

vars == <<written, read, buf, full, copier, proc, exit>>

NoExit == [sent |-> FALSE, code |-> 0, truncated |-> FALSE]

Init ==
    /\ written = [s \in Streams |-> 0]
    /\ read = [s \in Streams |-> 0]
    /\ buf = [s \in Streams |-> <<>>]
    /\ full = [s \in Streams |-> FALSE]
    /\ copier = [s \in Streams |-> "copy"]
    /\ proc = "running"
    /\ exit = NoExit

-----------------------------------------------------------------------------
(* capBuffer *)

\* Write(p) on the buffer of s: what it keeps, and the count it returns.
WriteTail(s, p) ==
    LET remain == Cap - Len(buf[s]) IN
    IF full[s] \/ remain <= 0
    THEN [buf |-> buf[s], full |-> TRUE, n |-> Len(p)]
    ELSE IF Len(p) > remain
    THEN [buf |-> buf[s] \o SubSeq(p, Len(p) - remain + 1, Len(p)), full |-> TRUE,
          n |-> remain]
    ELSE [buf |-> buf[s] \o p, full |-> FALSE, n |-> Len(p)]

WriteUnmarked(s, p) ==
    LET remain == Cap - Len(buf[s]) IN
    IF remain <= 0
    THEN [buf |-> buf[s], full |-> TRUE, n |-> Len(p)]
    ELSE IF Len(p) > remain
    THEN [buf |-> buf[s] \o SubSeq(p, 1, remain), full |-> FALSE, n |-> remain]
    ELSE [buf |-> buf[s] \o p, full |-> FALSE, n |-> Len(p)]

Write(s, p) ==
    LET remain == Cap - Len(buf[s]) IN
    IF full[s] \/ remain <= 0
    THEN [buf |-> buf[s], full |-> TRUE, n |-> Len(p)]
    ELSE IF Len(p) > remain
    THEN [buf |-> buf[s] \o SubSeq(p, 1, remain), full |-> TRUE, n |-> remain]
    ELSE [buf |-> buf[s] \o p, full |-> FALSE, n |-> Len(p)]

-----------------------------------------------------------------------------
(* The process *)

InPipe(s) == written[s] - read[s]

\* The process writes a byte, and blocks while the pipe is full.
ProcWrites(s) ==
    /\ proc = "running" /\ copier[s] # "short"
    /\ InPipe(s) < PipeCap /\ written[s] < MaxBytes
    /\ written' = [written EXCEPT ![s] = @ + 1]
    /\ UNCHANGED <<read, buf, full, copier, proc, exit>>

\* Nobody reads the pipe any more: a write kills the process with SIGPIPE.
ProcSigpipe(s) ==
    /\ proc = "running" /\ copier[s] = "short"
    /\ proc' = "killed"
    /\ UNCHANGED <<written, read, buf, full, copier, exit>>

\* The process exits, or is killed when its context is cancelled or times out.
ProcEnds(how) ==
    /\ proc = "running"
    /\ proc' = how
    /\ UNCHANGED <<written, read, buf, full, copier, exit>>

-----------------------------------------------------------------------------
(* io.Copy, in the goroutine of os/exec for s *)

\* n bytes are read and written to the buffer.  If the buffer reports fewer,
\* this is io.ErrShortWrite: the goroutine closes its end of the pipe and ends.
CopyWhileRoom(s) ==
    \E n \in 1..InPipe(s) :
        /\ copier[s] = "copy" /\ ~full[s]
        /\ LET w == Write(s, [i \in 1..n |-> read[s] + i]) IN
           /\ buf' = [buf EXCEPT ![s] = w.buf]
           /\ full' = [full EXCEPT ![s] = w.full]
           /\ copier' = [copier EXCEPT ![s] = IF w.n = n THEN @ ELSE "short"]
        /\ read' = [read EXCEPT ![s] = @ + n]
        /\ UNCHANGED <<written, proc, exit>>

Copy(s) ==
    \E n \in 1..InPipe(s) :
        /\ copier[s] = "copy"
        /\ LET w == Write(s, [i \in 1..n |-> read[s] + i]) IN
           /\ buf' = [buf EXCEPT ![s] = w.buf]
           /\ full' = [full EXCEPT ![s] = w.full]
           /\ copier' = [copier EXCEPT ![s] = IF w.n = n THEN @ ELSE "short"]
        /\ read' = [read EXCEPT ![s] = @ + n]
        /\ UNCHANGED <<written, proc, exit>>

CopyEnds(s) ==
    /\ copier[s] = "copy" /\ proc # "running" /\ InPipe(s) = 0
    /\ copier' = [copier EXCEPT ![s] = "eof"]
    /\ UNCHANGED <<written, read, buf, full, proc, exit>>

-----------------------------------------------------------------------------
(* runExec, once cmd.Wait has returned *)

\* The exit code: that of an *exec.ExitError if the process failed, or else -1
\* for the error of a copying goroutine.
ExitCode ==
    CASE proc = "failed" -> 1
      [] proc = "killed" -> -1
      [] proc = "succeeded" ->
             IF \E s \in Streams : copier[s] = "short" THEN -1 ELSE 0

\* The contents of the buffers are sent, and the exit frame.
SendExitUncut ==
    /\ proc # "running" /\ \A s \in Streams : copier[s] = "eof"
    /\ ~exit.sent
    /\ exit' = [sent |-> TRUE, code |-> ExitCode,
                truncated |-> \E s \in Streams : full[s]]
    /\ UNCHANGED <<written, read, buf, full, copier, proc>>

SendExit ==
    /\ proc # "running" /\ \A s \in Streams : copier[s] # "copy"
    /\ ~exit.sent
    /\ exit' = [sent |-> TRUE, code |-> ExitCode,
                truncated |-> \E s \in Streams : full[s]]
    /\ UNCHANGED <<written, read, buf, full, copier, proc>>

-----------------------------------------------------------------------------

Endings == {"succeeded", "failed", "killed"}

Next ==
    \/ \E s \in Streams : ProcWrites(s) \/ ProcSigpipe(s) \/ Copy(s) \/ CopyEnds(s)
    \/ \E how \in Endings : ProcEnds(how)
    \/ SendExit

\* The goroutines run.  Nothing is assumed of the process.
Fairness ==
    /\ \A s \in Streams : WF_vars(Copy(s)) /\ WF_vars(CopyEnds(s))
    /\ WF_vars(SendExit)

Spec == Init /\ [][Next]_vars
FairSpec == Spec /\ Fairness

-----------------------------------------------------------------------------
(* Properties *)

\* Type correctness; buffer.go, "bound the memory the agent will spend on a
\* runaway command": no buffer exceeds its capacity.
TypeOK ==
    /\ written \in [Streams -> 0..MaxBytes]
    /\ read \in [Streams -> 0..MaxBytes]
    /\ buf \in [Streams -> Seq(Nat)]
    /\ \A s \in Streams : read[s] <= written[s] /\ Len(buf[s]) <= Cap
    /\ full \in [Streams -> BOOLEAN]
    /\ copier \in [Streams -> {"copy", "eof", "short"}]
    /\ proc \in {"running"} \cup Endings
    /\ exit \in [sent : BOOLEAN, code : {-1, 0, 1}, truncated : BOOLEAN]

\* However the output is cut into reads, the buffer holds its first bytes, all
\* of them up to the capacity, in order and without a gap.
KeptIsPrefix ==
    \A s \in Streams :
        buf[s] = [i \in 1..(IF read[s] < Cap THEN read[s] ELSE Cap) |-> i]

\* exec.go, Truncated: the exit frame says so exactly when the process wrote
\* something that is not in the output sent.
TruncatedIffLost ==
    exit.sent => (exit.truncated <=> \E s \in Streams : written[s] > Len(buf[s]))

\* buffer.go, "pretend success; data dropped": a process with more output than
\* is kept is not left blocked on its pipe, which is emptied or closed.
PipeDrained ==
    \A s \in Streams : (InPipe(s) = PipeCap) ~> (InPipe(s) < PipeCap \/ copier[s] = "short")

\* Once the process has ended its exit frame is sent, whatever became of its
\* output.
ExitSent == (proc # "running") ~> exit.sent

-----------------------------------------------------------------------------
(* Statements of the repository that the code does not meet *)

\* buffer.go:17, "pretend success; data dropped": output beyond the cap is
\* dropped and does not change how the command ends.  A command that succeeds
\* is reported with exit code 0.
SuccessIsReported == exit.sent /\ proc = "succeeded" => exit.code = 0

\* ... and is not killed for its output.
OutputKillsNoCommand ==
    [][proc = "running" /\ proc' = "killed" => \A s \in Streams : copier[s] # "short"]_vars
=============================================================================
