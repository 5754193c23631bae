----------------------------- MODULE AgentConn -----------------------------
(***************************************************************************)
(* One connection of the agent daemon to the relay (cmd/agent/exec.go and  *)
(* pty.go): one call of runOnce with its reader loop, its writer           *)
(* goroutine, a goroutine per command and a reader goroutine per shell.    *)
(* They share the bounded channel `out`, which runOnce closes on its way   *)
(* out.                                                                    *)
(***************************************************************************)
EXTENDS Naturals, FiniteSets

CONSTANTS
    Execs,          \* exec frames the relay sends on this connection
    ExecIDs,        \* their ExecID values
    IdOf,           \* IdOf[e]: the ExecID of e
    Ptys,           \* shells the agent spawns on this connection
    Sids,           \* sessions shells are started for
    NoExec,         \* no entry in cancels
    NoPty,          \* no entry in the PTY registry
    NoSid,          \* the session of a shell not spawned yet
    OutCap,         \* capacity of out (32 in the code)
    MaxParallelExec,\* 8 in the code
    MaxParallelPtys \* 8 in the code

ASSUME AgentConnAssumption ==
    /\ OutCap \in Nat \ {0}
    /\ MaxParallelExec \in Nat \ {0}
    /\ MaxParallelPtys \in Nat \ {0}
    /\ IdOf \in [Execs -> ExecIDs]
    /\ NoExec \notin Execs /\ NoPty \notin Ptys /\ NoSid \notin Sids

VARIABLES
    reader,     \* the reader loop of runOnce and its deferred calls
    replyTo,    \* the refused exec whose exit frame the reader is sending
    writer,     \* the writer goroutine
    ws,         \* the websocket
    out,        \* number of frames buffered in out
    sem,        \* tokens in the exec semaphore
    cancels,    \* ExecID -> exec whose cancel func is recorded
    cmd,        \* cmd[e]: one command
    hand,       \* shells the reader has spawned or taken out of the registry,
                \* and has still to register or to close
    input,      \* the shell whose terminal the reader is writing to
    ptys,       \* ptyRegistry.sessions
    pty,        \* pty[p]: one shell under a PTY
    crashed     \* a goroutine panicked: the daemon is gone

connVars == <<reader, replyTo, writer, ws>>
execVars == <<sem, cancels, cmd>>
ptyVars == <<hand, input, ptys, pty>>
vars == <<reader, replyTo, writer, ws, out, sem, cancels, cmd, hand, input, ptys,
          pty, crashed>>

CmdStates ==
    [pc : {"new", "start", "ack", "wait", "stdout", "stderr", "exit", "unwind",
           "done", "refused"},
     over : BOOLEAN,                    \* its context is cancelled or timed out
     proc : {"none", "alive", "dead"},
     held : BOOLEAN,                    \* a descendant holds its output pipe open
     exits : 0..1]                      \* exit frames queued for it

PtyStates ==
    [sid : Sids \cup {NoSid},
     pc : {"off", "read", "data", "exit", "cleanup", "close", "done"},
     over : BOOLEAN,                    \* its context is cancelled
     hand : Ptys \cup {NoPty},          \* the shell its goroutine is closing
     shell : {"none",                   \* not spawned
              "alive",                  \* it, or what it left, has the terminal open
              "exited",
              "hungup",                 \* its terminal is closed, it was sent SIGHUP
              "closed"}]                \* dead or killed, ptySession.close is over

\* A command whose goroutine is running.
Working(e) == cmd[e].pc \notin {"new", "refused", "done"}

OutClosed == reader \in {"closeConn", "returned"}
Registered == {s \in Sids : ptys[s] # NoPty}

\* The shells that run, those the goroutines of shells are closing.
Running == {p \in Ptys : pty[p].shell \in {"alive", "hungup"}}
BeingClosed == {p \in Ptys : \E q \in Ptys : pty[q].hand = p}

Init ==
    /\ reader = "read" /\ replyTo = NoExec /\ writer = "run" /\ ws = "open"
    /\ out = 0 /\ sem = 0
    /\ cancels = [i \in ExecIDs |-> NoExec]
    /\ cmd = [e \in Execs |-> [pc |-> "new", over |-> FALSE, proc |-> "none",
                               held |-> FALSE, exits |-> 0]]
    /\ hand = {} /\ input = NoPty
    /\ ptys = [s \in Sids |-> NoPty]
    /\ pty = [p \in Ptys |-> [sid |-> NoSid, pc |-> "off", over |-> FALSE,
                              hand |-> NoPty, shell |-> "none"]]
    /\ crashed = FALSE

\* Sending on out: blocks while it is full.  (Once closed, it panics.)
Push == ~OutClosed /\ out < OutCap /\ out' = out + 1

-----------------------------------------------------------------------------
(* The reader loop *)

Reading == reader = "read" /\ ws = "open"

\* A ping, or a pty.start that fails: the reader answers itself, and blocks on
\* out until there is room.
ReaderReplies ==
    /\ Reading
    /\ reader' = "send"
    /\ UNCHANGED <<replyTo, writer, ws, out, execVars, ptyVars, crashed>>

\* The answer is queued; a command refused with it has its context cancelled.
ReaderSends ==
    /\ reader = "send" /\ Push
    /\ reader' = "read" /\ replyTo' = NoExec
    /\ cmd' = [e \in Execs |->
                  IF e = replyTo THEN [cmd[e] EXCEPT !.exits = @ + 1, !.over = TRUE]
                  ELSE cmd[e]]
    /\ UNCHANGED <<writer, ws, sem, cancels, ptyVars, crashed>>

\* An exec frame: its cancel func is recorded, then the semaphore is tried.
TakeExec(e, next) ==
    /\ Reading /\ cmd[e].pc = "new"
    /\ cancels' = [cancels EXCEPT ![IdOf[e]] = e]
    /\ cmd' = [cmd EXCEPT ![e].pc = next]
    /\ UNCHANGED <<writer, ws, out, ptyVars, crashed>>

\* There is a token: the command's goroutine starts.
ReaderExec(e) ==
    /\ sem < MaxParallelExec /\ sem' = sem + 1
    /\ TakeExec(e, "start")
    /\ UNCHANGED <<reader, replyTo>>

ReaderExecBusySilent(e) ==
    sem = MaxParallelExec /\ TakeExec(e, "refused") /\ UNCHANGED <<reader, replyTo, sem>>

\* At capacity: the reader answers with a "busy" exit frame.  The entry in
\* cancels stays.
ReaderExecBusy(e) ==
    /\ sem = MaxParallelExec
    /\ TakeExec(e, "refused")
    /\ reader' = "send" /\ replyTo' = e
    /\ UNCHANGED sem

\* A cancel with an ExecID calls the recorded cancel func.
ReaderCancel(i) ==
    /\ Reading /\ cancels[i] # NoExec
    /\ cmd' = [cmd EXCEPT ![cancels[i]].over = TRUE]
    /\ UNCHANGED <<connVars, out, sem, cancels, ptyVars, crashed>>

\* ptySession.close of the shell p, in two steps: its context is cancelled, its
\* terminal closed and its process hung up ...
HangUp(p) ==
    /\ pty[p].shell \in {"alive", "exited"}
    /\ pty' = [pty EXCEPT ![p].over = TRUE,
                          ![p].shell = IF @ = "alive" THEN "hungup" ELSE "closed"]

\* ... and within 200 ms the process has exited, or is killed.
HungUp(p) == pty[p].shell \in {"hungup", "closed"}

\* ptyRegistry.delete of the session: its shell, if any, is out of the registry
\* and in the reader's hand, still to be closed.
RemovePty(s) ==
    /\ ptys' = [ptys EXCEPT ![s] = NoPty]
    /\ hand' = {ptys[s]} \ {NoPty}
    /\ reader' = IF ptys[s] = NoPty THEN "read" ELSE "remove"
    /\ input' = NoPty
    /\ UNCHANGED <<replyTo, writer, ws, out, execVars, pty, crashed>>

\* A cancel without an ExecID.
ReaderCancelPty(s) == Reading /\ s \in Registered /\ RemovePty(s)

\* pty.data for a session that has a shell: the reader writes to its terminal.
ReaderPtyData(s) ==
    /\ Reading /\ s \in Registered
    /\ reader' = "write" /\ input' = ptys[s]
    /\ UNCHANGED <<replyTo, writer, ws, out, execVars, hand, ptys, pty, crashed>>

\* The terminal takes the bytes; it does not while the shell reads none.
ReaderInputTaken ==
    /\ reader = "write" /\ pty[input].shell = "alive"
    /\ reader' = "read" /\ input' = NoPty
    /\ UNCHANGED <<replyTo, writer, ws, out, execVars, hand, ptys, pty, crashed>>

\* The shell has exited, or was closed: the write fails.
ReaderInputFails ==
    /\ reader = "write" /\ pty[input].shell # "alive"
    /\ RemovePty(pty[input].sid)

\* pty.start: a shell is spawned ...
ReaderPtyStart(p, s) ==
    /\ Reading /\ pty[p].shell = "none"
    /\ reader' = "put" /\ hand' = {p}
    /\ pty' = [pty EXCEPT ![p].sid = s, ![p].shell = "alive"]
    /\ UNCHANGED <<replyTo, writer, ws, out, execVars, input, ptys, crashed>>

CanPut(s) == s \notin Registered /\ Cardinality(Registered) < MaxParallelPtys

\* ... then registered, and its reader goroutine starts ...
ReaderPuts(p) ==
    /\ reader = "put" /\ p \in hand /\ CanPut(pty[p].sid)
    /\ ptys' = [ptys EXCEPT ![pty[p].sid] = p]
    /\ pty' = [pty EXCEPT ![p].pc = "read"]
    /\ reader' = "read" /\ hand' = {}
    /\ UNCHANGED <<replyTo, writer, ws, out, execVars, input, crashed>>

\* ... or the session has a shell, or there are too many: the shell just spawned
\* is closed again and the reader answers with an error.
ReaderPutRefused(p) ==
    /\ reader = "put" /\ p \in hand /\ ~CanPut(pty[p].sid)
    /\ reader' = "refuse"
    /\ UNCHANGED <<replyTo, writer, ws, out, execVars, ptyVars, crashed>>

\* The reader closes what is in its hand, one shell at a time ...
ReaderHangsUp(p) ==
    /\ reader \in {"refuse", "remove", "closing"} /\ p \in hand
    /\ \A q \in hand : ~HungUp(q)
    /\ HangUp(p)
    /\ UNCHANGED <<connVars, out, execVars, hand, input, ptys, crashed>>

\* ... and goes on: with an answer, with the loop, or with the next deferred
\* call.
ReaderClosed(p) ==
    /\ reader \in {"refuse", "remove", "closing"} /\ p \in hand /\ HungUp(p)
    /\ pty' = [pty EXCEPT ![p].shell = "closed"]
    /\ hand' = hand \ {p}
    /\ reader' = IF hand' # {} THEN reader
                 ELSE [refuse |-> "send", remove |-> "read",
                       closing |-> "closeOut"][reader]
    /\ UNCHANGED <<replyTo, writer, ws, out, execVars, input, ptys, crashed>>

\* The loop ends: the read fails, or the writer has reported an error ...
ReaderLeaves ==
    /\ reader = "read" /\ (ws = "closed" \/ writer = "done")
    /\ reader' = "closePtys"
    /\ UNCHANGED <<replyTo, writer, ws, out, execVars, ptyVars, crashed>>

\* ... or a frame does not parse.
ReaderBadFrame ==
    /\ Reading
    /\ reader' = "closePtys"
    /\ UNCHANGED <<replyTo, writer, ws, out, execVars, ptyVars, crashed>>

\* Deferred: ptys.closeAll empties the registry; what was there is closed by
\* ReaderHangsUp and ReaderClosed ...
CloseNoPtys ==
    /\ reader = "closePtys" /\ reader' = "closeOut"
    /\ ptys' = [s \in Sids |-> NoPty]
    /\ UNCHANGED <<replyTo, writer, ws, out, execVars, hand, input, pty, crashed>>

CloseAllPtys ==
    /\ reader = "closePtys"
    /\ reader' = IF Registered = {} THEN "closeOut" ELSE "closing"
    /\ ptys' = [s \in Sids |-> NoPty]
    /\ hand' = {ptys[s] : s \in Registered}
    /\ UNCHANGED <<replyTo, writer, ws, out, execVars, input, pty, crashed>>

\* ... close(out) ...
CloseOutAfterExecs ==
    /\ reader = "closeOut" /\ reader' = "closeConn"
    /\ \A e \in Execs : ~Working(e)
    /\ UNCHANGED <<replyTo, writer, ws, out, execVars, ptyVars, crashed>>

CloseOut ==
    /\ reader = "closeOut" /\ reader' = "closeConn"
    /\ UNCHANGED <<replyTo, writer, ws, out, execVars, ptyVars, crashed>>

\* ... c.Close and the cancellation of the context, and runOnce returns.
ReturnFromRunOnce ==
    /\ reader = "closeConn" /\ reader' = "returned"
    /\ ws' = "closed"
    /\ cmd' = [e \in Execs |-> [cmd[e] EXCEPT !.over = TRUE]]
    /\ pty' = [p \in Ptys |-> [pty[p] EXCEPT !.over = TRUE]]
    /\ UNCHANGED <<replyTo, writer, out, sem, cancels, hand, input, ptys, crashed>>

-----------------------------------------------------------------------------
(* The writer goroutine and the socket *)

WriterSends ==
    /\ writer = "run" /\ ws = "open" /\ out > 0
    /\ out' = out - 1
    /\ UNCHANGED <<connVars, execVars, ptyVars, crashed>>

\* Writing a frame or a ping fails or exceeds ten seconds, which closes the
\* socket.
WriterFails ==
    /\ writer = "run" /\ writer' = "done"
    /\ ws' = "closed"
    /\ out' \in {out, IF out > 0 THEN out - 1 ELSE 0}
    /\ UNCHANGED <<reader, replyTo, execVars, ptyVars, crashed>>

\* On a dead socket the next frame or ping fails.
WriterNotices == ws = "closed" /\ WriterFails

WriterStops ==
    /\ writer = "run" /\ writer' = "done"
    /\ reader = "returned" \/ (OutClosed /\ out = 0)
    /\ UNCHANGED <<reader, replyTo, ws, out, execVars, ptyVars, crashed>>

RelayGone ==
    /\ ws = "open" /\ ws' = "closed"
    /\ UNCHANGED <<reader, replyTo, writer, out, execVars, ptyVars, crashed>>

-----------------------------------------------------------------------------
(* runExec, in the goroutine of command e *)

\* The goroutine of e moves on; it alone writes these fields.
ExecMoves(e, from, to) ==
    /\ cmd[e].pc = from
    /\ cmd' = [cmd EXCEPT ![e] = to]
    /\ UNCHANGED <<connVars, sem, cancels, ptyVars, crashed>>

ExecStart(e) ==
    ExecMoves(e, "start", [cmd[e] EXCEPT !.pc = "ack", !.proc = "alive"]) /\ UNCHANGED out

\* The script cannot be prepared, there is no argv, or the start fails: only
\* an exit frame follows.
ExecStartFails(e) ==
    ExecMoves(e, "start", [cmd[e] EXCEPT !.pc = "exit"]) /\ UNCHANGED out

ExecAck(e) == ExecMoves(e, "ack", [cmd[e] EXCEPT !.pc = "wait"]) /\ Push

\* cmd.Wait returns when the process is dead and its output pipes are closed.
ExecWait(e) ==
    /\ cmd[e].proc = "dead" /\ ~cmd[e].held
    /\ ExecMoves(e, "wait", [cmd[e] EXCEPT !.pc = "stdout"]) /\ UNCHANGED out

\* A frame per output stream; an empty stream is skipped.
ExecStdout(e) ==
    ExecMoves(e, "stdout", [cmd[e] EXCEPT !.pc = "stderr"]) /\ (Push \/ UNCHANGED out)
ExecStderr(e) ==
    ExecMoves(e, "stderr", [cmd[e] EXCEPT !.pc = "exit"]) /\ (Push \/ UNCHANGED out)

ExecExit(e) ==
    ExecMoves(e, "exit", [cmd[e] EXCEPT !.pc = "unwind", !.exits = @ + 1]) /\ Push

\* Deferred: the context is cancelled, the semaphore token returned and the
\* entry of the ExecID in cancels deleted.
ExecUnwindKeepingToken(e) ==
    /\ cmd[e].pc = "unwind"
    /\ cmd' = [cmd EXCEPT ![e].pc = "done", ![e].over = TRUE]
    /\ cancels' = [cancels EXCEPT ![IdOf[e]] = NoExec]
    /\ UNCHANGED <<connVars, out, sem, ptyVars, crashed>>

ExecUnwind(e) ==
    /\ cmd[e].pc = "unwind"
    /\ cmd' = [cmd EXCEPT ![e].pc = "done", ![e].over = TRUE]
    /\ sem' = sem - 1
    /\ cancels' = [cancels EXCEPT ![IdOf[e]] = NoExec]
    /\ UNCHANGED <<connVars, out, ptyVars, crashed>>

\* A send on the closed channel panics and takes the daemon down.
ExecPanics(e) ==
    /\ OutClosed /\ cmd[e].pc \in {"ack", "stdout", "stderr", "exit"}
    /\ crashed' = TRUE
    /\ UNCHANGED <<connVars, out, execVars, ptyVars>>

\* The process exits by itself, or is killed once its context is over; it may
\* leave a descendant that keeps its output pipe open.
ProcExits(e) ==
    /\ cmd[e].proc = "alive"
    /\ \E held \in BOOLEAN :
           cmd' = [cmd EXCEPT ![e].proc = "dead", ![e].held = held]
    /\ UNCHANGED <<connVars, out, sem, cancels, ptyVars, crashed>>

ProcKilled(e) == cmd[e].over /\ ProcExits(e)

PipeReleased(e) ==
    /\ cmd[e].held /\ cmd' = [cmd EXCEPT ![e].held = FALSE]
    /\ UNCHANGED <<connVars, out, sem, cancels, ptyVars, crashed>>

\* The timeout of the exec frame fires.
ExecTimeout(e) ==
    /\ Working(e) /\ ~cmd[e].over
    /\ cmd' = [cmd EXCEPT ![e].over = TRUE]
    /\ UNCHANGED <<connVars, out, sem, cancels, ptyVars, crashed>>

-----------------------------------------------------------------------------
(* The reader goroutine of shell p *)

PtyMoves(p, to) ==
    /\ pty' = [pty EXCEPT ![p].pc = to]
    /\ UNCHANGED <<connVars, execVars, hand, input, ptys, crashed>>

ShellExits(p) ==
    /\ pty[p].shell \in {"alive", "hungup"}
    /\ pty' = [pty EXCEPT ![p].shell = IF @ = "alive" THEN "exited" ELSE "closed"]
    /\ UNCHANGED <<connVars, out, execVars, hand, input, ptys, crashed>>

PtyReads(p) ==
    /\ pty[p].pc = "read" /\ pty[p].shell \in {"alive", "exited"}
    /\ PtyMoves(p, "data") /\ UNCHANGED out

\* The read fails, as the shell exited or its terminal was closed, and Wait
\* returns.
PtyReadsEnd(p) ==
    /\ pty[p].pc = "read" /\ pty[p].shell \in {"exited", "closed"}
    /\ PtyMoves(p, "exit") /\ UNCHANGED out

\* The pty.data or pty.exit frame is queued ...
PtySends(p) ==
    /\ pty[p].pc \in {"data", "exit"} /\ Push
    /\ PtyMoves(p, IF pty[p].pc = "data" THEN "read" ELSE "cleanup")

\* ... or the shell's context is over ...
PtyGivesUp(p) ==
    /\ pty[p].pc \in {"data", "exit"} /\ pty[p].over
    /\ PtyMoves(p, "cleanup") /\ UNCHANGED out

\* ... or the select tries the closed channel, and panics.
PtyPanics(p) ==
    /\ OutClosed /\ pty[p].pc \in {"data", "exit"}
    /\ crashed' = TRUE
    /\ UNCHANGED <<connVars, out, execVars, ptyVars>>

\* Deferred: whatever shell the session maps to is taken out of the registry ...
PtyCleanupForgets(p) ==
    /\ pty[p].pc = "cleanup"
    /\ ptys' = [ptys EXCEPT ![pty[p].sid] = NoPty]
    /\ pty' = [pty EXCEPT ![p].pc = "done"]
    /\ UNCHANGED <<connVars, out, execVars, hand, input, crashed>>

PtyCleanup(p) ==
    LET q == ptys[pty[p].sid] IN
    /\ pty[p].pc = "cleanup"
    /\ ptys' = [ptys EXCEPT ![pty[p].sid] = NoPty]
    /\ pty' = [pty EXCEPT ![p].pc = IF q = NoPty THEN "done" ELSE "close",
                          ![p].hand = q]
    /\ UNCHANGED <<connVars, out, execVars, hand, input, crashed>>

\* ... and then closed.
PtyHangsUp(p) ==
    /\ pty[p].pc = "close" /\ HangUp(pty[p].hand)
    /\ UNCHANGED <<connVars, out, execVars, hand, input, ptys, crashed>>

PtyClosed(p) ==
    /\ pty[p].pc = "close" /\ HungUp(pty[p].hand)
    /\ pty' = [pty EXCEPT ![pty[p].hand].shell = "closed",
                          ![p].pc = "done", ![p].hand = NoPty]
    /\ UNCHANGED <<connVars, out, execVars, hand, input, ptys, crashed>>

-----------------------------------------------------------------------------

\* The reader at work on a shell: nothing but the shell it writes to delays it.
ReaderServes ==
    \/ ReaderInputFails
    \/ \E p \in Ptys : \/ ReaderPuts(p) \/ ReaderPutRefused(p)
                       \/ ReaderHangsUp(p) \/ ReaderClosed(p)

ReaderStep ==
    \/ ReaderReplies \/ ReaderSends \/ ReaderLeaves \/ ReaderBadFrame
    \/ \E e \in Execs : ReaderExec(e) \/ ReaderExecBusy(e)
    \/ \E i \in ExecIDs : ReaderCancel(i)
    \/ \E s \in Sids : ReaderCancelPty(s) \/ ReaderPtyData(s)
    \/ \E p \in Ptys, s \in Sids : ReaderPtyStart(p, s)
    \/ ReaderInputTaken \/ ReaderServes
    \/ CloseAllPtys \/ CloseOut \/ ReturnFromRunOnce

WriterStep == WriterSends \/ WriterFails \/ WriterStops \/ RelayGone

ExecStep(e) ==
    \/ ExecStart(e) \/ ExecStartFails(e) \/ ExecAck(e) \/ ExecWait(e)
    \/ ExecStdout(e) \/ ExecStderr(e) \/ ExecExit(e) \/ ExecUnwind(e)
    \/ ExecPanics(e) \/ ProcExits(e) \/ PipeReleased(e) \/ ExecTimeout(e)

PtyStep(p) ==
    \/ ShellExits(p) \/ PtyReads(p) \/ PtyReadsEnd(p) \/ PtySends(p)
    \/ PtyGivesUp(p) \/ PtyPanics(p)
    \/ PtyCleanup(p) \/ PtyHangsUp(p) \/ PtyClosed(p)

Next ==
    /\ ~crashed
    /\ \/ ReaderStep
       \/ WriterStep
       \/ \E e \in Execs : ExecStep(e)
       \/ \E p \in Ptys : PtyStep(p)

\* Goroutines that can run do, a write ends within ten seconds, a timeout fires
\* and kills its process.  The runtime serves the blocked senders of a channel
\* in order, hence strong fairness for sends.  Nothing is assumed of the
\* descendants of a process, of shells (which need not read their terminals) or
\* of the relay.
ConnFairness ==
    /\ SF_vars(~crashed /\ ReaderSends)
    /\ WF_vars(~crashed /\ ReaderLeaves)
    /\ WF_vars(~crashed /\ ReaderServes)
    /\ WF_vars(~crashed /\ (CloseAllPtys \/ CloseOut \/ ReturnFromRunOnce))
    /\ WF_vars(~crashed /\ WriterSends)
    /\ WF_vars(~crashed /\ (WriterNotices \/ WriterStops))

ExecFairness ==
    \A e \in Execs :
        /\ WF_vars(~crashed /\ (ExecStart(e) \/ ExecStartFails(e)))
        /\ SF_vars(~crashed /\ ExecAck(e))
        /\ WF_vars(~crashed /\ ExecWait(e))
        /\ SF_vars(~crashed /\ (ExecStdout(e) \/ ExecStderr(e)))
        /\ SF_vars(~crashed /\ ExecExit(e))
        /\ WF_vars(~crashed /\ (ExecUnwind(e) \/ ExecPanics(e)))
        /\ WF_vars(~crashed /\ ExecTimeout(e))
        /\ WF_vars(~crashed /\ ProcKilled(e))

PtyFairness ==
    \A p \in Ptys :
        /\ WF_vars(~crashed /\ PtyReadsEnd(p))
        /\ SF_vars(~crashed /\ (PtySends(p) \/ PtyGivesUp(p)))
        /\ WF_vars(~crashed /\ (PtyCleanup(p) \/ PtyHangsUp(p) \/ PtyClosed(p)))

Spec == Init /\ [][Next]_vars
FairSpec == Spec /\ ConnFairness /\ ExecFairness /\ PtyFairness

-----------------------------------------------------------------------------
(* Properties *)

\* Type correctness, with out within its capacity, the semaphore within its
\* own, and no command answered twice.
TypeOK ==
    /\ reader \in {"read", "send", "put", "refuse", "remove", "write", "closePtys",
                   "closing", "closeOut", "closeConn", "returned"}
    /\ replyTo \in Execs \cup {NoExec}
    /\ writer \in {"run", "done"} /\ ws \in {"open", "closed"}
    /\ out \in 0..OutCap
    /\ sem \in 0..MaxParallelExec
    /\ cancels \in [ExecIDs -> Execs \cup {NoExec}]
    /\ cmd \in [Execs -> CmdStates]
    /\ hand \in SUBSET Ptys /\ input \in Ptys \cup {NoPty}
    /\ ptys \in [Sids -> Ptys \cup {NoPty}]
    /\ pty \in [Ptys -> PtyStates]
    /\ crashed \in BOOLEAN

\* exec.go, "bound resource usage on the device": at most maxParallelExec
\* processes run for one connection, and the semaphore counts exactly the
\* commands under way, so none of its tokens is lost or returned twice.
ExecsBounded ==
    /\ sem = Cardinality({e \in Execs : Working(e)})
    /\ Cardinality({e \in Execs : cmd[e].proc = "alive"}) <= MaxParallelExec

\* pty.go, ptyRegistry: a shell that has not been closed is registered under its
\* session, where a cancel or closeAll finds it, or else in the hand of the
\* reader or of a goroutine that is about to close it: none is ever leaked in
\* the window between delete and close.
NoLeakedShell ==
    \A p \in Ptys :
        \/ pty[p].shell \in {"none", "closed"}
        \/ pty[p].shell # "hungup" /\ pty[p].sid \in Sids /\ ptys[pty[p].sid] = p
        \/ p \in hand \cup BeingClosed

\* pty.go, "The registry lifetime is tied to one runOnce call": past closeAll a
\* shell runs only while the goroutine that took it out of the registry before
\* is closing it.  And "Cap on how many concurrent PTY shells one agent may
\* host": of the shells that nobody is closing no more run than the cap, and one
\* more with those in the reader's hand, as startPty spawns a shell before put
\* can refuse it.
ShellsDieWithConnection ==
    /\ reader \in {"closeOut", "closeConn", "returned"} => Running \subseteq BeingClosed
    /\ Cardinality(Running \ (hand \cup BeingClosed)) <= MaxParallelPtys
    /\ Cardinality(Running \ BeingClosed) <= MaxParallelPtys + 1

\* A command taken from the relay is answered by an exit frame while the
\* writer goes on and no stray descendant keeps the output pipe open.
ExecAnswered ==
    \A e \in Execs : (cmd[e].pc # "new") ~>
        (cmd[e].exits = 1 \/ writer = "done" \/ cmd[e].held \/ OutClosed)

\* main.go, "Reconnect loop": once the connection is over runOnce returns, so
\* that the daemon can connect again, unless its reader is caught sending an
\* answer to a queue that is full and has lost its writer, or writing to the
\* terminal of a shell that does not read it.  No command, no descendant of one
\* and no other shell keeps it.
OnlyBlockedReaderKeepsRunOnce ==
    (ws = "closed" \/ writer = "done") ~>
        \/ reader = "returned" \/ crashed
        \/ reader = "send" /\ writer = "done" /\ out = OutCap
        \/ reader = "write" /\ pty[input].shell = "alive"

-----------------------------------------------------------------------------
(* Statements of the repository that the code does not meet *)

\* main.go, "Reconnect loop": once the connection is over, runOnce returns so
\* that the daemon can connect again.
RunOnceReturns ==
    (ws = "closed" \/ writer = "done") ~> (reader = "returned" \/ crashed)

\* exec.go, runOnce "pump[s] frames until the connection drops. Returns the
\* disconnect cause": a dropped connection must not take the daemon down.
DaemonSurvivesDisconnect == ~crashed

\* pty.go, startPty: "the shell runs in background goroutines until the parent
\* context is cancelled, the shell exits, or the session is explicitly
\* closed": the goroutine of a shell closes no other shell.
ShellOutlivesOthers == \A p \in Ptys : pty[p].hand \in {NoPty, p}

\* exec.go, cancels: "Tracks running execs so we can cancel them".
CancelsTrackRunning ==
    \A i \in ExecIDs : cancels[i] # NoExec => Working(cancels[i])

\* exec.go, runExec "runs the requested command with timeout": the timeout
\* ends the command.
TimeoutEndsExec ==
    \A e \in Execs : (cmd[e].pc = "wait" /\ cmd[e].over)
                         ~> (cmd[e].pc # "wait" \/ crashed)
=============================================================================
