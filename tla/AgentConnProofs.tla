-------------------------- MODULE AgentConnProofs --------------------------
(***************************************************************************)
(* Theorems about AgentConn, for any number of commands, shells and        *)
(* sessions on a connection, and any capacities.                           *)
(***************************************************************************)
EXTENDS AgentConn, FiniteSetTheorems, TLAPS

Readers == {"read", "send", "put", "refuse", "remove", "write", "closePtys", "closing",
            "closeOut", "closeConn", "returned"}
Ending == {"closeOut", "closeConn", "returned"}

\* The commands whose goroutines are running.
Underway == {e \in Execs : Working(e)}

\* The state m of a command: its process runs only between its start and its
\* Wait, and it is answered by its goroutine's last send, or refused.
Conducted(m) ==
    /\ m.proc = "alive" => m.pc \in {"ack", "wait"}
    /\ m.exits = 1 => m.pc \in {"unwind", "done", "refused"}

\* The reader owes an exit frame only to a command it has refused, and only
\* until it is sent.
Answering ==
    replyTo # NoExec => /\ reader = "send"
                        /\ cmd[replyTo].pc = "refused" /\ cmd[replyTo].exits = 0

\* The shell p is out of the registry, in the hand of whoever will close it.
Held(p) == p \in hand \cup BeingClosed

\* The shell p: it has a session once it is spawned, and until it is closed it is
\* registered under it or held; only a goroutine at its close holds a shell.
Known(p) ==
    /\ pty[p].shell \in {"alive", "exited"} => ptys[pty[p].sid] = p \/ Held(p)
    /\ pty[p].shell = "hungup" => Held(p)
    /\ pty[p].shell # "none" => pty[p].sid \in Sids
    /\ pty[p].shell = "none" =>
           /\ pty[p].pc = "off" /\ ~Held(p) /\ p # input
           /\ \A s \in Sids : ptys[s] # p
    /\ pty[p].pc = "close" <=> pty[p].hand # NoPty

\* A shell just spawned is known to the reader alone.
Fresh(p) ==
    /\ pty[p].pc = "off" /\ pty[p].shell \in {"alive", "exited"}
    /\ p \notin BeingClosed /\ \A s \in Sids : ptys[s] # p

\* Where the reader is with the shells: one in its hand while it starts or
\* removes it, all that were registered in closeAll, none otherwise.
AtHand ==
    /\ reader \in {"put", "refuse", "remove"} => \E p \in Ptys : hand = {p}
    /\ reader = "put" => \A p \in hand : Fresh(p)
    /\ reader = "closing" => IsFiniteSet(hand) /\ Cardinality(hand) <= MaxParallelPtys
    /\ reader \notin {"put", "refuse", "remove", "closing"} => hand = {}
    /\ reader = "write" => input \in Ptys
    /\ reader \in {"closing"} \cup Ending => Registered = {}

ConnOK ==
    /\ reader \in Readers /\ writer \in {"run", "done"} /\ ws \in {"open", "closed"}
    /\ out \in 0..OutCap /\ crashed \in BOOLEAN

ExecsOK ==
    /\ replyTo \in Execs \cup {NoExec}
    /\ sem \in 0..MaxParallelExec
    /\ cancels \in [ExecIDs -> Execs \cup {NoExec}]
    /\ cmd \in [Execs -> CmdStates]
    /\ \A e \in Execs : Conducted(cmd[e])
    /\ Answering
    /\ IsFiniteSet(Underway) /\ sem = Cardinality(Underway)

PtysOK ==
    /\ hand \in SUBSET Ptys /\ input \in Ptys \cup {NoPty}
    /\ ptys \in [Sids -> Ptys \cup {NoPty}]
    /\ pty \in [Ptys -> PtyStates]
    /\ \A p \in Ptys : Known(p)
    /\ IsFiniteSet(Registered) /\ Cardinality(Registered) <= MaxParallelPtys
    /\ AtHand

\* The inductive invariant.
IInv == ConnOK /\ ExecsOK /\ PtysOK

-----------------------------------------------------------------------------

LEMMA InitIInv == Init => IInv
<1> SUFFICES ASSUME Init PROVE IInv
  OBVIOUS
<1> USE AgentConnAssumption DEF Init
<1>1. ConnOK
  <2>1. out \in 0..OutCap
    OBVIOUS
  <2>2. /\ crashed \in BOOLEAN /\ reader \in Readers /\ writer \in {"run", "done"}
        /\ ws \in {"open", "closed"}
    BY DEF Readers
  <2> QED
    BY <2>1, <2>2 DEF ConnOK
<1>2. ExecsOK
  <2>1. Underway = {}
    BY DEF Underway, Working
  <2>2. IsFiniteSet(Underway) /\ Cardinality(Underway) = 0
    BY <2>1, FS_EmptySet
  <2>3. cmd \in [Execs -> CmdStates] /\ \A e \in Execs : Conducted(cmd[e])
    BY DEF CmdStates, Conducted
  <2>4. sem \in 0..MaxParallelExec /\ cancels \in [ExecIDs -> Execs \cup {NoExec}]
    OBVIOUS
  <2> QED
    BY <2>2, <2>3, <2>4 DEF ExecsOK, Answering
<1>3. PtysOK
  <2>1. Registered = {}
    BY DEF Registered
  <2>2. IsFiniteSet(Registered) /\ Cardinality(Registered) = 0
    BY <2>1, FS_EmptySet
  <2>3. Cardinality(Registered) <= MaxParallelPtys
    BY <2>2
  <2>4. pty \in [Ptys -> PtyStates] /\ \A q \in Ptys : Known(q)
    BY DEF PtyStates, Known, Held, BeingClosed
  <2> QED
    BY <2>2, <2>3, <2>4 DEF PtysOK, AtHand, Ending
<1> QED
  BY <1>1, <1>2, <1>3 DEF IInv

-----------------------------------------------------------------------------
(* The connection *)

\* A send keeps the queue within its capacity.
LEMMA PushFacts ==
    ASSUME ConnOK, Push
    PROVE  out' \in 0..OutCap
BY AgentConnAssumption DEF ConnOK, Push

\* What the goroutines of a command and of a shell can do to the connection.
LEMMA ConnQuiet ==
    ASSUME ConnOK, UNCHANGED connVars, Push \/ UNCHANGED out, crashed' \in BOOLEAN
    PROVE  ConnOK'
<1>1. out' \in 0..OutCap
  BY PushFacts DEF ConnOK
<1> QED
  BY <1>1 DEF ConnOK, connVars

\* A step that does not touch the commands; the reader moves on only when it
\* owes no answer.
LEMMA ExecsQuiet ==
    ASSUME ExecsOK, UNCHANGED <<replyTo, execVars>>, reader' = reader \/ reader # "send"
    PROVE  ExecsOK'
<1>1. UNCHANGED <<replyTo, sem, cancels, cmd>>
  BY DEF execVars
<1>2. Underway' = Underway
  BY <1>1 DEF Underway, Working
<1>3. Answering'
  BY <1>1 DEF ExecsOK, Answering
<1> QED
  BY <1>1, <1>2, <1>3 DEF ExecsOK

\* A step that does not touch the shells: the reader stays where it is, or goes
\* on with no shell in its hand.
LEMMA PtysQuiet ==
    ASSUME PtysOK, UNCHANGED ptyVars,
           \/ reader' = reader
           \/ /\ reader' \in {"read", "send", "closePtys"}
              /\ reader \in {"read", "send"}
           \/ reader' \in Ending /\ reader \in Ending
    PROVE  PtysOK'
<1>1. UNCHANGED <<hand, input, ptys, pty>>
  BY DEF ptyVars
<1>2. Registered' = Registered /\ BeingClosed' = BeingClosed
  BY <1>1 DEF Registered, BeingClosed
<1>3. \A p \in Ptys : Known(p)'
  BY <1>1, <1>2 DEF PtysOK, Known, Held
<1>4. AtHand'
  BY <1>1, <1>2 DEF PtysOK, AtHand, Fresh, Ending
<1> QED
  BY <1>1, <1>2, <1>3, <1>4 DEF PtysOK

-----------------------------------------------------------------------------
(* Commands *)

\* The state of command e becomes m.
LEMMA OwnStep ==
    ASSUME ExecsOK, NEW e \in Execs, NEW m \in CmdStates, Conducted(m),
           cmd' = [cmd EXCEPT ![e] = m]
    PROVE  /\ cmd' \in [Execs -> CmdStates] /\ cmd'[e] = m
           /\ \A x \in Execs : x # e => cmd'[x] = cmd[x]
           /\ \A x \in Execs : Conducted(cmd'[x])
BY DEF ExecsOK

\* With the state m, command e is under way as before, and as much owed an
\* answer.
Continues(e, m) ==
    /\ m \in CmdStates /\ Conducted(m)
    /\ m.pc \notin {"new", "refused", "done"} <=> Working(e)
    /\ cmd[e].pc = "refused" => m.pc = "refused" /\ m.exits = cmd[e].exits

LEMMA CommandStep ==
    ASSUME ExecsOK, NEW e \in Execs, NEW m, Continues(e, m),
           cmd' = [cmd EXCEPT ![e] = m], UNCHANGED <<reader, replyTo, sem, cancels>>
    PROVE  ExecsOK'
<1>1. m \in CmdStates /\ Conducted(m)
  BY DEF Continues
<1>2. /\ cmd' \in [Execs -> CmdStates] /\ cmd'[e] = m
      /\ \A x \in Execs : x # e => cmd'[x] = cmd[x]
      /\ \A x \in Execs : Conducted(cmd'[x])
  BY <1>1, OwnStep
<1>3. Underway' = Underway
  BY <1>2 DEF Underway, Working, Continues
<1>4. Answering'
  <2> SUFFICES ASSUME replyTo # NoExec
               PROVE  /\ reader = "send" /\ cmd'[replyTo].pc = "refused"
                      /\ cmd'[replyTo].exits = 0
    BY DEF Answering
  <2>1. /\ reader = "send" /\ cmd[replyTo].pc = "refused" /\ cmd[replyTo].exits = 0
        /\ replyTo \in Execs
    BY DEF ExecsOK, Answering
  <2> QED
    BY <1>2, <2>1 DEF Continues
<1> QED
  BY <1>2, <1>3, <1>4 DEF ExecsOK

\* What the invariant says of one command.
LEMMA CommandFacts ==
    ASSUME ExecsOK, NEW e \in Execs
    PROVE  /\ cmd[e] \in CmdStates /\ Conducted(cmd[e])
           /\ cmd[e].exits \in 0..1
           /\ cmd[e].exits # 0 => cmd[e].pc \in {"unwind", "done", "refused"}
BY DEF ExecsOK, CmdStates, Conducted

\* The goroutine of e goes on to the next of its sends and waits ...
LEMMA GoesOn ==
    ASSUME ExecsOK, NEW e \in Execs, Working(e), cmd[e].pc # "unwind",
           NEW next \in {"wait", "stdout", "stderr", "exit"},
           cmd[e].proc = "alive" => next = "wait"
    PROVE  Continues(e, [cmd[e] EXCEPT !.pc = next])
<1> DEFINE m == [cmd[e] EXCEPT !.pc = next]
<1>1. /\ cmd[e] \in CmdStates /\ cmd[e].exits = 0 /\ cmd[e].pc # "refused"
  BY CommandFacts DEF Working
<1>2. m \in CmdStates
  BY <1>1 DEF CmdStates
<1>3. m.pc = next /\ m.proc = cmd[e].proc /\ m.exits = cmd[e].exits
  BY <1>1 DEF CmdStates
<1> HIDE DEF m
<1>4. Continues(e, m)
  BY <1>1, <1>2, <1>3 DEF Continues, Conducted, Working
<1> QED
  BY <1>4 DEF m

\* ... or starts the process ...
LEMMA Starts ==
    ASSUME ExecsOK, NEW e \in Execs, cmd[e].pc = "start"
    PROVE  Continues(e, [cmd[e] EXCEPT !.pc = "ack", !.proc = "alive"])
<1> DEFINE m == [cmd[e] EXCEPT !.pc = "ack", !.proc = "alive"]
<1>1. cmd[e] \in CmdStates /\ cmd[e].exits = 0
  BY CommandFacts
<1>2. m \in CmdStates
  BY <1>1 DEF CmdStates
<1>3. m.pc = "ack" /\ m.proc = "alive" /\ m.exits = cmd[e].exits
  BY <1>1 DEF CmdStates
<1> HIDE DEF m
<1>4. Continues(e, m)
  BY <1>1, <1>2, <1>3 DEF Continues, Conducted, Working
<1> QED
  BY <1>4 DEF m

\* ... or queues the exit frame.
LEMMA QueuesExit ==
    ASSUME ExecsOK, NEW e \in Execs, cmd[e].pc = "exit"
    PROVE  Continues(e, [cmd[e] EXCEPT !.pc = "unwind", !.exits = @ + 1])
<1> DEFINE n == cmd[e].exits + 1
           m == [cmd[e] EXCEPT !.pc = "unwind", !.exits = n]
<1>1. cmd[e] \in CmdStates /\ cmd[e].exits = 0 /\ Conducted(cmd[e])
  BY CommandFacts
<1>2. n \in 0..1
  BY <1>1
<1> HIDE DEF n
<1>3. m \in CmdStates
  BY <1>1, <1>2 DEF CmdStates
<1>4. m.pc = "unwind" /\ m.proc = cmd[e].proc
  BY <1>1 DEF CmdStates
<1>5. m = [cmd[e] EXCEPT !.pc = "unwind", !.exits = @ + 1]
  BY <1>1 DEF CmdStates, n
<1> HIDE DEF m
<1>6. m.proc # "alive"
  BY <1>1, <1>4 DEF Conducted
<1>7. Continues(e, m)
  BY <1>3, <1>4, <1>6 DEF Continues, Conducted, Working
<1> QED
  BY <1>5, <1>7

\* Its process, its pipe and its context.
LEMMA Around ==
    ASSUME ExecsOK, NEW e \in Execs, NEW m,
           \/ cmd[e].proc = "alive"
              /\ \E held \in BOOLEAN :
                     m = [cmd[e] EXCEPT !.proc = "dead", !.held = held]
           \/ m = [cmd[e] EXCEPT !.held = FALSE]
           \/ m = [cmd[e] EXCEPT !.over = TRUE]
    PROVE  Continues(e, m)
<1>1. cmd[e] \in CmdStates /\ Conducted(cmd[e])
  BY CommandFacts
<1>2. m \in CmdStates
  <2>1. ASSUME NEW held \in BOOLEAN, m = [cmd[e] EXCEPT !.proc = "dead", !.held = held]
        PROVE  m \in CmdStates
    BY <1>1, <2>1 DEF CmdStates
  <2>2. CASE m = [cmd[e] EXCEPT !.held = FALSE] \/ m = [cmd[e] EXCEPT !.over = TRUE]
    BY <1>1, <2>2 DEF CmdStates
  <2> QED
    BY <2>1, <2>2
<1>3. /\ m.pc = cmd[e].pc /\ m.proc \in {cmd[e].proc, "dead"}
      /\ m.exits = cmd[e].exits
  BY <1>1 DEF CmdStates
<1> QED
  BY <1>1, <1>2, <1>3 DEF Continues, Conducted, Working

LEMMA GoroutineExecsOK ==
    ASSUME ExecsOK, NEW e \in Execs, ExecStep(e), ~ExecUnwind(e)
    PROVE  ExecsOK'
<1>1. cmd[e] \in CmdStates /\ Conducted(cmd[e]) /\ cmd \in [Execs -> CmdStates]
  BY CommandFacts DEF ExecsOK
<1>2. CASE ExecStart(e)
  <2>1. /\ cmd[e].pc = "start" /\ UNCHANGED <<reader, replyTo, sem, cancels>>
        /\ cmd' = [cmd EXCEPT ![e] = [cmd[e] EXCEPT !.pc = "ack", !.proc = "alive"]]
    BY <1>2 DEF ExecStart, ExecMoves, connVars
  <2> QED
    BY <2>1, Starts, CommandStep
<1>3. CASE ExecExit(e)
  <2>1. /\ cmd[e].pc = "exit" /\ UNCHANGED <<reader, replyTo, sem, cancels>>
        /\ cmd' = [cmd EXCEPT ![e] = [cmd[e] EXCEPT !.pc = "unwind",
                                                    !.exits = @ + 1]]
    BY <1>3 DEF ExecExit, ExecMoves, connVars
  <2> QED
    BY <2>1, QueuesExit, CommandStep
<1>4. CASE \/ ExecStartFails(e) \/ ExecAck(e) \/ ExecWait(e)
           \/ ExecStdout(e) \/ ExecStderr(e)
  <2>1. PICK next \in {"wait", "stdout", "stderr", "exit"} :
            /\ cmd' = [cmd EXCEPT ![e] = [cmd[e] EXCEPT !.pc = next]]
            /\ cmd[e].pc \in {"start", "ack", "wait", "stdout", "stderr"}
            /\ cmd[e].pc = "ack" => next = "wait"
            /\ cmd[e].pc = "wait" => cmd[e].proc = "dead"
            /\ UNCHANGED <<reader, replyTo, sem, cancels>>
    BY <1>4 DEF ExecStartFails, ExecAck, ExecWait, ExecStdout, ExecStderr,
       ExecMoves, connVars
  <2>2. cmd[e].proc = "alive" => next = "wait"
    BY <1>1, <2>1 DEF Conducted
  <2>3. Working(e) /\ cmd[e].pc # "unwind"
    BY <2>1 DEF Working
  <2> QED
    BY <2>1, <2>2, <2>3, GoesOn, CommandStep
<1>5. CASE ExecPanics(e)
  <2>1. UNCHANGED <<replyTo, execVars>> /\ reader' = reader
    BY <1>5 DEF ExecPanics, connVars
  <2> QED
    BY <2>1, ExecsQuiet
<1>6. CASE ProcExits(e) \/ PipeReleased(e) \/ ExecTimeout(e)
  <2>1. UNCHANGED <<reader, replyTo, sem, cancels>>
    BY <1>6 DEF ProcExits, PipeReleased, ExecTimeout, connVars
  <2>2. CASE ProcExits(e)
    <3>1. PICK held \in BOOLEAN :
              cmd' = [cmd EXCEPT ![e] = [cmd[e] EXCEPT !.proc = "dead", !.held = held]]
      BY <1>1, <2>2 DEF ProcExits
    <3>2. cmd[e].proc = "alive"
      BY <2>2 DEF ProcExits
    <3> QED
      BY <2>1, <3>1, <3>2, Around, CommandStep
  <2>3. CASE PipeReleased(e)
    <3>1. cmd' = [cmd EXCEPT ![e] = [cmd[e] EXCEPT !.held = FALSE]]
      BY <2>3 DEF PipeReleased
    <3> QED
      BY <2>1, <3>1, Around, CommandStep
  <2>4. CASE ExecTimeout(e)
    <3>1. cmd' = [cmd EXCEPT ![e] = [cmd[e] EXCEPT !.over = TRUE]]
      BY <2>4 DEF ExecTimeout
    <3> QED
      BY <2>1, <3>1, Around, CommandStep
  <2> QED
    BY <1>6, <2>2, <2>3, <2>4
<1> QED
  BY <1>2, <1>3, <1>4, <1>5, <1>6 DEF ExecStep

\* Deferred in the goroutine: the token is returned.
LEMMA UnwindExecsOK ==
    ASSUME ExecsOK, NEW e \in Execs, ExecUnwind(e)
    PROVE  ExecsOK'
<1> DEFINE m == [cmd[e] EXCEPT !.pc = "done", !.over = TRUE]
<1>1. /\ cmd[e] \in CmdStates /\ Conducted(cmd[e])
      /\ cmd[e].pc = "unwind" /\ IdOf[e] \in ExecIDs
  BY CommandFacts, AgentConnAssumption DEF ExecUnwind
<1>2. /\ cmd' = [cmd EXCEPT ![e] = m] /\ sem' = sem - 1
      /\ cancels' = [cancels EXCEPT ![IdOf[e]] = NoExec]
      /\ UNCHANGED <<reader, replyTo>>
  BY <1>1 DEF ExecUnwind, connVars, ExecsOK
<1>3. m \in CmdStates
  BY <1>1 DEF CmdStates
<1>4. m.pc = "done" /\ m.proc = cmd[e].proc
  BY <1>1 DEF CmdStates
<1> HIDE DEF m
<1>5. Conducted(m)
  BY <1>1, <1>4 DEF Conducted
<1>6. /\ cmd' \in [Execs -> CmdStates] /\ cmd'[e] = m
      /\ \A x \in Execs : x # e => cmd'[x] = cmd[x]
      /\ \A x \in Execs : Conducted(cmd'[x])
  BY <1>2, <1>3, <1>5, OwnStep
<1>7. Underway' = Underway \ {e} /\ e \in Underway
  BY <1>1, <1>4, <1>6 DEF Underway, Working
<1>8. IsFiniteSet(Underway) /\ sem = Cardinality(Underway) /\ sem \in 0..MaxParallelExec
  BY DEF ExecsOK
<1>9. IsFiniteSet(Underway') /\ Cardinality(Underway') = Cardinality(Underway) - 1
  BY <1>7, <1>8, FS_RemoveElement
<1>10. sem' = Cardinality(Underway') /\ sem' \in 0..MaxParallelExec
  <2>1. Cardinality(Underway') \in Nat
    BY <1>9, FS_CardinalityType
  <2> QED
    BY <1>2, <1>8, <1>9, <2>1, AgentConnAssumption
<1>11. cancels' \in [ExecIDs -> Execs \cup {NoExec}]
  BY <1>1, <1>2 DEF ExecsOK
<1>12. Answering'
  <2> SUFFICES ASSUME replyTo # NoExec
               PROVE  /\ reader = "send" /\ cmd'[replyTo].pc = "refused"
                      /\ cmd'[replyTo].exits = 0
    BY <1>2 DEF Answering
  <2>1. /\ reader = "send" /\ cmd[replyTo].pc = "refused" /\ cmd[replyTo].exits = 0
        /\ replyTo \in Execs
    BY DEF ExecsOK, Answering
  <2> QED
    BY <1>1, <1>6, <2>1
<1> QED
  BY <1>2, <1>6, <1>9, <1>10, <1>11, <1>12 DEF ExecsOK

\* An exec frame: the command gets a token, or is refused and owed an answer.
LEMMA TakeExecsOK ==
    ASSUME ExecsOK, NEW e \in Execs, ReaderExec(e) \/ ReaderExecBusy(e)
    PROVE  ExecsOK'
<1> DEFINE next == IF ReaderExec(e) THEN "start" ELSE "refused"
           m == [cmd[e] EXCEPT !.pc = next]
<1>1. /\ cmd[e] \in CmdStates /\ Conducted(cmd[e]) /\ cmd[e].exits = 0
      /\ cmd[e].pc = "new" /\ IdOf[e] \in ExecIDs
  BY CommandFacts, AgentConnAssumption DEF ReaderExec, ReaderExecBusy, TakeExec
<1>2. /\ cmd' = [cmd EXCEPT ![e] = m] /\ next \in {"start", "refused"}
      /\ cancels' = [cancels EXCEPT ![IdOf[e]] = e]
      /\ reader = "read"
  BY DEF ReaderExec, ReaderExecBusy, TakeExec, Reading
<1>3. /\ next = "start" =>
             /\ sem < MaxParallelExec /\ sem' = sem + 1
             /\ UNCHANGED <<reader, replyTo>>
      /\ next = "refused" =>
             sem' = sem /\ reader' = "send" /\ replyTo' = e
  BY DEF ReaderExec, ReaderExecBusy
<1> HIDE DEF next
<1>4. m \in CmdStates
  BY <1>1, <1>2 DEF CmdStates
<1>5. m.pc = next /\ m.proc = cmd[e].proc /\ m.exits = 0
  BY <1>1 DEF CmdStates
<1> HIDE DEF m
<1>6. Conducted(m)
  BY <1>1, <1>5 DEF Conducted
<1>7. /\ cmd' \in [Execs -> CmdStates] /\ cmd'[e] = m
      /\ \A x \in Execs : x # e => cmd'[x] = cmd[x]
      /\ \A x \in Execs : Conducted(cmd'[x])
  BY <1>2, <1>4, <1>6, OwnStep
<1>8. replyTo = NoExec
  BY <1>2 DEF ExecsOK, Answering
<1>9. /\ IsFiniteSet(Underway) /\ sem = Cardinality(Underway)
      /\ sem \in 0..MaxParallelExec
  BY DEF ExecsOK
<1>10. /\ sem' \in 0..MaxParallelExec
       /\ IsFiniteSet(Underway') /\ sem' = Cardinality(Underway')
  <2>1. CASE next = "start"
    <3>1. Underway' = Underway \cup {e} /\ e \notin Underway
      BY <1>1, <1>5, <1>7, <2>1 DEF Underway, Working
    <3>2. IsFiniteSet(Underway') /\ Cardinality(Underway') = Cardinality(Underway) + 1
      BY <1>9, <3>1, FS_AddElement
    <3>3. sem' \in 0..MaxParallelExec
      BY <1>3, <1>9, <2>1, AgentConnAssumption
    <3> QED
      BY <1>3, <1>9, <2>1, <3>2, <3>3
  <2>2. CASE next = "refused"
    <3>1. Underway' = Underway
      BY <1>1, <1>5, <1>7, <2>2 DEF Underway, Working
    <3> QED
      BY <1>3, <1>9, <2>2, <3>1
  <2> QED
    BY <1>2, <2>1, <2>2
<1>11. cancels' \in [ExecIDs -> Execs \cup {NoExec}]
  BY <1>1, <1>2 DEF ExecsOK
<1>12. Answering' /\ replyTo' \in Execs \cup {NoExec}
  BY <1>2, <1>3, <1>5, <1>7, <1>8 DEF Answering
<1> QED
  BY <1>7, <1>10, <1>11, <1>12 DEF ExecsOK

\* The answer to a command that was refused, or to something else.
LEMMA ReaderSendsExecsOK ==
    ASSUME ExecsOK, ReaderSends
    PROVE  ExecsOK'
<1>1. /\ reader' = "read" /\ replyTo' = NoExec /\ UNCHANGED <<sem, cancels>>
      /\ cmd' = [e \in Execs |->
                    IF e = replyTo
                    THEN [cmd[e] EXCEPT !.exits = @ + 1, !.over = TRUE]
                    ELSE cmd[e]]
  BY DEF ReaderSends
<1>2. ASSUME NEW e \in Execs
      PROVE  /\ cmd'[e] \in CmdStates /\ Conducted(cmd'[e])
             /\ cmd'[e].pc = cmd[e].pc
  <2>1. cmd[e] \in CmdStates /\ Conducted(cmd[e])
    BY CommandFacts
  <2>2. CASE e # replyTo
    BY <1>1, <2>1, <2>2
  <2>3. CASE e = replyTo
    <3>1. cmd[e].pc = "refused" /\ cmd[e].exits = 0
      BY <2>3, AgentConnAssumption DEF ExecsOK, Answering
    <3> DEFINE n == cmd[e].exits + 1
               m == [cmd[e] EXCEPT !.exits = n, !.over = TRUE]
    <3>2. n \in 0..1
      BY <3>1
    <3>3. cmd'[e] = m
      BY <1>1, <2>3
    <3> HIDE DEF n
    <3>4. m \in CmdStates
      BY <2>1, <3>2 DEF CmdStates
    <3>5. m.pc = "refused" /\ m.proc = cmd[e].proc
      BY <2>1, <3>1 DEF CmdStates
    <3> HIDE DEF m
    <3>6. Conducted(m)
      BY <2>1, <3>1, <3>5 DEF Conducted
    <3> QED
      BY <3>1, <3>3, <3>4, <3>5, <3>6
  <2> QED
    BY <2>2, <2>3
<1>3. cmd' \in [Execs -> CmdStates] /\ \A e \in Execs : Conducted(cmd'[e])
  BY <1>1, <1>2
<1>4. Underway' = Underway
  BY <1>2 DEF Underway, Working
<1> QED
  BY <1>1, <1>3, <1>4 DEF ExecsOK, Answering

\* A cancel frame.
LEMMA CancelExecsOK ==
    ASSUME ExecsOK, NEW i \in ExecIDs, ReaderCancel(i)
    PROVE  ExecsOK'
<1>1. PICK e : e = cancels[i]
  OBVIOUS
<1>2. e \in Execs
  BY <1>1 DEF ExecsOK, ReaderCancel
<1>3. /\ cmd' = [cmd EXCEPT ![e] = [cmd[e] EXCEPT !.over = TRUE]]
      /\ UNCHANGED <<reader, replyTo, sem, cancels>>
  BY <1>1 DEF ReaderCancel, connVars
<1> QED
  BY <1>2, <1>3, Around, CommandStep

\* runOnce returns and cancels the context of every command.
LEMMA ReturnExecsOK ==
    ASSUME ExecsOK, ReturnFromRunOnce
    PROVE  ExecsOK'
<1>1. /\ reader = "closeConn" /\ UNCHANGED <<replyTo, sem, cancels>>
      /\ cmd' = [e \in Execs |-> [cmd[e] EXCEPT !.over = TRUE]]
  BY DEF ReturnFromRunOnce
<1>2. ASSUME NEW e \in Execs
      PROVE  /\ cmd'[e] \in CmdStates /\ Conducted(cmd'[e])
             /\ cmd'[e].pc = cmd[e].pc
  <2> DEFINE m == [cmd[e] EXCEPT !.over = TRUE]
  <2>1. cmd[e] \in CmdStates /\ Conducted(cmd[e]) /\ cmd'[e] = m
    BY <1>1, CommandFacts
  <2>2. m \in CmdStates
    BY <2>1 DEF CmdStates
  <2>3. m.pc = cmd[e].pc /\ m.proc = cmd[e].proc /\ m.exits = cmd[e].exits
    BY <2>1 DEF CmdStates
  <2> HIDE DEF m
  <2> QED
    BY <2>1, <2>2, <2>3 DEF Conducted
<1>3. cmd' \in [Execs -> CmdStates] /\ \A e \in Execs : Conducted(cmd'[e])
  BY <1>1, <1>2
<1>4. Underway' = Underway
  BY <1>2 DEF Underway, Working
<1>5. replyTo = NoExec
  BY <1>1 DEF ExecsOK, Answering
<1> QED
  BY <1>1, <1>3, <1>4, <1>5 DEF ExecsOK, Answering

-----------------------------------------------------------------------------
(* Shells *)

\* The shell p is not brought to life and keeps its session; until it is closed,
\* whoever holds it goes on holding it, and its entry in the registry stays
\* unless it is now held.
Wanes(p) ==
    /\ pty'[p].sid = pty[p].sid
    /\ pty'[p].shell = "none" <=> pty[p].shell = "none"
    /\ pty'[p].shell \in {"alive", "exited"} => pty[p].shell \in {"alive", "exited"}
    /\ pty'[p].shell = "hungup" => pty[p].shell = "hungup" \/ Held(p)'
    /\ pty'[p].shell \in {"alive", "exited", "hungup"} =>
           /\ Held(p) => Held(p)'
           /\ ptys[pty[p].sid] = p => ptys'[pty[p].sid] = p \/ Held(p)'
    /\ pty'[p].pc # "off" => pty[p].pc # "off"
    /\ pty'[p].pc = "close" <=> pty'[p].hand # NoPty

\* A step in which all shells wane, entries are only removed and nothing but
\* what was registered is taken in hand.
LEMMA ShellsWane ==
    ASSUME PtysOK, pty' \in [Ptys -> PtyStates], \A p \in Ptys : Wanes(p),
           ptys' \in [Sids -> Ptys \cup {NoPty}],
           \A s \in Sids : ptys'[s] \in {ptys[s], NoPty},
           hand' \in SUBSET Ptys,
           \A p \in Ptys : Held(p)' => Held(p) \/ \E s \in Sids : ptys[s] = p,
           input' \in {input, NoPty} \/ \E s \in Sids : input' = ptys[s],
           AtHand'
    PROVE  PtysOK'
<1>1. ASSUME NEW p \in Ptys PROVE Known(p)'
  <2>1. Known(p) /\ Wanes(p) /\ p # NoPty
    BY AgentConnAssumption DEF PtysOK
  <2>2. /\ pty'[p].shell \in {"alive", "exited"} => ptys'[pty'[p].sid] = p \/ Held(p)'
        /\ pty'[p].shell = "hungup" => Held(p)'
    BY <2>1 DEF Known, Wanes
  <2>3. /\ pty'[p].shell # "none" => pty'[p].sid \in Sids
        /\ pty'[p].pc = "close" <=> pty'[p].hand # NoPty
    BY <2>1 DEF Known, Wanes
  <2>4. ASSUME pty'[p].shell = "none"
        PROVE  /\ pty'[p].pc = "off" /\ ~Held(p)' /\ p # input'
               /\ \A s \in Sids : ptys'[s] # p
    BY <2>1, <2>4 DEF Known, Wanes
  <2> QED
    BY <2>2, <2>3, <2>4 DEF Known
<1>2. /\ IsFiniteSet(Registered) /\ Cardinality(Registered) <= MaxParallelPtys
  BY DEF PtysOK
<1>3. Registered' \in SUBSET Registered
  BY DEF Registered
<1>4. /\ IsFiniteSet(Registered') /\ Cardinality(Registered') <= Cardinality(Registered)
  BY <1>2, <1>3, FS_Subset
<1>5. Cardinality(Registered') <= MaxParallelPtys
  <2>1. Cardinality(Registered') \in Nat /\ Cardinality(Registered) \in Nat
    BY <1>2, <1>4, FS_CardinalityType
  <2> QED
    BY <1>2, <1>4, <2>1, AgentConnAssumption
<1>6. input' \in Ptys \cup {NoPty}
  BY DEF PtysOK
<1> QED
  BY <1>1, <1>4, <1>5, <1>6 DEF PtysOK

\* The state of the shell p becomes m.
LEMMA OwnShell ==
    ASSUME PtysOK, NEW p \in Ptys, NEW m \in PtyStates, pty' = [pty EXCEPT ![p] = m]
    PROVE  /\ pty' \in [Ptys -> PtyStates] /\ pty'[p] = m
           /\ \A q \in Ptys : q # p => pty'[q] = pty[q]
BY DEF PtysOK

\* A step of one shell, or of the reader with it, that leaves the registry alone
\* and the goroutines with what they have to close.
LEMMA ShellChanges ==
    ASSUME PtysOK, NEW p \in Ptys, NEW m \in PtyStates, pty' = [pty EXCEPT ![p] = m],
           m.sid = pty[p].sid, m.hand = pty[p].hand,
           m.shell = "none" <=> pty[p].shell = "none",
           m.shell \in {"alive", "exited"} => pty[p].shell \in {"alive", "exited"},
           m.shell = "hungup" => pty[p].shell = "hungup" \/ Held(p),
           m.pc # "off" => pty[p].pc # "off",
           m.pc = "close" <=> pty[p].pc = "close",
           ptys' = ptys, input' = input,
           hand' = hand \/ (m.shell = "closed" /\ hand' = hand \ {p}),
           AtHand'
    PROVE  PtysOK'
<1>1. /\ pty' \in [Ptys -> PtyStates] /\ pty'[p] = m
      /\ \A q \in Ptys : q # p => pty'[q] = pty[q]
  BY OwnShell
<1>2. BeingClosed' = BeingClosed
  BY <1>1 DEF BeingClosed
<1>3. ASSUME NEW q \in Ptys PROVE Wanes(q)
  <2>1. Known(q)
    BY DEF PtysOK
  <2>2. q # p => Held(q)' = Held(q)
    BY <1>2 DEF Held
  <2>3. m.shell # "closed" => Held(p)' = Held(p)
    BY <1>2 DEF Held
  <2> QED
    BY <1>1, <2>1, <2>2, <2>3 DEF Wanes, Known
<1>4. /\ ptys' \in [Sids -> Ptys \cup {NoPty}] /\ hand' \in SUBSET Ptys
      /\ \A q \in Ptys : Held(q)' => Held(q)
  BY <1>2 DEF PtysOK, Held
<1> QED
  BY <1>1, <1>3, <1>4, ShellsWane

\* A step that touches no shell and not the registry.
LEMMA ReaderMoves ==
    ASSUME PtysOK, UNCHANGED <<hand, ptys, pty>>, AtHand',
           input' \in {input, NoPty} \/ \E s \in Sids : input' = ptys[s]
    PROVE  PtysOK'
<1>1. BeingClosed' = BeingClosed
  BY DEF BeingClosed
<1>2. ASSUME NEW p \in Ptys PROVE Wanes(p)
  <2>1. Known(p) /\ Held(p)' = Held(p)
    BY <1>1 DEF PtysOK, Held
  <2> QED
    BY <2>1 DEF Wanes, Known
<1>3. /\ ptys' \in [Sids -> Ptys \cup {NoPty}] /\ hand' \in SUBSET Ptys
      /\ pty' \in [Ptys -> PtyStates] /\ \A p \in Ptys : Held(p)' => Held(p)
  BY <1>1 DEF PtysOK, Held
<1> QED
  BY <1>2, <1>3, ShellsWane

\* An entry is removed and its shell taken in hand.
LEMMA RemovePtysOK ==
    ASSUME PtysOK, NEW s \in Sids, RemovePty(s), reader \in {"read", "write"}
    PROVE  PtysOK'
<1>1. /\ ptys' = [ptys EXCEPT ![s] = NoPty] /\ hand' = {ptys[s]} \ {NoPty}
      /\ input' = NoPty /\ pty' = pty
      /\ reader' = IF ptys[s] = NoPty THEN "read" ELSE "remove"
  BY DEF RemovePty
<1>2. /\ ptys' \in [Sids -> Ptys \cup {NoPty}] /\ hand' \in SUBSET Ptys
      /\ ptys'[s] = NoPty /\ \A x \in Sids : x # s => ptys'[x] = ptys[x]
  BY <1>1 DEF PtysOK
<1>3. hand = {} /\ BeingClosed' = BeingClosed
  BY <1>1 DEF PtysOK, AtHand, BeingClosed
<1>4. ASSUME NEW p \in Ptys PROVE Wanes(p)
  <2>1. Known(p) /\ pty'[p] = pty[p] /\ p # NoPty
    BY <1>1, AgentConnAssumption DEF PtysOK
  <2>2. Held(p) => Held(p)'
    BY <1>3 DEF Held
  <2>3. ptys[s] = p => Held(p)'
    BY <1>1, <2>1 DEF Held
  <2>4. pty[p].shell # "none" => pty[p].sid \in Sids
    BY <2>1 DEF Known
  <2>5. ptys[pty[p].sid] = p /\ pty[p].shell # "none" =>
            ptys'[pty[p].sid] = p \/ Held(p)'
    BY <1>2, <2>3, <2>4
  <2> QED
    BY <2>1, <2>2, <2>5 DEF Wanes, Known
<1>5. AtHand'
  <2>1. CASE ptys[s] = NoPty
    BY <1>1, <2>1 DEF AtHand, Ending
  <2>2. CASE ptys[s] # NoPty
    <3>1. ptys[s] \in Ptys /\ hand' = {ptys[s]} /\ reader' = "remove"
      BY <1>1, <2>2 DEF PtysOK
    <3> QED
      BY <3>1 DEF AtHand, Ending
  <2> QED
    BY <2>1, <2>2
<1>6. /\ \A x \in Sids : ptys'[x] \in {ptys[x], NoPty}
      /\ \A p \in Ptys : Held(p)' => Held(p) \/ \E x \in Sids : ptys[x] = p
  BY <1>1, <1>2, <1>3 DEF Held
<1> QED
  BY <1>1, <1>2, <1>4, <1>5, <1>6, ShellsWane DEF PtysOK

\* pty.start: the shell is spawned, in the reader's hand.
LEMMA SpawnPtysOK ==
    ASSUME PtysOK, NEW p \in Ptys, NEW s \in Sids, ReaderPtyStart(p, s)
    PROVE  PtysOK'
<1> DEFINE m == [pty[p] EXCEPT !.sid = s, !.shell = "alive"]
<1>1. /\ pty' = [pty EXCEPT ![p] = m] /\ pty[p].shell = "none"
      /\ reader = "read" /\ reader' = "put" /\ hand' = {p}
      /\ input' = input /\ ptys' = ptys
  BY DEF ReaderPtyStart, Reading
<1>2. pty[p] \in PtyStates /\ Known(p) /\ hand = {}
  BY <1>1 DEF PtysOK, AtHand
<1>3. m \in PtyStates
  BY <1>2 DEF PtyStates
<1>4. m.sid = s /\ m.shell = "alive" /\ m.pc = pty[p].pc /\ m.hand = pty[p].hand
  BY <1>2 DEF PtyStates
<1> HIDE DEF m
<1>5. /\ pty' \in [Ptys -> PtyStates] /\ pty'[p] = m
      /\ \A q \in Ptys : q # p => pty'[q] = pty[q]
  BY <1>1, <1>3, OwnShell
<1>6. BeingClosed' = BeingClosed /\ Registered' = Registered
  BY <1>1, <1>4, <1>5 DEF BeingClosed, Registered
<1>7. ASSUME NEW q \in Ptys PROVE Known(q)'
  <2>1. CASE q = p
    <3>1. Held(p)'
      BY <1>1 DEF Held
    <3> QED
      BY <1>2, <1>4, <1>5, <2>1, <3>1 DEF Known
  <2>2. CASE q # p
    <3>1. Known(q) /\ pty'[q] = pty[q]
      BY <1>5, <2>2 DEF PtysOK
    <3>2. Held(q)' = Held(q)
      BY <1>1, <1>2, <1>6, <2>2 DEF Held
    <3> QED
      BY <1>1, <2>2, <3>1, <3>2 DEF Known
  <2> QED
    BY <2>1, <2>2
<1>8. AtHand'
  <2>1. Fresh(p)'
    BY <1>1, <1>2, <1>4, <1>5, <1>6 DEF Known, Held, Fresh
  <2> QED
    BY <1>1, <2>1 DEF AtHand, Ending
<1> QED
  BY <1>1, <1>5, <1>6, <1>7, <1>8 DEF PtysOK

\* put: the shell is registered and its goroutine starts.
LEMMA PutPtysOK ==
    ASSUME PtysOK, NEW p \in Ptys, ReaderPuts(p)
    PROVE  PtysOK'
<1> DEFINE s == pty[p].sid
           m == [pty[p] EXCEPT !.pc = "read"]
<1>1. /\ pty' = [pty EXCEPT ![p] = m] /\ ptys' = [ptys EXCEPT ![s] = p]
      /\ reader = "put" /\ p \in hand /\ reader' = "read" /\ hand' = {}
      /\ input' = input
      /\ s \notin Registered /\ Cardinality(Registered) < MaxParallelPtys
  BY DEF ReaderPuts, CanPut
<1>2. pty[p] \in PtyStates /\ Known(p) /\ Fresh(p) /\ hand = {p}
  BY <1>1 DEF PtysOK, AtHand
<1>3. m \in PtyStates
  BY <1>2 DEF PtyStates
<1>4. m.sid = s /\ m.shell = pty[p].shell /\ m.pc = "read" /\ m.hand = pty[p].hand
  BY <1>2 DEF PtyStates
<1> HIDE DEF m
<1>5. /\ pty' \in [Ptys -> PtyStates] /\ pty'[p] = m
      /\ \A q \in Ptys : q # p => pty'[q] = pty[q]
  BY <1>1, <1>3, OwnShell
<1>6. BeingClosed' = BeingClosed
  BY <1>4, <1>5 DEF BeingClosed
<1>7. /\ s \in Sids /\ pty[p].shell \in {"alive", "exited"} /\ pty[p].pc = "off"
      /\ pty[p].hand = NoPty
  BY <1>2 DEF Known, Fresh
<1> HIDE DEF s
<1>8. /\ ptys' \in [Sids -> Ptys \cup {NoPty}] /\ ptys'[s] = p
      /\ \A x \in Sids : x # s => ptys'[x] = ptys[x]
  BY <1>1, <1>7 DEF PtysOK
<1>9. ptys[s] = NoPty
  BY <1>1, <1>7 DEF Registered
<1>10. ASSUME NEW q \in Ptys PROVE Known(q)'
  <2>1. CASE q = p
    BY <1>4, <1>5, <1>7, <1>8, <2>1 DEF Known
  <2>2. CASE q # p
    <3>1. Known(q) /\ pty'[q] = pty[q] /\ q # NoPty
      BY <1>5, <2>2, AgentConnAssumption DEF PtysOK
    <3>2. Held(q)' = Held(q)
      BY <1>1, <1>2, <1>6, <2>2 DEF Held
    <3>3. ptys[pty[q].sid] = q /\ pty[q].sid \in Sids => ptys'[pty[q].sid] = q
      BY <1>8, <1>9, <3>1
    <3>4. pty[q].shell = "none" => \A x \in Sids : ptys'[x] # q
      BY <1>8, <2>2, <3>1 DEF Known
    <3> QED
      BY <1>1, <3>1, <3>2, <3>3, <3>4 DEF Known
  <2> QED
    BY <2>1, <2>2
<1>11. IsFiniteSet(Registered)
  BY DEF PtysOK
<1>12. Registered' = Registered \cup {s}
  BY <1>7, <1>8, AgentConnAssumption DEF Registered
<1>13. IsFiniteSet(Registered') /\ Cardinality(Registered') = Cardinality(Registered) + 1
  BY <1>1, <1>11, <1>12, FS_AddElement
<1>14. Cardinality(Registered') <= MaxParallelPtys
  <2>1. Cardinality(Registered) \in Nat
    BY <1>11, FS_CardinalityType
  <2> QED
    BY <1>1, <1>13, <2>1, AgentConnAssumption
<1>15. AtHand'
  BY <1>1 DEF AtHand, Ending
<1> QED
  BY <1>1, <1>5, <1>8, <1>10, <1>13, <1>14, <1>15 DEF PtysOK

\* The steps in which the reader closes a shell of its hand.
LEMMA ClosePtysOK ==
    ASSUME PtysOK, NEW p \in Ptys, ReaderHangsUp(p) \/ ReaderClosed(p)
    PROVE  PtysOK'
<1>1. pty[p] \in PtyStates /\ Known(p) /\ p \in hand /\ Held(p) /\ ptys' = ptys
      /\ input' = input /\ reader \in {"refuse", "remove", "closing"}
  BY DEF PtysOK, ReaderHangsUp, ReaderClosed, Held
<1>2. Registered' = Registered
  BY <1>1 DEF Registered
<1>3. CASE ReaderHangsUp(p)
  <2> DEFINE sh == IF pty[p].shell = "alive" THEN "hungup" ELSE "closed"
             m == [pty[p] EXCEPT !.over = TRUE, !.shell = sh]
  <2>1. /\ pty' = [pty EXCEPT ![p] = m] /\ pty[p].shell \in {"alive", "exited"}
        /\ hand' = hand /\ reader' = reader
    BY <1>1, <1>3 DEF ReaderHangsUp, HangUp, connVars, PtysOK
  <2>2. sh \in {"hungup", "closed"}
    OBVIOUS
  <2> HIDE DEF sh
  <2>3. m \in PtyStates
    BY <1>1, <2>2 DEF PtyStates
  <2>4. m.sid = pty[p].sid /\ m.pc = pty[p].pc /\ m.hand = pty[p].hand /\ m.shell = sh
    BY <1>1 DEF PtyStates
  <2> HIDE DEF m
  <2>5. AtHand'
    BY <1>1, <1>2, <2>1 DEF PtysOK, AtHand, Ending
  <2> QED
    BY <1>1, <2>1, <2>2, <2>3, <2>4, <2>5, ShellChanges
<1>4. CASE ReaderClosed(p)
  <2> DEFINE m == [pty[p] EXCEPT !.shell = "closed"]
  <2>1. /\ pty' = [pty EXCEPT ![p] = m] /\ pty[p].shell \in {"hungup", "closed"}
        /\ hand' = hand \ {p}
        /\ hand' # {} => reader' = reader
        /\ hand' = {} => reader' = [refuse |-> "send", remove |-> "read",
                                    closing |-> "closeOut"][reader]
    BY <1>4 DEF ReaderClosed, HungUp
  <2>2. m \in PtyStates
    BY <1>1 DEF PtyStates
  <2>3. /\ m.sid = pty[p].sid /\ m.pc = pty[p].pc /\ m.hand = pty[p].hand
        /\ m.shell = "closed"
    BY <1>1 DEF PtyStates
  <2> HIDE DEF m
  <2>4. AtHand'
    <3>1. CASE reader \in {"refuse", "remove"}
      <4>1. hand = {p}
        BY <1>1, <3>1 DEF PtysOK, AtHand
      <4>2. hand' = {} /\ reader' \in {"send", "read"}
        BY <2>1, <3>1, <4>1
      <4> QED
        BY <4>2 DEF AtHand, Ending
    <3>2. CASE reader = "closing"
      <4>1. /\ IsFiniteSet(hand) /\ Cardinality(hand) <= MaxParallelPtys
            /\ Registered = {}
        BY <3>2 DEF PtysOK, AtHand
      <4>2. hand' \in SUBSET hand
        BY <2>1
      <4>3. IsFiniteSet(hand') /\ Cardinality(hand') <= Cardinality(hand)
        BY <4>1, <4>2, FS_Subset
      <4>4. Cardinality(hand') <= MaxParallelPtys
        <5>1. Cardinality(hand') \in Nat /\ Cardinality(hand) \in Nat
          BY <4>1, <4>3, FS_CardinalityType
        <5> QED
          BY <4>1, <4>3, <5>1, AgentConnAssumption
      <4>5. \/ reader' = "closing"
            \/ hand' = {} /\ reader' = "closeOut"
        BY <2>1, <3>2
      <4> QED
        BY <1>2, <4>1, <4>3, <4>4, <4>5 DEF AtHand, Ending
    <3> QED
      BY <1>1, <3>1, <3>2
  <2> QED
    BY <1>1, <2>1, <2>2, <2>3, <2>4, ShellChanges
<1> QED
  BY <1>3, <1>4

\* closeAll takes all registered shells in hand.
LEMMA CloseAllPtysOK ==
    ASSUME PtysOK, CloseAllPtys
    PROVE  PtysOK'
<1>1. /\ reader = "closePtys" /\ ptys' = [s \in Sids |-> NoPty] /\ pty' = pty
      /\ hand' = {ptys[s] : s \in Registered} /\ input' = input
      /\ reader' = IF Registered = {} THEN "closeOut" ELSE "closing"
  BY DEF CloseAllPtys
<1>2. /\ ptys' \in [Sids -> Ptys \cup {NoPty}] /\ hand = {}
      /\ BeingClosed' = BeingClosed /\ Registered' = {}
  BY <1>1 DEF PtysOK, AtHand, Ending, BeingClosed, Registered
<1>3. hand' \in SUBSET Ptys /\ \A p \in hand' : \E s \in Sids : ptys[s] = p
  BY <1>1 DEF PtysOK, Registered
<1>4. ASSUME NEW p \in Ptys PROVE Wanes(p)
  <2>1. Known(p) /\ pty'[p] = pty[p] /\ p # NoPty
    BY <1>1, AgentConnAssumption DEF PtysOK
  <2>2. Held(p) => Held(p)'
    BY <1>2 DEF Held
  <2>3. \A s \in Sids : ptys[s] = p => Held(p)'
    BY <1>1, <2>1 DEF Held, Registered
  <2> QED
    BY <2>1, <2>2, <2>3 DEF Wanes, Known
<1>5. IsFiniteSet(hand') /\ Cardinality(hand') <= MaxParallelPtys
  <2> DEFINE f == [s \in Registered |-> ptys[s]]
             T == {ptys[s] : s \in Registered}
  <2>1. f \in Surjection(Registered, T)
    BY DEF Surjection
  <2>2. IsFiniteSet(Registered) /\ Cardinality(Registered) <= MaxParallelPtys
    BY DEF PtysOK
  <2> HIDE DEF f, T
  <2>3. IsFiniteSet(T) /\ Cardinality(T) <= Cardinality(Registered)
    BY <2>1, <2>2, FS_Surjection
  <2>4. Cardinality(T) \in Nat /\ Cardinality(Registered) \in Nat
    BY <2>2, <2>3, FS_CardinalityType
  <2>5. Cardinality(T) <= MaxParallelPtys
    BY <2>2, <2>3, <2>4, AgentConnAssumption
  <2> QED
    BY <1>1, <2>3, <2>5 DEF T
<1>6. AtHand'
  BY <1>1, <1>2, <1>5 DEF AtHand, Ending
<1>7. /\ \A s \in Sids : ptys'[s] \in {ptys[s], NoPty}
      /\ \A p \in Ptys : Held(p)' => Held(p) \/ \E s \in Sids : ptys[s] = p
  BY <1>1, <1>2, <1>3 DEF Held
<1> QED
  BY <1>1, <1>2, <1>3, <1>4, <1>6, <1>7, ShellsWane DEF PtysOK

\* runOnce returns and cancels the context of every shell.
LEMMA ReturnPtysOK ==
    ASSUME PtysOK, ReturnFromRunOnce
    PROVE  PtysOK'
<1>1. /\ pty' = [p \in Ptys |-> [pty[p] EXCEPT !.over = TRUE]]
      /\ UNCHANGED <<hand, input, ptys>> /\ reader = "closeConn" /\ reader' = "returned"
  BY DEF ReturnFromRunOnce
<1>2. ASSUME NEW p \in Ptys
      PROVE  /\ pty'[p] \in PtyStates /\ pty'[p].sid = pty[p].sid
             /\ pty'[p].pc = pty[p].pc /\ pty'[p].shell = pty[p].shell
             /\ pty'[p].hand = pty[p].hand
  <2> DEFINE m == [pty[p] EXCEPT !.over = TRUE]
  <2>1. pty[p] \in PtyStates /\ pty'[p] = m
    BY <1>1 DEF PtysOK
  <2>2. m \in PtyStates
    BY <2>1 DEF PtyStates
  <2>3. /\ m.sid = pty[p].sid /\ m.pc = pty[p].pc /\ m.shell = pty[p].shell
        /\ m.hand = pty[p].hand
    BY <2>1 DEF PtyStates
  <2> QED
    BY <2>1, <2>2, <2>3
<1>3. BeingClosed' = BeingClosed /\ Registered' = Registered
  BY <1>1, <1>2 DEF BeingClosed, Registered
<1>4. ASSUME NEW p \in Ptys PROVE Wanes(p)
  <2>1. Known(p) /\ Held(p)' = Held(p)
    BY <1>1, <1>3 DEF PtysOK, Held
  <2> QED
    BY <1>1, <1>2, <2>1 DEF Wanes, Known
<1>5. AtHand'
  BY <1>1, <1>3 DEF PtysOK, AtHand, Ending
<1>6. /\ pty' \in [Ptys -> PtyStates] /\ hand' \in SUBSET Ptys
      /\ ptys' \in [Sids -> Ptys \cup {NoPty}]
      /\ \A p \in Ptys : Held(p)' => Held(p)
  BY <1>1, <1>2, <1>3 DEF PtysOK, Held
<1> QED
  BY <1>1, <1>4, <1>5, <1>6, ShellsWane

LEMMA ReaderPtysOK ==
    ASSUME PtysOK, ReaderStep
    PROVE  PtysOK'
<1>1. CASE \/ ReaderReplies \/ ReaderSends \/ ReaderLeaves \/ ReaderBadFrame \/ CloseOut
           \/ \E e \in Execs : ReaderExec(e) \/ ReaderExecBusy(e)
           \/ \E i \in ExecIDs : ReaderCancel(i)
  <2>1. UNCHANGED ptyVars
    BY <1>1 DEF ReaderReplies, ReaderSends, ReaderLeaves, ReaderBadFrame, CloseOut,
       ReaderExec, ReaderExecBusy, ReaderCancel, TakeExec
  <2>2. \/ reader' = reader
        \/ reader' \in {"read", "send", "closePtys"} /\ reader \in {"read", "send"}
        \/ reader' \in Ending /\ reader \in Ending
    BY <1>1 DEF ReaderReplies, ReaderSends, ReaderLeaves, ReaderBadFrame, CloseOut,
       ReaderExec, ReaderExecBusy, ReaderCancel, TakeExec, Reading, Ending, connVars
  <2> QED
    BY <2>1, <2>2, PtysQuiet
<1>2. ASSUME NEW s \in Sids, ReaderCancelPty(s) PROVE PtysOK'
  BY <1>2, RemovePtysOK DEF ReaderCancelPty, Reading
<1>3. CASE ReaderInputFails
  <2>1. reader = "write" /\ pty[input].shell # "alive" /\ RemovePty(pty[input].sid)
    BY <1>3 DEF ReaderInputFails
  <2>2. input \in Ptys /\ Known(input)
    BY <2>1 DEF PtysOK, AtHand
  <2>3. pty[input].sid \in Sids
    BY <2>2 DEF Known
  <2> QED
    BY <2>1, <2>3, RemovePtysOK
<1>4. ASSUME NEW s \in Sids, ReaderPtyData(s) PROVE PtysOK'
  <2>1. /\ UNCHANGED <<hand, ptys, pty>> /\ reader = "read" /\ reader' = "write"
        /\ input' = ptys[s] /\ ptys[s] # NoPty
    BY <1>4 DEF ReaderPtyData, Reading, Registered
  <2>2. AtHand'
    BY <2>1 DEF PtysOK, AtHand, Ending
  <2> QED
    BY <2>1, <2>2, ReaderMoves
<1>5. CASE ReaderInputTaken
  <2>1. /\ UNCHANGED <<hand, ptys, pty>> /\ reader = "write" /\ reader' = "read"
        /\ input' = NoPty
    BY <1>5 DEF ReaderInputTaken
  <2>2. AtHand'
    BY <2>1 DEF PtysOK, AtHand, Ending
  <2> QED
    BY <2>1, <2>2, ReaderMoves
<1>6. ASSUME NEW p \in Ptys, ReaderPutRefused(p) PROVE PtysOK'
  <2>1. /\ UNCHANGED <<hand, input, ptys, pty>> /\ reader = "put" /\ reader' = "refuse"
    BY <1>6 DEF ReaderPutRefused, ptyVars
  <2>2. AtHand'
    BY <2>1 DEF PtysOK, AtHand, Ending
  <2> QED
    BY <2>1, <2>2, ReaderMoves
<1> QED
  BY <1>1, <1>2, <1>3, <1>4, <1>5, <1>6, SpawnPtysOK, PutPtysOK, ClosePtysOK,
     CloseAllPtysOK, ReturnPtysOK
  DEF ReaderStep, ReaderServes

\* The end of a shell, and the steps of its goroutine up to its deferred call.
LEMMA ShellPtysOK ==
    ASSUME PtysOK, NEW p \in Ptys,
           \/ ShellExits(p) \/ PtyReads(p) \/ PtyReadsEnd(p) \/ PtySends(p)
           \/ PtyGivesUp(p)
    PROVE  PtysOK'
<1>1. pty[p] \in PtyStates /\ Known(p)
  BY DEF PtysOK
<1> DEFINE Quiet(m) ==
        /\ m \in PtyStates /\ m.sid = pty[p].sid /\ m.hand = pty[p].hand
        /\ \/ m.pc = pty[p].pc
           \/ (pty[p].pc \notin {"off", "close"} /\ m.pc \notin {"off", "close"})
        /\ m.shell = pty[p].shell \/ <<pty[p].shell, m.shell>> \in
               {<<"alive", "exited">>, <<"hungup", "closed">>}
<1>2. ASSUME NEW m, pty' = [pty EXCEPT ![p] = m], UNCHANGED <<hand, input, ptys>>,
             reader' = reader, Quiet(m)
      PROVE  PtysOK'
  <2>1. /\ pty' \in [Ptys -> PtyStates] /\ pty'[p] = m
        /\ \A q \in Ptys : q # p => pty'[q] = pty[q]
    BY <1>2, OwnShell
  <2>2. BeingClosed' = BeingClosed /\ Registered' = Registered
    BY <1>2, <2>1 DEF BeingClosed, Registered
  <2>3. ASSUME NEW q \in Ptys, Fresh(q) PROVE Fresh(q)'
    BY <1>2, <2>1, <2>2, <2>3 DEF Fresh
  <2>4. AtHand'
    BY <1>2, <2>2, <2>3 DEF PtysOK, AtHand, Ending
  <2> QED
    BY <1>1, <1>2, <2>4, ShellChanges
<1>3. CASE ShellExits(p)
  <2> DEFINE sh == IF pty[p].shell = "alive" THEN "exited" ELSE "closed"
             m == [pty[p] EXCEPT !.shell = sh]
  <2>1. /\ pty' = [pty EXCEPT ![p] = m] /\ UNCHANGED <<hand, input, ptys>>
        /\ reader' = reader /\ pty[p].shell \in {"alive", "hungup"}
    BY <1>3 DEF ShellExits, connVars
  <2>2. <<pty[p].shell, sh>> \in {<<"alive", "exited">>, <<"hungup", "closed">>}
    BY <2>1
  <2>3. sh \in {"exited", "closed"}
    OBVIOUS
  <2> HIDE DEF sh
  <2>4. m \in PtyStates
    BY <1>1, <2>3 DEF PtyStates
  <2>5. m.sid = pty[p].sid /\ m.pc = pty[p].pc /\ m.hand = pty[p].hand /\ m.shell = sh
    BY <1>1 DEF PtyStates
  <2> HIDE DEF m
  <2>6. Quiet(m)
    BY <2>2, <2>4, <2>5
  <2> HIDE DEF Quiet
  <2> QED
    BY <1>2, <2>1, <2>6
<1>4. CASE PtyReads(p) \/ PtyReadsEnd(p) \/ PtySends(p) \/ PtyGivesUp(p)
  <2>1. PICK to \in {"read", "data", "exit", "cleanup"} : PtyMoves(p, to)
    BY <1>4 DEF PtyReads, PtyReadsEnd, PtySends, PtyGivesUp
  <2>2. pty[p].pc \notin {"off", "close"}
    BY <1>4 DEF PtyReads, PtyReadsEnd, PtySends, PtyGivesUp
  <2> DEFINE m == [pty[p] EXCEPT !.pc = to]
  <2>3. /\ pty' = [pty EXCEPT ![p] = m] /\ UNCHANGED <<hand, input, ptys>>
        /\ reader' = reader
    BY <2>1 DEF PtyMoves, connVars
  <2>4. m \in PtyStates
    BY <1>1 DEF PtyStates
  <2>5. /\ m.sid = pty[p].sid /\ m.shell = pty[p].shell /\ m.hand = pty[p].hand
        /\ m.pc = to
    BY <1>1 DEF PtyStates
  <2> HIDE DEF m
  <2>6. Quiet(m)
    BY <2>2, <2>4, <2>5
  <2> HIDE DEF Quiet
  <2> QED
    BY <1>2, <2>3, <2>6
<1> QED
  BY <1>3, <1>4

\* Deferred in the goroutine: delete takes an entry out of the registry ...
LEMMA CleanupPtysOK ==
    ASSUME PtysOK, NEW p \in Ptys, PtyCleanup(p)
    PROVE  PtysOK'
<1> DEFINE s == pty[p].sid
           h == ptys[s]
           to == IF h = NoPty THEN "done" ELSE "close"
           m == [pty[p] EXCEPT !.pc = to, !.hand = h]
<1>1. /\ pty[p].pc = "cleanup" /\ ptys' = [ptys EXCEPT ![s] = NoPty]
      /\ pty' = [pty EXCEPT ![p] = m] /\ reader' = reader /\ UNCHANGED <<hand, input>>
  BY DEF PtyCleanup, connVars, PtysOK
<1>2. pty[p] \in PtyStates /\ Known(p)
  BY DEF PtysOK
<1>3. s \in Sids /\ h \in Ptys \cup {NoPty} /\ pty[p].hand = NoPty
  BY <1>1, <1>2 DEF Known, PtysOK
<1>4. to \in {"done", "close"} /\ (to = "close" <=> h # NoPty)
  OBVIOUS
<1>5. /\ ptys' \in [Sids -> Ptys \cup {NoPty}]
      /\ ptys'[s] = NoPty /\ \A x \in Sids : x # s => ptys'[x] = ptys[x]
  BY <1>1, <1>3 DEF PtysOK
<1>6. h = ptys[s]
  OBVIOUS
<1> HIDE DEF s, h, to
<1>7. m \in PtyStates
  BY <1>2, <1>3, <1>4 DEF PtyStates
<1>8. /\ m.sid = pty[p].sid /\ m.shell = pty[p].shell /\ m.pc = to /\ m.hand = h
  BY <1>2 DEF PtyStates
<1> HIDE DEF m
<1>9. /\ pty' \in [Ptys -> PtyStates] /\ pty'[p] = m
      /\ \A q \in Ptys : q # p => pty'[q] = pty[q]
  BY <1>1, <1>7, OwnShell
<1>10. BeingClosed' = BeingClosed \cup ({h} \ {NoPty})
  <2>1. \A q \in Ptys : q # NoPty
    BY AgentConnAssumption
  <2>2. \A q \in Ptys : q \in BeingClosed' <=> q \in BeingClosed \/ q = h
    BY <1>3, <1>8, <1>9, <2>1 DEF BeingClosed
  <2>3. /\ \A q \in BeingClosed' : q \in Ptys
        /\ \A q \in BeingClosed : q \in Ptys
    BY DEF BeingClosed
  <2> QED
    BY <1>3, <2>1, <2>2, <2>3
<1>11. ASSUME NEW q \in Ptys PROVE Wanes(q)
  <2>1. Known(q) /\ q # NoPty
    BY AgentConnAssumption DEF PtysOK
  <2>2. Held(q) => Held(q)'
    BY <1>1, <1>10 DEF Held
  <2>3. ptys[s] = q => Held(q)'
    BY <1>6, <1>10, <2>1 DEF Held
  <2>4. pty[q].shell # "none" => pty[q].sid \in Sids
    BY <2>1 DEF Known
  <2>5. ptys[pty[q].sid] = q /\ pty[q].shell # "none" =>
            ptys'[pty[q].sid] = q \/ Held(q)'
    BY <1>5, <2>3, <2>4
  <2>6. /\ pty'[q].sid = pty[q].sid /\ pty'[q].shell = pty[q].shell
        /\ pty'[q].pc # "off" => pty[q].pc # "off"
        /\ pty'[q].pc = "close" <=> pty'[q].hand # NoPty
    BY <1>1, <1>4, <1>8, <1>9, <2>1 DEF Known
  <2> QED
    BY <2>1, <2>2, <2>5, <2>6 DEF Wanes, Known
<1>12. AtHand'
  <2>1. ASSUME NEW q \in Ptys, Fresh(q) PROVE Fresh(q)'
    <3>1. q # p /\ q # h /\ pty'[q] = pty[q]
      BY <1>1, <1>3, <1>6, <1>9, <2>1 DEF Fresh
    <3> QED
      BY <1>5, <1>10, <2>1, <3>1, AgentConnAssumption DEF Fresh
  <2>2. Registered = {} => Registered' = {}
    BY <1>5, <1>3 DEF Registered
  <2> QED
    BY <1>1, <2>1, <2>2 DEF PtysOK, AtHand, Ending
<1>13. /\ \A x \in Sids : ptys'[x] \in {ptys[x], NoPty}
       /\ \A q \in Ptys : Held(q)' => Held(q) \/ \E x \in Sids : ptys[x] = q
  BY <1>1, <1>3, <1>5, <1>6, <1>10 DEF Held
<1> QED
  BY <1>1, <1>5, <1>9, <1>11, <1>12, <1>13, ShellsWane DEF PtysOK

\* ... and close hangs it up ...
LEMMA HangUpPtysOK ==
    ASSUME PtysOK, NEW p \in Ptys, PtyHangsUp(p)
    PROVE  PtysOK'
<1> DEFINE h == pty[p].hand
           sh == IF pty[h].shell = "alive" THEN "hungup" ELSE "closed"
           m == [pty[h] EXCEPT !.over = TRUE, !.shell = sh]
<1>1. /\ pty[h].shell \in {"alive", "exited"} /\ UNCHANGED <<hand, input, ptys>>
      /\ reader' = reader
      /\ pty' = [pty EXCEPT ![h].over = TRUE,
                            ![h].shell = IF @ = "alive" THEN "hungup" ELSE "closed"]
  BY DEF PtyHangsUp, HangUp, connVars
<1>2. h \in Ptys
  <2>1. pty[p].hand \in Ptys \cup {NoPty}
    BY DEF PtysOK, PtyStates
  <2>2. Known(p)
    BY DEF PtysOK
  <2> QED
    BY <2>1, <2>2 DEF PtyHangsUp, Known
<1>3. pty' = [pty EXCEPT ![h] = m]
  BY <1>1, <1>2 DEF PtysOK
<1>4. sh \in {"hungup", "closed"}
  OBVIOUS
<1>5. h \in BeingClosed
  BY <1>2 DEF BeingClosed
<1> HIDE DEF h, sh
<1>6. pty[h] \in PtyStates /\ Known(h)
  BY <1>2 DEF PtysOK
<1>7. m \in PtyStates
  BY <1>4, <1>6 DEF PtyStates
<1>8. m.sid = pty[h].sid /\ m.pc = pty[h].pc /\ m.hand = pty[h].hand /\ m.shell = sh
  BY <1>6 DEF PtyStates
<1> HIDE DEF m
<1>9. /\ pty' \in [Ptys -> PtyStates] /\ pty'[h] = m
      /\ \A q \in Ptys : q # h => pty'[q] = pty[q]
  BY <1>2, <1>3, <1>7, OwnShell
<1>10. BeingClosed' = BeingClosed /\ Registered' = Registered
  BY <1>1, <1>8, <1>9 DEF BeingClosed, Registered
<1>11. AtHand'
  <2>1. ASSUME NEW q \in Ptys, Fresh(q) PROVE Fresh(q)'
    BY <1>1, <1>5, <1>9, <1>10, <2>1 DEF Fresh
  <2> QED
    BY <1>1, <1>10, <2>1 DEF PtysOK, AtHand, Ending
<1>12. Held(h)
  BY <1>5 DEF Held
<1>13. /\ m.shell = "none" <=> pty[h].shell = "none"
       /\ m.shell \notin {"alive", "exited"}
       /\ m.pc # "off" => pty[h].pc # "off"
       /\ m.pc = "close" <=> pty[h].pc = "close"
  BY <1>1, <1>4, <1>8
<1>14. ptys' = ptys /\ input' = input /\ hand' = hand
  BY <1>1
<1> QED
  BY <1>2, <1>3, <1>7, <1>8, <1>11, <1>12, <1>13, <1>14, ShellChanges

\* ... and has killed it when it returns.
LEMMA ClosedPtysOK ==
    ASSUME PtysOK, NEW p \in Ptys, PtyClosed(p)
    PROVE  PtysOK'
<1> DEFINE h == pty[p].hand
           a == [pty EXCEPT ![h] = [pty[h] EXCEPT !.shell = "closed"]]
<1>1. /\ pty[p].pc = "close" /\ pty[h].shell \in {"hungup", "closed"}
      /\ UNCHANGED <<hand, input, ptys>> /\ reader' = reader
      /\ pty' = [pty EXCEPT ![h].shell = "closed", ![p].pc = "done", ![p].hand = NoPty]
  BY DEF PtyClosed, HungUp, connVars
<1>2. h \in Ptys /\ pty \in [Ptys -> PtyStates]
  <2>1. pty[p].hand \in Ptys \cup {NoPty}
    BY DEF PtysOK, PtyStates
  <2>2. Known(p)
    BY DEF PtysOK
  <2> QED
    BY <2>1, <2>2 DEF PtyClosed, PtysOK, Known
<1>3. pty' = [a EXCEPT ![p] = [a[p] EXCEPT !.pc = "done", !.hand = NoPty]]
  BY <1>1, <1>2
<1>4. h = pty[p].hand
  OBVIOUS
<1> HIDE DEF h
<1>5. /\ a \in [Ptys -> PtyStates]
      /\ \A q \in Ptys : /\ a[q].sid = pty[q].sid /\ a[q].pc = pty[q].pc
                         /\ a[q].hand = pty[q].hand
                         /\ q = h => a[q].shell = "closed"
                         /\ q # h => a[q].shell = pty[q].shell
  <2> DEFINE m == [pty[h] EXCEPT !.shell = "closed"]
  <2>1. pty[h] \in PtyStates
    BY <1>2
  <2>2. m \in PtyStates
    BY <2>1 DEF PtyStates
  <2>3. /\ m.sid = pty[h].sid /\ m.pc = pty[h].pc /\ m.hand = pty[h].hand
        /\ m.shell = "closed"
    BY <2>1 DEF PtyStates
  <2>4. a = [pty EXCEPT ![h] = m]
    OBVIOUS
  <2> HIDE DEF m, a
  <2>5. /\ a \in [Ptys -> PtyStates] /\ a[h] = m
        /\ \A q \in Ptys : q # h => a[q] = pty[q]
    BY <1>2, <2>2, <2>4
  <2> QED
    BY <2>3, <2>5
<1> HIDE DEF a
<1>6. /\ pty' \in [Ptys -> PtyStates]
      /\ \A q \in Ptys : /\ pty'[q].sid = pty[q].sid
                         /\ q = h => pty'[q].shell = "closed"
                         /\ q # h => pty'[q].shell = pty[q].shell
                         /\ q = p => pty'[q].pc = "done" /\ pty'[q].hand = NoPty
                         /\ q # p => pty'[q].pc = pty[q].pc /\ pty'[q].hand = pty[q].hand
  <2> DEFINE m == [a[p] EXCEPT !.pc = "done", !.hand = NoPty]
  <2>1. a[p] \in PtyStates
    BY <1>5
  <2>2. m \in PtyStates
    BY <2>1 DEF PtyStates
  <2>3. m.sid = a[p].sid /\ m.shell = a[p].shell /\ m.pc = "done" /\ m.hand = NoPty
    BY <2>1 DEF PtyStates
  <2>4. pty' = [a EXCEPT ![p] = m]
    BY <1>3
  <2> HIDE DEF m
  <2>5. /\ pty' \in [Ptys -> PtyStates] /\ pty'[p] = m
        /\ \A q \in Ptys : q # p => pty'[q] = a[q]
    BY <1>5, <2>2, <2>4
  <2> QED
    BY <1>5, <2>3, <2>5
<1>7. /\ \A q \in Ptys : q # h /\ q \in BeingClosed => q \in BeingClosed'
      /\ \A q \in Ptys : q \in BeingClosed' => q \in BeingClosed
  <2>1. \A q \in Ptys : q # NoPty
    BY AgentConnAssumption
  <2> QED
    BY <1>4, <1>6, <2>1 DEF BeingClosed
<1>8. h \in BeingClosed
  BY <1>2, <1>4 DEF BeingClosed
<1>9. ASSUME NEW q \in Ptys PROVE Wanes(q)
  <2>1. Known(q)
    BY DEF PtysOK
  <2>2. q # h => (Held(q) => Held(q)')
    BY <1>1, <1>7 DEF Held
  <2> QED
    BY <1>1, <1>6, <2>1, <2>2 DEF Wanes, Known
<1>10. AtHand'
  <2>1. ASSUME NEW q \in Ptys, Fresh(q) PROVE Fresh(q)'
    BY <1>1, <1>6, <1>7, <1>8, <2>1 DEF Fresh
  <2>2. Registered' = Registered
    BY <1>1 DEF Registered
  <2> QED
    BY <1>1, <2>1, <2>2 DEF PtysOK, AtHand, Ending
<1>11. /\ ptys' \in [Sids -> Ptys \cup {NoPty}] /\ hand' \in SUBSET Ptys
       /\ \A q \in Ptys : Held(q)' => Held(q)
  BY <1>1, <1>7 DEF PtysOK, Held
<1> QED
  BY <1>1, <1>6, <1>9, <1>10, <1>11, ShellsWane

LEMMA GoroutinePtysOK ==
    ASSUME PtysOK, NEW p \in Ptys, PtyStep(p)
    PROVE  PtysOK'
<1>1. CASE PtyPanics(p)
  <2>1. UNCHANGED ptyVars /\ reader' = reader
    BY <1>1 DEF PtyPanics, connVars
  <2> QED
    BY <2>1, PtysQuiet
<1> QED
  BY <1>1, ShellPtysOK, CleanupPtysOK, HangUpPtysOK, ClosedPtysOK DEF PtyStep

-----------------------------------------------------------------------------

LEMMA ReaderIInv ==
    ASSUME IInv, ReaderStep
    PROVE  IInv'
<1>1. ConnOK /\ ExecsOK /\ PtysOK
  BY DEF IInv
<1>2. ConnOK'
  <2>1. out' \in 0..OutCap
    <3>1. Push \/ out' = out
      BY DEF ReaderStep, ReaderReplies, ReaderSends, ReaderLeaves, ReaderBadFrame,
         ReaderExec, ReaderExecBusy, TakeExec, ReaderCancel, ReaderCancelPty,
         ReaderPtyData, ReaderInputTaken, ReaderInputFails, RemovePty, ReaderPtyStart,
         ReaderServes, ReaderPuts, ReaderPutRefused, ReaderHangsUp, ReaderClosed,
         CloseAllPtys, CloseOut, ReturnFromRunOnce
    <3> QED
      BY <1>1, <3>1, PushFacts DEF ConnOK
  <2>2. CASE ReaderServes
    <3>1. \A p \in Ptys : ReaderClosed(p) => reader' \in {reader, "send", "read", "closeOut"}
      BY DEF ReaderClosed
    <3>2. reader' \in Readers /\ UNCHANGED <<ws, writer, crashed>>
      BY <1>1, <2>2, <3>1 DEF ReaderServes, ReaderInputFails, RemovePty, ReaderPuts,
         ReaderPutRefused, ReaderHangsUp, ReaderClosed, Readers, ConnOK, connVars
    <3> QED
      BY <1>1, <2>1, <3>2 DEF ConnOK
  <2>3. CASE ~ReaderServes
    <3>1. /\ reader' \in Readers /\ ws' \in {ws, "closed"}
          /\ UNCHANGED <<writer, crashed>>
      BY <1>1, <2>3 DEF ReaderStep, ReaderReplies, ReaderSends, ReaderLeaves,
         ReaderBadFrame, ReaderExec, ReaderExecBusy, TakeExec, ReaderCancel,
         ReaderCancelPty, ReaderPtyData, ReaderInputTaken, RemovePty, ReaderPtyStart,
         CloseAllPtys, CloseOut, ReturnFromRunOnce, Readers, ConnOK, connVars
    <3> QED
      BY <1>1, <2>1, <3>1 DEF ConnOK
  <2> QED
    BY <2>2, <2>3
<1>3. ExecsOK'
  <2>1. CASE \/ ReaderReplies \/ ReaderLeaves \/ ReaderBadFrame
             \/ CloseAllPtys \/ CloseOut \/ ReaderInputTaken \/ ReaderServes
             \/ \E s \in Sids : ReaderCancelPty(s) \/ ReaderPtyData(s)
             \/ \E p \in Ptys, s \in Sids : ReaderPtyStart(p, s)
    <3>1. UNCHANGED <<replyTo, execVars>> /\ (reader' = reader \/ reader # "send")
      BY <2>1 DEF ReaderReplies, ReaderLeaves, ReaderBadFrame, ReaderCancelPty,
         ReaderPtyData, ReaderInputTaken, ReaderInputFails, RemovePty, ReaderPtyStart,
         ReaderServes, ReaderPuts, ReaderPutRefused, ReaderHangsUp, ReaderClosed,
         CloseAllPtys, CloseOut, Reading, connVars
    <3> QED
      BY <1>1, <3>1, ExecsQuiet
  <2> QED
    BY <1>1, <2>1, ReaderSendsExecsOK, TakeExecsOK, CancelExecsOK, ReturnExecsOK
    DEF ReaderStep
<1>4. PtysOK'
  BY <1>1, ReaderPtysOK
<1> QED
  BY <1>2, <1>3, <1>4 DEF IInv

LEMMA WriterIInv ==
    ASSUME IInv, WriterStep
    PROVE  IInv'
<1>1. ConnOK /\ ExecsOK /\ PtysOK
  BY DEF IInv
<1>2. UNCHANGED <<reader, replyTo, execVars, ptyVars, crashed>>
  BY DEF WriterStep, WriterSends, WriterFails, WriterStops, RelayGone, connVars
<1>3. out' \in 0..OutCap
  <2>1. out' = out \/ (out > 0 /\ out' = out - 1)
    BY <1>1 DEF ConnOK, WriterStep, WriterSends, WriterFails, WriterStops, RelayGone
  <2> QED
    BY <1>1, <2>1, AgentConnAssumption DEF ConnOK
<1>4. writer' \in {"run", "done"} /\ ws' \in {"open", "closed"}
  BY <1>1 DEF ConnOK, WriterStep, WriterSends, WriterFails, WriterStops, RelayGone,
     connVars
<1>5. ConnOK'
  BY <1>1, <1>2, <1>3, <1>4 DEF ConnOK
<1>6. ExecsOK' /\ PtysOK'
  BY <1>1, <1>2, ExecsQuiet, PtysQuiet
<1> QED
  BY <1>5, <1>6 DEF IInv

LEMMA ExecIInv ==
    ASSUME IInv, NEW e \in Execs, ExecStep(e)
    PROVE  IInv'
<1>1. ConnOK /\ ExecsOK /\ PtysOK
  BY DEF IInv
<1>2. UNCHANGED <<connVars, ptyVars>> /\ (Push \/ UNCHANGED out)
      /\ (crashed' = TRUE \/ UNCHANGED crashed)
  BY DEF ExecStep, ExecStart, ExecStartFails, ExecAck, ExecWait, ExecStdout,
     ExecStderr, ExecExit, ExecUnwind, ExecPanics, ProcExits, PipeReleased,
     ExecTimeout, ExecMoves
<1>3. crashed' \in BOOLEAN
  BY <1>1, <1>2 DEF ConnOK
<1>4. ConnOK'
  BY <1>1, <1>2, <1>3, ConnQuiet
<1>5. ExecsOK'
  BY <1>1, GoroutineExecsOK, UnwindExecsOK
<1>6. PtysOK'
  <2>1. reader' = reader
    BY <1>2 DEF connVars
  <2> QED
    BY <1>1, <1>2, <2>1, PtysQuiet
<1> QED
  BY <1>4, <1>5, <1>6 DEF IInv

LEMMA PtyIInv ==
    ASSUME IInv, NEW p \in Ptys, PtyStep(p)
    PROVE  IInv'
<1>1. ConnOK /\ ExecsOK /\ PtysOK
  BY DEF IInv
<1>2. UNCHANGED <<connVars, execVars>> /\ (Push \/ UNCHANGED out)
      /\ (crashed' = TRUE \/ UNCHANGED crashed)
  BY DEF PtyStep, ShellExits, PtyReads, PtyReadsEnd, PtySends, PtyGivesUp,
     PtyPanics, PtyCleanup, PtyHangsUp, PtyClosed, PtyMoves
<1>3. crashed' \in BOOLEAN
  BY <1>1, <1>2 DEF ConnOK
<1>4. ConnOK'
  BY <1>1, <1>2, <1>3, ConnQuiet
<1>5. ExecsOK'
  <2>1. UNCHANGED <<replyTo, execVars>> /\ reader' = reader
    BY <1>2 DEF connVars
  <2> QED
    BY <1>1, <2>1, ExecsQuiet
<1>6. PtysOK'
  BY <1>1, GoroutinePtysOK
<1> QED
  BY <1>4, <1>5, <1>6 DEF IInv

LEMMA NextIInv == IInv /\ [Next]_vars => IInv'
<1> SUFFICES ASSUME IInv, [Next]_vars PROVE IInv'
  OBVIOUS
<1>1. CASE Next
  BY <1>1, ReaderIInv, WriterIInv, ExecIInv, PtyIInv DEF Next
<1>2. CASE UNCHANGED vars
  <2>1. /\ UNCHANGED <<reader, replyTo, writer, ws, out, crashed>>
        /\ UNCHANGED execVars /\ UNCHANGED ptyVars
    BY <1>2 DEF vars, execVars, ptyVars
  <2>2. ConnOK'
    BY <2>1 DEF IInv, ConnOK
  <2> QED
    BY <2>1, <2>2, ExecsQuiet, PtysQuiet DEF IInv
<1> QED
  BY <1>1, <1>2

\* The inductive invariant holds of every behaviour.
LEMMA SpecIInv == Spec => []IInv
BY InitIInv, NextIInv, PTL DEF Spec

\* Every variable has its type, out never exceeds its capacity nor the semaphore
\* its own, and no command is answered with two exit frames (exec.go).
THEOREM TypeCorrect == Spec => []TypeOK
<1>1. IInv => TypeOK
  BY DEF IInv, ConnOK, ExecsOK, PtysOK, TypeOK, Readers
<1> QED
  BY <1>1, SpecIInv, PTL

\* The semaphore counts exactly the commands under way, so that no token is
\* lost or returned twice and no more processes run than it has tokens
\* (exec.go, runOnce and the deferred calls of the command's goroutine).
THEOREM ExecsBoundedHolds == Spec => []ExecsBounded
<1>1. IInv => ExecsBounded
  <2> SUFFICES ASSUME IInv PROVE ExecsBounded
    OBVIOUS
  <2> DEFINE alive == {e \in Execs : cmd[e].proc = "alive"}
  <2>1. /\ IsFiniteSet(Underway) /\ sem = Cardinality(Underway)
        /\ sem \in 0..MaxParallelExec
    BY DEF IInv, ExecsOK
  <2>2. alive \in SUBSET Underway
    BY DEF IInv, ExecsOK, Conducted, Underway, Working
  <2>3. IsFiniteSet(alive) /\ Cardinality(alive) <= Cardinality(Underway)
    BY <2>1, <2>2, FS_Subset
  <2>4. Cardinality(alive) <= MaxParallelExec
    <3>1. Cardinality(alive) \in Nat
      BY <2>3, FS_CardinalityType
    <3> QED
      BY <2>1, <2>3, <3>1, AgentConnAssumption
  <2> QED
    BY <2>1, <2>4 DEF ExecsBounded, Underway
<1> QED
  BY <1>1, SpecIInv, PTL

\* A shell that has not been closed is registered under its session or in the
\* hand of whoever took it out to close it (pty.go, delete and close), although
\* the goroutine of another shell may be the one.
THEOREM NoLeakedShellHolds == Spec => []NoLeakedShell
<1>1. IInv => NoLeakedShell
  BY DEF IInv, PtysOK, PtyStates, Known, Held, NoLeakedShell
<1> QED
  BY <1>1, SpecIInv, PTL

\* Past closeAll a shell runs only while the goroutine that took it out of the
\* registry closes it; of the shells nobody closes no more run than the registry
\* takes, and with the reader's at most one more (pty.go, closeAll and put).
THEOREM ShellsDieWithConnectionHolds == Spec => []ShellsDieWithConnection
<1>1. IInv => ShellsDieWithConnection
  <2> SUFFICES ASSUME IInv PROVE ShellsDieWithConnection
    OBVIOUS
  <2> DEFINE kept == Running \ (hand \cup BeingClosed)
             session == [p \in kept |-> pty[p].sid]
             all == kept \cup hand
  <2>1. ASSUME NEW p \in Running, p \notin hand \cup BeingClosed
        PROVE  pty[p].sid \in Registered /\ ptys[pty[p].sid] = p
    <3>1. Known(p) /\ p # NoPty /\ pty[p].shell \in {"alive", "hungup"} /\ ~Held(p)
      BY <2>1, AgentConnAssumption DEF IInv, PtysOK, Running, Held
    <3> QED
      BY <3>1 DEF Known, Registered
  <2>2. session \in Injection(kept, Registered)
    <3>1. session \in [kept -> Registered]
      BY <2>1
    <3>2. IsInjective(session)
      BY <2>1 DEF IsInjective
    <3> QED
      BY <3>1, <3>2 DEF Injection
  <2>3. IsFiniteSet(Registered) /\ Cardinality(Registered) <= MaxParallelPtys
    BY DEF IInv, PtysOK
  <2> HIDE DEF session
  <2>4. IsFiniteSet(kept) /\ Cardinality(kept) <= Cardinality(Registered)
    BY <2>2, <2>3, FS_Injection
  <2>5. Cardinality(kept) \in Nat /\ Cardinality(Registered) \in Nat
    BY <2>3, <2>4, FS_CardinalityType
  <2>6. Cardinality(kept) <= MaxParallelPtys
    BY <2>3, <2>4, <2>5, AgentConnAssumption
  <2>7. IsFiniteSet(all) /\ Cardinality(all) <= MaxParallelPtys + 1
    <3>1. CASE reader = "closing"
      <4>1. /\ Registered = {} /\ IsFiniteSet(hand)
            /\ Cardinality(hand) <= MaxParallelPtys
        BY <3>1 DEF IInv, PtysOK, AtHand
      <4>2. kept = {}
        BY <2>1, <4>1
      <4>3. all = hand
        BY <4>2
      <4>4. Cardinality(hand) \in Nat
        BY <4>1, FS_CardinalityType
      <4> HIDE DEF all
      <4> QED
        BY <4>1, <4>3, <4>4, AgentConnAssumption
    <3>2. CASE hand = {}
      <4>1. all = kept
        BY <3>2
      <4> HIDE DEF all, kept
      <4> QED
        BY <2>4, <2>5, <2>6, <4>1, AgentConnAssumption
    <3>3. ASSUME NEW p \in Ptys, hand = {p}
          PROVE  IsFiniteSet(all) /\ Cardinality(all) <= MaxParallelPtys + 1
      <4>1. all = kept \cup {p} /\ p \notin kept
        BY <3>3
      <4>2. IsFiniteSet(all) /\ Cardinality(all) = Cardinality(kept) + 1
        BY <2>4, <4>1, FS_AddElement
      <4> HIDE DEF all, kept
      <4> QED
        BY <2>5, <2>6, <4>2, AgentConnAssumption
    <3> QED
      BY <3>1, <3>2, <3>3 DEF IInv, PtysOK, AtHand
  <2>8. Cardinality(Running \ BeingClosed) <= MaxParallelPtys + 1
    <3> DEFINE some == Running \ BeingClosed
    <3>1. some \in SUBSET all
      OBVIOUS
    <3> HIDE DEF some, all
    <3>2. IsFiniteSet(some) /\ Cardinality(some) <= Cardinality(all)
      BY <2>7, <3>1, FS_Subset
    <3>3. Cardinality(some) \in Nat /\ Cardinality(all) \in Nat
      BY <2>7, <3>2, FS_CardinalityType
    <3>4. Cardinality(some) <= MaxParallelPtys + 1
      BY <2>7, <3>2, <3>3, AgentConnAssumption
    <3> QED
      BY <3>4 DEF some
  <2>9. ASSUME reader \in {"closeOut", "closeConn", "returned"}
        PROVE  Running \subseteq BeingClosed
    <3>1. hand = {} /\ Registered = {}
      BY <2>9 DEF IInv, PtysOK, AtHand, Ending
    <3> QED
      BY <2>1, <3>1
  <2> QED
    BY <2>6, <2>8, <2>9 DEF ShellsDieWithConnection
<1> QED
  BY <1>1, SpecIInv, PTL
=============================================================================
