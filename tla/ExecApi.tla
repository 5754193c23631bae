------------------------------ MODULE ExecApi ------------------------------
(***************************************************************************)
(* Server-initiated execution (internal/server/exec_api.go): POST /api/exec *)
(* attaches a session of its own to the router, queues one exec frame for  *)
(* the device's agent and waits for the frames the agent answers with.     *)
(*                                                                         *)
(* The registry is DeviceSlots, as in Console.  The agent's side is the    *)
(* order of frames that AgentConn produces for a command: ack, stdout,     *)
(* stderr, exit, or an exit alone when the command cannot run.  A session  *)
(* belongs to one request and is named by it.                              *)
(***************************************************************************)
EXTENDS Naturals, Sequences, FiniteSets

CONSTANTS
    Device,         \* the device all the requests are for
    Conns,          \* connections of its agent
    ConnOrg,        \* ConnOrg[c]: the organisation c registered for
    BufSize,        \* capacity of an agent's outbound channel
    NoConn,         \* no agent
    Reqs,           \* requests
    ReqOrg,         \* ReqOrg[r]: the organisation named by r
    ToBrowserCap    \* capacity of activeSession.toBrowser (64 in the code)

Devices == {Device}
Requests == [kind : {"exec", "cancel"}, req : Reqs]
Streams == {"stdout", "stderr"}
Answers == Streams \cup {"ack", "exit"}

ASSUME ExecApiAssumption ==
    /\ BufSize \in Nat \ {0}
    /\ ToBrowserCap \in Nat /\ ToBrowserCap >= Cardinality(Answers)
    /\ NoConn \notin Conns

VARIABLES
    owner, spent, mail,  \* the registry, as DeviceSlots
    linkUp,     \* frames still pass between relay and agent on c
    job,        \* job[r]: where the agent is with the command of r
    killed,     \* killed[r]: the agent cancelled it
    sent,       \* sent[r]: the kinds of frames it sent for r
    h           \* h[r]: the local state of handleExec

slotVars == <<owner, spent, mail>>
agentVars == <<owner, spent, mail, linkUp, job, killed, sent>>
vars == <<owner, spent, mail, linkUp, job, killed, sent, h>>

Slots == INSTANCE DeviceSlots WITH Frames <- Requests

\* What one request may have written to the audit log.
Trails == {<<>>, <<"exec.start">>, <<"exec.start", "exec.exit">>}

Handlers ==
    [pc : {"idle", "send", "wait", "cancel", "done"},
     agent : Conns \cup {NoConn},
     attached : BOOLEAN,              \* router.sessions has the session
     toBrowser : Seq(Answers),
     closed : BOOLEAN,                \* activeSession.closed
     output : SUBSET Streams,          \* streams collected so far
     \* The HTTP answer; "aborted": the handler panicked, no answer is sent.
     answer : {"none", "refused", "backpressure", "result", "timed out",
               "aborted"},
     cancel : {"none", "queued", "dropped", "gone"},
     audit : Trails]

Init ==
    /\ Slots!Init
    /\ linkUp = [c \in Conns |-> FALSE]
    /\ job = [r \in Reqs |-> "none"]
    /\ killed = [r \in Reqs |-> FALSE]
    /\ sent = [r \in Reqs |-> {}]
    /\ h = [r \in Reqs |->
              [pc |-> "idle", agent |-> NoConn, attached |-> FALSE,
               toBrowser |-> <<>>, closed |-> FALSE, output |-> {},
               answer |-> "none", cancel |-> "none", audit |-> <<>>]]

IsOwner(c) == owner[Device] = c

-----------------------------------------------------------------------------
(* The agent *)

AgentConnects(c) ==
    /\ Slots!Claim(c, Device)
    /\ linkUp' = [linkUp EXCEPT ![c] = TRUE]
    /\ UNCHANGED <<job, killed, sent, h>>

\* The connection breaks; the agent cancels the commands it ran for it.
LinkBreaks(c) ==
    /\ linkUp[c]
    /\ linkUp' = [linkUp EXCEPT ![c] = FALSE]
    /\ job' = [r \in Reqs |-> IF h[r].agent = c /\ job[r] # "none" THEN "ended"
                              ELSE job[r]]
    /\ UNCHANGED <<slotVars, killed, sent, h>>

AgentLeaves(c) ==
    /\ ~linkUp[c]
    /\ Slots!Release(c, Device)
    /\ UNCHANGED <<linkUp, job, killed, sent, h>>

\* The agent receives the oldest frame.  An exec starts, or cannot run (no
\* slot, no such program) and only its exit is reported; a cancel kills the
\* command, which then reports as usual.
AgentTakes(c) ==
    LET f == Head(mail[c]) IN
    /\ linkUp[c]
    /\ Slots!Take(c)
    /\ \/ /\ f.kind = "exec"
          /\ \E next \in {"ack", "exit"} : job' = [job EXCEPT ![f.req] = next]
          /\ UNCHANGED killed
       \/ /\ f.kind = "cancel"
          /\ killed' = [killed EXCEPT ![f.req] = TRUE]
          /\ UNCHANGED job
    /\ UNCHANGED <<linkUp, sent, h>>

\* The command ends by itself, by its own timeout, or because it was killed.
JobEnds(r) ==
    /\ job[r] = "running"
    /\ job' = [job EXCEPT ![r] = "stdout"]
    /\ UNCHANGED <<slotVars, linkUp, killed, sent, h>>

AfterFrameStreaming(f) ==
    CASE f = "ack" -> "running" [] f = "stdout" -> "stdout"
      [] f = "stderr" -> "exit" [] f = "exit" -> "ended"

\* The order in which runExec reports: an output frame per stream, at the end.
AfterFrame(f) ==
    CASE f = "ack" -> "running" [] f = "stdout" -> "stderr"
      [] f = "stderr" -> "exit" [] f = "exit" -> "ended"

\* The next frame about r reaches the relay, and routeAgentResponse hands it to
\* the session if it is still there: into toBrowser or, when that is full, by
\* closing the session.
RouteResponse(r) ==
    LET s == h[r] IN
    /\ job[r] \in Answers /\ linkUp[s.agent]
    /\ job' = [job EXCEPT ![r] = AfterFrame(job[r])]
    /\ sent' = [sent EXCEPT ![r] = @ \cup {job[r]}]
    /\ h' = IF ~s.attached THEN h
            ELSE IF Len(s.toBrowser) < ToBrowserCap
            THEN [h EXCEPT ![r].toBrowser = Append(@, job[r])]
            ELSE [h EXCEPT ![r].closed = TRUE]
    /\ UNCHANGED <<slotVars, linkUp, killed>>

\* An empty stream has no frame.
SkipStream(r) ==
    /\ job[r] \in Streams /\ linkUp[h[r].agent]
    /\ job' = [job EXCEPT ![r] = AfterFrame(job[r])]
    /\ UNCHANGED <<slotVars, linkUp, killed, sent, h>>

-----------------------------------------------------------------------------
(* handleExec *)

\* The request is verified, the agent looked up, the session attached and
\* exec.start written.  From here on the handler uses this *Agent.
AcceptAnyOrg(r) ==
    /\ h[r].pc = "idle" /\ owner[Device] # NoConn
    /\ h' = [h EXCEPT ![r].pc = "send", ![r].agent = owner[Device],
                      ![r].attached = TRUE, ![r].audit = <<"exec.start">>]
    /\ UNCHANGED agentVars

Accept(r) ==
    /\ h[r].pc = "idle"
    /\ owner[Device] # NoConn /\ ConnOrg[owner[Device]] = ReqOrg[r]
    /\ h' = [h EXCEPT ![r].pc = "send", ![r].agent = owner[Device],
                      ![r].attached = TRUE, ![r].audit = <<"exec.start">>]
    /\ UNCHANGED agentVars

\* The request is refused: not signed, malformed, for an offline device or for
\* another organisation's.
Refuse(r) ==
    /\ h[r].pc = "idle"
    /\ h' = [h EXCEPT ![r].pc = "done", ![r].answer = "refused"]
    /\ UNCHANGED agentVars

\* The handler returns: the deferred detach closes and forgets the session.
Returning(r, answer, events) ==
    [h EXCEPT ![r].pc = "done", ![r].attached = FALSE, ![r].closed = TRUE,
              ![r].answer = answer, ![r].audit = @ \o events]

\* a.Send(exec): queued ...
SendExec(r) ==
    /\ h[r].pc = "send"
    /\ Slots!Post(h[r].agent, [kind |-> "exec", req |-> r])
    /\ h' = [h EXCEPT ![r].pc = "wait"]
    /\ UNCHANGED <<linkUp, job, killed, sent>>

\* ... refused, as the queue is full ...
SendExecFull(r) ==
    /\ h[r].pc = "send" /\ IsOwner(h[r].agent)
    /\ Len(mail[h[r].agent]) = BufSize
    /\ h' = Returning(r, "backpressure", <<>>)
    /\ UNCHANGED agentVars

\* ... or a panic, recovered by net/http, as the agent is gone.
SendExecPanics(r) ==
    /\ h[r].pc = "send" /\ ~IsOwner(h[r].agent)
    /\ h' = Returning(r, "aborted", <<>>)
    /\ UNCHANGED agentVars

\* collectExecResult takes the next frame; an exit ends it.
TakeFrame(r, streams) ==
    LET f == Head(h[r].toBrowser)
        base == IF f = "exit" THEN Returning(r, "result", <<"exec.exit">>) ELSE h
    IN  /\ h[r].pc = "wait" /\ h[r].toBrowser # <<>>
        /\ h' = [base EXCEPT ![r].toBrowser = Tail(@),
                             ![r].output = @ \cup ({f} \cap streams)]
        /\ UNCHANGED agentVars

CollectStdoutOnly(r) == TakeFrame(r, {"stdout"})

Collect(r) == TakeFrame(r, Streams)

\* The command's timeout and the margin elapse, or the caller hangs up.
NoTimeout(r) == FALSE /\ UNCHANGED vars

TimesOut(r) ==
    /\ h[r].pc = "wait"
    /\ h' = [h EXCEPT ![r].pc = "cancel"]
    /\ UNCHANGED agentVars

\* The agent is told to stop, whatever Send returns ...
SendNoCancel(r) ==
    /\ h[r].pc = "cancel" /\ IsOwner(h[r].agent)
    /\ h' = [Returning(r, "timed out", <<"exec.exit">>) EXCEPT ![r].cancel = "queued"]
    /\ UNCHANGED agentVars

SendCancel(r) ==
    /\ h[r].pc = "cancel"
    /\ \/ /\ Slots!Post(h[r].agent, [kind |-> "cancel", req |-> r])
          /\ h' = [Returning(r, "timed out", <<"exec.exit">>) EXCEPT
                      ![r].cancel = "queued"]
       \/ /\ IsOwner(h[r].agent) /\ Len(mail[h[r].agent]) = BufSize
          /\ h' = [Returning(r, "timed out", <<"exec.exit">>) EXCEPT
                      ![r].cancel = "dropped"]
          /\ UNCHANGED <<owner, spent, mail>>
    /\ UNCHANGED <<linkUp, job, killed, sent>>

\* ... unless it panics: no exec.exit, no answer.
SendCancelPanics(r) ==
    /\ h[r].pc = "cancel" /\ ~IsOwner(h[r].agent)
    /\ h' = [Returning(r, "aborted", <<>>) EXCEPT ![r].cancel = "gone"]
    /\ UNCHANGED agentVars

-----------------------------------------------------------------------------

AgentStep(c) ==
    AgentConnects(c) \/ LinkBreaks(c) \/ AgentLeaves(c) \/ AgentTakes(c)

HandlerStep(r) ==
    \/ Accept(r) \/ Refuse(r)
    \/ SendExec(r) \/ SendExecFull(r) \/ SendExecPanics(r)
    \/ Collect(r) \/ TimesOut(r) \/ SendCancel(r) \/ SendCancelPanics(r)

Next ==
    \/ \E c \in Conns : AgentStep(c)
    \/ \E r \in Reqs : HandlerStep(r) \/ JobEnds(r) \/ RouteResponse(r)
                       \/ SkipStream(r)

\* net/http runs the handler to its next wait; the context's timer fires.
\* Nothing is assumed of the agent or the network.
Fairness ==
    \A r \in Reqs :
        /\ WF_vars(SendExec(r) \/ SendExecFull(r) \/ SendExecPanics(r))
        /\ WF_vars(TimesOut(r))
        /\ WF_vars(SendCancel(r) \/ SendCancelPanics(r))

Spec == Init /\ [][Next]_vars
FairSpec == Spec /\ Fairness

-----------------------------------------------------------------------------
(* Properties *)

\* The command of r runs on the device and nothing has been done to stop it.
Running(r) == job[r] \in {"ack", "running"} /\ ~killed[r]

\* Type correctness, with both queues within their capacity.
TypeOK ==
    /\ owner \in [Devices -> Conns \cup {NoConn}]
    /\ spent \in SUBSET Conns
    /\ mail \in [Conns -> Seq(Requests)]
    /\ \A c \in Conns : Len(mail[c]) <= BufSize
    /\ linkUp \in [Conns -> BOOLEAN]
    /\ job \in [Reqs -> Answers \cup {"none", "running", "ended"}]
    /\ killed \in [Reqs -> BOOLEAN]
    /\ sent \in [Reqs -> SUBSET Answers]
    /\ h \in [Reqs -> Handlers]
    /\ \A r \in Reqs : Len(h[r].toBrowser) <= ToBrowserCap

\* collectExecResult also waits for the session to be closed, which it answers
\* with a failed result.  routeAgentResponse closes a session whose channel is
\* full, but a command has one frame per stream, so that never happens to a
\* session that is being waited on, however slow the handler is.
NeverClosedWhileWaiting == \A r \in Reqs : h[r].pc = "wait" => ~h[r].closed

\* A result that reports the command's exit carries all the output the agent
\* sent for it: no exit overtakes the output, no frame is lost before it.
ResultIsComplete ==
    \A r \in Reqs : h[r].answer = "result" => h[r].output = sent[r] \cap Streams

\* exec_api.go, "otherwise the process keeps running on the device with nobody
\* reading its output": once nobody waits for a command, it is killed, or its
\* Cancel is on its way, or the Cancel was lost with the connection or to a
\* full queue (Send's result is ignored).
NoAbandonedProcess ==
    \A r \in Reqs : Running(r) =>
        \/ h[r].pc \in {"wait", "cancel"}
        \/ \E i \in DOMAIN mail[h[r].agent] :
               mail[h[r].agent][i] = [kind |-> "cancel", req |-> r]
        \/ h[r].cancel \in {"dropped", "gone"}

\* No command is queued for a connection of another organisation than the one
\* the request names, though the device may change hands at any time.
ExecStaysInTenant ==
    \A c \in Conns : \A i \in DOMAIN mail[c] : ReqOrg[mail[c][i].req] = ConnOrg[c]

\* exec_api.go, "an unbounded one would pin a connection": every request ends,
\* whatever the agent and the network do.
RequestEnds == \A r \in Reqs : (h[r].pc # "idle") ~> (h[r].pc = "done")

-----------------------------------------------------------------------------
(* Statements of the repository that the code does not meet *)

\* exec_api.go, "handleExec runs one command on one device and returns its
\* result": a request whose command was queued is answered.
ResultReturned ==
    \A r \in Reqs : h[r].pc = "done" /\ h[r].audit # <<>> => h[r].answer # "aborted"
=============================================================================
