------------------------------ MODULE Console ------------------------------
(***************************************************************************)
(* Operator console sessions (internal/server/operator_ws.go, api.go):     *)
(* minting a session token, the handler and the pump goroutine of every    *)
(* /console/ws call, the session router, and the way back from the agent.  *)
(*                                                                         *)
(* The agents' side is the interface of DeviceSlots, which Registry is     *)
(* proved to implement: an *Agent pointer stays valid for its holder after *)
(* the connection lost its slot, and from then on Send panics.             *)
(***************************************************************************)
EXTENDS Naturals, Sequences

CONSTANTS
    Devices,        \* device identifiers
    Conns,          \* agent connections
    ConnDev,        \* ConnDev[c]: the device c registered for
    ConnOrg,        \* ConnOrg[c]: the organisation c registered for
    BufSize,        \* capacity of an agent's outbound channel
    NoConn,         \* no agent
    Sids,           \* session identifiers
    SidDev,         \* SidDev[s]: the device the App requested s for
    SidOrg,         \* SidOrg[s]: the organisation the App requested s for
    Calls,          \* calls of handleOperatorWS
    SidOf,          \* SidOf[k]: the session of the token k presents
    NoCall,         \* no session under this identifier
    ToBrowserCap,   \* capacity of activeSession.toBrowser (64 in the code)
    OperatorKinds   \* what operators send, a subset of Kinds

\* "start" is pty.start, "cancel" a cancel with an empty ExecID, and "data"
\* any other frame an operator may send (exec, pty.data, pty.resize).
Kinds == {"start", "data", "cancel"}
SessionFrames == [kind : Kinds, sid : Sids]

ASSUME ConsoleAssumption ==
    /\ BufSize \in Nat \ {0}
    /\ ToBrowserCap \in Nat \ {0}
    /\ NoConn \notin Conns
    /\ NoCall \notin Calls
    /\ ConnDev \in [Conns -> Devices]
    /\ SidDev \in [Sids -> Devices]
    /\ SidOf \in [Calls -> Sids]
    /\ OperatorKinds \subseteq Kinds

VARIABLES
    owner, spent, mail,  \* the registry, as DeviceSlots
    linkUp,     \* frames still pass between relay and agent on c
    pty,        \* pty[c]: sessions with a shell on the agent behind c
    token,      \* "none", "valid", "expired"
    router,     \* router.sessions
    call,       \* call[k]: the local state of one handleOperatorWS call
    closes,     \* session.close events per session
    up          \* the relay process is alive

agentVars == <<owner, spent, mail, linkUp, pty>>
vars == <<owner, spent, mail, linkUp, pty, token, router, call, closes, up>>

Slots == INSTANCE DeviceSlots WITH Frames <- SessionFrames

\* Why a session ended, as session.close records it.
Reasons == {"none", "ended", "max duration", "idle timeout", "agent gone",
            "agent backpressure", "operator disconnect"}

\* The variables of handleOperatorWS and of its pump goroutine.
CallStates ==
    [pc : {"idle", "looked", "serving", "cancel", "close", "done"},
     agent : Conns \cup {NoConn},                \* the *Agent it holds
     ws : {"none", "open", "gone", "closed"},    \* the operator's websocket
     ctxDone : BOOLEAN,                          \* the session context is over
     closed : BOOLEAN,                           \* activeSession.closed
     toBrowser : Seq(Conns),                     \* frames, by their producer
     pump : {"off", "read", "forward", "done"},
     pending : Kinds \cup {"none"},              \* read, not yet forwarded
     opErr : {"none", "read", "backpressure"},
     reason : Reasons,
     cancel : {"no", "clean", "racing", "dropped", "gone"}]

Init ==
    /\ Slots!Init
    /\ linkUp = [c \in Conns |-> FALSE]
    /\ pty = [c \in Conns |-> {}]
    /\ token = [s \in Sids |-> "none"]
    /\ router = [s \in Sids |-> NoCall]
    /\ call = [k \in Calls |->
                 [pc |-> "idle", agent |-> NoConn, ws |-> "none",
                  ctxDone |-> FALSE, closed |-> FALSE, toBrowser |-> <<>>,
                  pump |-> "off", pending |-> "none", opErr |-> "none",
                  reason |-> "none", cancel |-> "no"]]
    /\ closes = [s \in Sids |-> 0]
    /\ up = TRUE

IsOwner(c) == owner[ConnDev[c]] = c
HasRoom(c) == IsOwner(c) /\ Len(mail[c]) < BufSize

-----------------------------------------------------------------------------
(* Agents come and go *)

\* An agent registers for its device; a previous connection is evicted.
AgentConnects(c) ==
    /\ up
    /\ Slots!Claim(c, ConnDev[c])
    /\ linkUp' = [linkUp EXCEPT ![c] = TRUE]
    /\ UNCHANGED <<pty, token, router, call, closes, up>>

\* The connection breaks; the agent tears down the shells it had for it.
LinkBreaks(c) ==
    /\ up /\ linkUp[c]
    /\ linkUp' = [linkUp EXCEPT ![c] = FALSE]
    /\ pty' = [pty EXCEPT ![c] = {}]
    /\ UNCHANGED <<owner, spent, mail, token, router, call, closes, up>>

\* The relay unregisters a broken connection.
AgentLeaves(c) ==
    /\ up /\ ~linkUp[c]
    /\ Slots!Release(c, ConnDev[c])
    /\ UNCHANGED <<linkUp, pty, token, router, call, closes, up>>

\* The agent receives the oldest frame: pty.start spawns the session's shell,
\* a cancel without an ExecID kills it.
ShellsIgnoringCancel(c, f) ==
    IF f.kind = "start" THEN pty[c] \cup {f.sid} ELSE pty[c]

ShellsAfter(c, f) ==
    CASE f.kind = "start"  -> pty[c] \cup {f.sid}
      [] f.kind = "cancel" -> pty[c] \ {f.sid}
      [] f.kind = "data"   -> pty[c]

AgentTakes(c) ==
    /\ up /\ linkUp[c]
    /\ Slots!Take(c)
    /\ pty' = [pty EXCEPT ![c] = ShellsAfter(c, Head(mail[c]))]
    /\ UNCHANGED <<linkUp, token, router, call, closes, up>>

\* The shell of session s exits on its own.
ShellExits(c, s) ==
    /\ up /\ s \in pty[c]
    /\ pty' = [pty EXCEPT ![c] = @ \ {s}]
    /\ UNCHANGED <<owner, spent, mail, linkUp, token, router, call, closes, up>>

\* A shell produces output and routeAgentResponse hands it to the session, if
\* it is still there: into toBrowser or, when that is full, by closing it.
RouteResponse(c, s) ==
    /\ up /\ linkUp[c] /\ s \in pty[c] /\ router[s] # NoCall
    /\ call' = IF Len(call[router[s]].toBrowser) < ToBrowserCap
               THEN [call EXCEPT ![router[s]].toBrowser = Append(@, c)]
               ELSE [call EXCEPT ![router[s]].closed = TRUE]
    /\ UNCHANGED <<agentVars, token, router, closes, up>>

-----------------------------------------------------------------------------
(* Session tokens *)

\* The device of session s is online, for the organisation of s.
OnlineFor(s) ==
    LET a == owner[SidDev[s]] IN a # NoConn /\ ConnOrg[a] = SidOrg[s]

\* handleIssueSession, which writes session.open.
IssueSession(s) ==
    /\ up /\ token[s] = "none"
    /\ OnlineFor(s)
    /\ token' = [token EXCEPT ![s] = "valid"]
    /\ UNCHANGED <<agentVars, router, call, closes, up>>

\* Five minutes pass.
TokenExpires(s) ==
    /\ up /\ token[s] = "valid"
    /\ token' = [token EXCEPT ![s] = "expired"]
    /\ UNCHANGED <<agentVars, router, call, closes, up>>

-----------------------------------------------------------------------------
(* handleOperatorWS: from the request to the attached session *)

\* VerifySession, Registry.Get and the organisation check.  From here on the
\* call uses this *Agent, whatever happens to the device's slot.
LookupAnyOrg(k) ==
    /\ up /\ call[k].pc = "idle"
    /\ token[SidOf[k]] = "valid" /\ owner[SidDev[SidOf[k]]] # NoConn
    /\ call' = [call EXCEPT ![k].pc = "looked",
                            ![k].agent = owner[SidDev[SidOf[k]]]]
    /\ UNCHANGED <<agentVars, token, router, closes, up>>

Lookup(k) ==
    /\ up /\ call[k].pc = "idle"
    /\ token[SidOf[k]] = "valid" /\ OnlineFor(SidOf[k])
    /\ call' = [call EXCEPT ![k].pc = "looked",
                            ![k].agent = owner[SidDev[SidOf[k]]]]
    /\ UNCHANGED <<agentVars, token, router, closes, up>>

\* The request is refused: bad token, device offline, or other organisation.
LookupRefused(k) ==
    /\ up /\ call[k].pc = "idle"
    /\ ~(token[SidOf[k]] = "valid" /\ OnlineFor(SidOf[k]))
    /\ call' = [call EXCEPT ![k].pc = "done"]
    /\ UNCHANGED <<agentVars, token, router, closes, up>>

\* The websocket is accepted and router.attach succeeds; the pump starts.
Attach(k) ==
    /\ up /\ call[k].pc = "looked"
    /\ router[SidOf[k]] = NoCall
    /\ router' = [router EXCEPT ![SidOf[k]] = k]
    /\ call' = [call EXCEPT ![k].pc = "serving", ![k].ws = "open",
                            ![k].pump = "read", ![k].reason = "ended"]
    /\ UNCHANGED <<agentVars, token, closes, up>>

\* The session is already active: the websocket is closed (policy violation)
\* and nothing else happens, the deferred calls not being installed yet.
AttachRefusedDetaching(k) ==
    /\ up /\ call[k].pc = "looked"
    /\ router[SidOf[k]] # NoCall
    /\ call' = [call EXCEPT ![k].pc = "done", ![k].ws = "closed"]
    /\ router' = [router EXCEPT ![SidOf[k]] = NoCall]
    /\ UNCHANGED <<agentVars, token, closes, up>>

AttachRefused(k) ==
    /\ up /\ call[k].pc = "looked"
    /\ router[SidOf[k]] # NoCall
    /\ call' = [call EXCEPT ![k].pc = "done", ![k].ws = "closed"]
    /\ UNCHANGED <<agentVars, token, router, closes, up>>

-----------------------------------------------------------------------------
(* The operator -> agent pump *)

\* The browser goes away.
OperatorLeaves(k) ==
    /\ up /\ call[k].ws = "open"
    /\ call' = [call EXCEPT ![k].ws = "gone"]
    /\ UNCHANGED <<agentVars, token, router, closes, up>>

\* A frame of a kind that is forwarded is read and audited.  Pings, and frames
\* the filter drops, only reset the idle timer.
PumpReads(k, kind) ==
    /\ up /\ call[k].pump = "read" /\ call[k].ws = "open"
    /\ call' = [call EXCEPT ![k].pump = "forward", ![k].pending = kind]
    /\ UNCHANGED <<agentVars, token, router, closes, up>>

\* The read fails: the socket is gone, or the session context is over.
PumpReportsInPerson(k) ==
    /\ up /\ call[k].pump = "read" /\ call[k].pc = "serving"
    /\ call[k].ws # "open" \/ call[k].ctxDone
    /\ call' = [call EXCEPT ![k].pump = "done", ![k].opErr = "read",
                            ![k].ws = IF @ = "open" THEN "closed" ELSE @]
    /\ UNCHANGED <<agentVars, token, router, closes, up>>

PumpReadFails(k) ==
    /\ up /\ call[k].pump = "read"
    /\ call[k].ws # "open" \/ call[k].ctxDone
    /\ call' = [call EXCEPT ![k].pump = "done", ![k].opErr = "read",
                            ![k].ws = IF @ = "open" THEN "closed" ELSE @]
    /\ UNCHANGED <<agentVars, token, router, closes, up>>

\* a.Send(f) returns true.
PumpForwards(k) ==
    /\ up /\ call[k].pump = "forward"
    /\ Slots!Post(call[k].agent, [kind |-> call[k].pending, sid |-> SidOf[k]])
    /\ call' = [call EXCEPT ![k].pump = "read", ![k].pending = "none"]
    /\ UNCHANGED <<linkUp, pty, token, router, closes, up>>

\* a.Send(f) returns false: the agent does not drain its queue.
PumpBackpressure(k) ==
    /\ up /\ call[k].pump = "forward"
    /\ IsOwner(call[k].agent) /\ ~HasRoom(call[k].agent)
    /\ call' = [call EXCEPT ![k].pump = "done", ![k].pending = "none",
                            ![k].ws = "closed", ![k].opErr = "backpressure"]
    /\ UNCHANGED <<agentVars, token, router, closes, up>>

\* a.Send(f) panics: the agent's channel is closed.  The pump is a bare
\* goroutine, so the panic ends the process.
PumpPanics(k) ==
    /\ up /\ call[k].pump = "forward"
    /\ ~IsOwner(call[k].agent)
    /\ up' = FALSE
    /\ UNCHANGED <<agentVars, token, router, call, closes>>

-----------------------------------------------------------------------------
(* The main loop and the deferred calls *)

\* sessionMaxDuration elapses.
NeverExpires(k) == FALSE /\ UNCHANGED vars

CtxExpires(k) ==
    /\ up /\ call[k].pc = "serving" /\ ~call[k].ctxDone
    /\ call' = [call EXCEPT ![k].ctxDone = TRUE]
    /\ UNCHANGED <<agentVars, token, router, closes, up>>

\* The loop returns and the deferred calls begin.
Leave(k, ws, why, frames) ==
    /\ up /\ call[k].pc = "serving"
    /\ call' = [call EXCEPT ![k].pc = "cancel", ![k].ws = ws,
                            ![k].reason = why, ![k].toBrowser = frames]
    /\ UNCHANGED <<agentVars, token, router, closes, up>>

\* It normally closes the websocket first.
LeaveClosing(k, why) == Leave(k, "closed", why, call[k].toBrowser)

LeaveMaxDuration(k) == call[k].ctxDone /\ LeaveClosing(k, "max duration")

\* sessionIdleTimeout elapses since the last frame read.
LeaveIdle(k) == LeaveClosing(k, "idle timeout")

LeaveClosed(k) == call[k].closed /\ LeaveClosing(k, "agent gone")

LeaveOpErr(k) ==
    /\ call[k].opErr # "none"
    /\ LeaveClosing(k, IF call[k].opErr = "backpressure" THEN "agent backpressure"
                       ELSE "operator disconnect")

\* A frame for the browser is written ...
BrowserWrite(k) ==
    /\ up /\ call[k].pc = "serving" /\ call[k].ws = "open"
    /\ call[k].toBrowser # <<>>
    /\ call' = [call EXCEPT ![k].toBrowser = Tail(@)]
    /\ UNCHANGED <<agentVars, token, router, closes, up>>

\* ... or the write fails, which ends the loop with the initial reason.  The
\* websocket is not closed, and what has arrived on it may still be read.
BrowserWriteFails(k) ==
    /\ call[k].toBrowser # <<>>
    /\ Leave(k, call[k].ws, call[k].reason, Tail(call[k].toBrowser))

\* The pump has a frame in hand, or may read one more.
MayForward(k) ==
    call[k].pump = "forward" \/ (call[k].pump = "read" /\ call[k].ws = "open")

\* The deferred cancel of the context, then the best-effort Cancel to the
\* agent.  A panicking Send is recovered by net/http, and the remaining
\* deferred calls still run.
SendCancel(k) ==
    LET a == call[k].agent
        After(outcome) == [call EXCEPT ![k].pc = "close", ![k].ctxDone = TRUE,
                                       ![k].cancel = outcome]
    IN  /\ up /\ call[k].pc = "cancel"
        /\ \/ /\ Slots!Post(a, [kind |-> "cancel", sid |-> SidOf[k]])
              /\ call' = After(IF MayForward(k) THEN "racing" ELSE "clean")
           \/ /\ ~HasRoom(a)
              /\ call' = After(IF IsOwner(a) THEN "dropped" ELSE "gone")
              /\ UNCHANGED <<owner, spent, mail>>
        /\ UNCHANGED <<linkUp, pty, token, router, closes, up>>

\* session.close is written, then router.detach removes and closes whatever
\* session the identifier maps to.
CloseSession(k) ==
    /\ up /\ call[k].pc = "close"
    /\ closes' = [closes EXCEPT ![SidOf[k]] = @ + 1]
    /\ router' = [router EXCEPT ![SidOf[k]] = NoCall]
    /\ call' = [[call EXCEPT ![k].pc = "done"]
                     EXCEPT ![router[SidOf[k]]].closed = TRUE]
    /\ UNCHANGED <<agentVars, token, up>>

-----------------------------------------------------------------------------

AgentStep(c) ==
    \/ AgentConnects(c) \/ LinkBreaks(c) \/ AgentLeaves(c) \/ AgentTakes(c)
    \/ \E s \in Sids : ShellExits(c, s) \/ RouteResponse(c, s)

HandlerStep(k) ==
    \/ Lookup(k) \/ LookupRefused(k) \/ Attach(k) \/ AttachRefused(k)
    \/ CtxExpires(k) \/ LeaveMaxDuration(k) \/ LeaveIdle(k)
    \/ LeaveClosed(k) \/ LeaveOpErr(k)
    \/ BrowserWrite(k) \/ BrowserWriteFails(k)
    \/ SendCancel(k) \/ CloseSession(k)

PumpStep(k) ==
    \/ \E kind \in OperatorKinds : PumpReads(k, kind)
    \/ PumpReadFails(k) \/ PumpForwards(k) \/ PumpBackpressure(k)
    \/ PumpPanics(k)

Next ==
    \/ \E c \in Conns : AgentStep(c)
    \/ \E s \in Sids : IssueSession(s) \/ TokenExpires(s)
    \/ \E k \in Calls : HandlerStep(k) \/ PumpStep(k) \/ OperatorLeaves(k)

\* The hard cap expires, a goroutine that can run does, a failed read is noticed,
\* and reads with a context that is over do not succeed for ever.  Nothing is
\* assumed of operators, agents or the network.
Fairness ==
    \A k \in Calls :
        /\ WF_vars(CtxExpires(k))
        /\ WF_vars(LeaveMaxDuration(k))
        /\ WF_vars(SendCancel(k))
        /\ WF_vars(CloseSession(k))
        /\ SF_vars(PumpReadFails(k))
        /\ WF_vars(PumpForwards(k) \/ PumpBackpressure(k) \/ PumpPanics(k))

Spec == Init /\ [][Next]_vars
FairSpec == Spec /\ Fairness

-----------------------------------------------------------------------------
(* Properties *)

Attached(k) == call[k].pc \in {"serving", "cancel", "close"}
Queued(c, s) == \E i \in DOMAIN mail[c] : mail[c][i].sid = s

\* Type correctness, with both queues within their capacity.
TypeOK ==
    /\ owner \in [Devices -> Conns \cup {NoConn}]
    /\ spent \in SUBSET Conns
    /\ mail \in [Conns -> Seq(SessionFrames)]
    /\ \A c \in Conns : Len(mail[c]) <= BufSize
    /\ linkUp \in [Conns -> BOOLEAN]
    /\ pty \in [Conns -> SUBSET Sids]
    /\ token \in [Sids -> {"none", "valid", "expired"}]
    /\ router \in [Sids -> Calls \cup {NoCall}]
    /\ call \in [Calls -> CallStates]
    /\ \A k \in Calls : Len(call[k].toBrowser) <= ToBrowserCap
    /\ closes \in [Sids -> Nat]
    /\ up \in BOOLEAN

\* operator_ws.go, "There is exactly ONE operator per session": the router
\* maps a session to the one call that serves it, from attach to detach.  A
\* second call with the same token neither joins the session nor, on its way
\* out, detaches the call that holds it.
OneOperatorPerSession ==
    /\ \A k \in Calls : Attached(k) => router[SidOf[k]] = k
    /\ \A s \in Sids : router[s] # NoCall =>
           SidOf[router[s]] = s /\ Attached(router[s])

\* handleIssueSession and handleOperatorWS check the organisation against the
\* connection of the moment, and the device may since have been registered by
\* another one: no frame of a session is queued for, runs on, or comes back
\* from a device or an organisation other than those its token names.
TenantIsolation ==
    LET Belongs(s, c) == SidDev[s] = ConnDev[c] /\ SidOrg[s] = ConnOrg[c]
    IN  /\ \A c \in Conns : /\ \A i \in DOMAIN mail[c] :
                                   Belongs(mail[c][i].sid, c)
                            /\ \A s \in pty[c] : Belongs(s, c)
        /\ \A k \in Calls : \A i \in DOMAIN call[k].toBrowser :
               Belongs(SidOf[k], call[k].toBrowser[i])

\* A shell that runs on a device belongs to a session that has not yet sent
\* its terminating Cancel, or whose Cancel is still queued, or whose Cancel
\* was lost in a way the code accepts: dropped by a full queue, sent to a
\* connection that was gone, or overtaken by a frame the pump had in hand or,
\* from a websocket left open, could still read.
NoUnaccountedShell ==
    \A c \in Conns : \A s \in pty[c] :
        \E k \in Calls :
            /\ SidOf[k] = s /\ call[k].agent = c /\ call[k].reason # "none"
            /\ call[k].cancel = "clean" => Queued(c, s)

\* Every attached session ends: the four-hour cap alone sees to it, whatever
\* the operator, the agent and the network do.  (A crash ends it too.)
SessionEnds == \A k \in Calls : (call[k].pc = "serving") ~> (call[k].pc = "done" \/ ~up)

\* The pump goroutine of a session never outlives it for good: neither the
\* socket nor the opErr channel can block it for ever.
PumpEnds == \A k \in Calls : (call[k].pump = "read") ~> (call[k].pump = "done" \/ ~up)

-----------------------------------------------------------------------------
(* Statements of the repository that the code does not meet *)

\* registry.go, Send: "Returns false if the agent is gone or the buffer is
\* full".  An agent that disconnects under a session must not take the relay
\* down with it.
RelaySurvivesAgentLoss == up

\* operator_ws.go, "second WS connections with the same token are rejected
\* (one-time use)": two calls never both attach with one token.
TokenUsedOnce ==
    \A k, l \in Calls :
        SidOf[k] = SidOf[l] /\ call[k].reason # "none" /\ call[l].reason # "none" => k = l

\* README.md, "1 active session per device".
OneSessionPerDevice ==
    \A k, l \in Calls :
        /\ call[k].pc = "serving" /\ call[l].pc = "serving"
        /\ SidDev[SidOf[k]] = SidDev[SidOf[l]]
        => k = l

\* operator_ws.go records a session whose closed channel fired as ended by
\* "agent gone", the exit its comment calls "the agent closing the session": it
\* is recorded so only when the agent is gone.
AgentGoneIsTrue ==
    [][\A k \in Calls : call[k].reason # "agent gone" /\ call'[k].reason = "agent gone"
           => ~IsOwner(call[k].agent)]_vars

\* operator_ws.go, "when this session ends, tell the agent to tear down any
\* PTY it may have spawned for this session": an accepted Cancel leaves no
\* shell of an ended session behind.
SessionEndKillsShell ==
    \A c \in Conns : \A s \in pty[c] :
        \E k \in Calls :
            /\ SidOf[k] = s /\ call[k].agent = c /\ call[k].reason # "none"
            /\ call[k].cancel \in {"clean", "racing"} => Queued(c, s)

\* operator_ws.go, "Exactly one session.close per session.open": once a token
\* can no longer be used and no call is under way for it, the trail has one.
OneClosePerOpen ==
    \A s \in Sids :
        /\ token[s] = "expired"
        /\ \A k \in Calls : SidOf[k] = s => call[k].pc \in {"idle", "done"}
        => closes[s] = 1
=============================================================================
