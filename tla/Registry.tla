------------------------------ MODULE Registry ------------------------------
(***************************************************************************)
(* The registry of connected agents (internal/registry/registry.go) and    *)
(* the websocket handler that fills it (internal/server/agent_ws.go).      *)
(*                                                                         *)
(* Every element of Conns is one call of handleAgentWS.  It runs three     *)
(* goroutines: the handler, the read pump and the write pump.  All of them *)
(* share the websocket, the context returned by Register and the outbound  *)
(* channel; the registry may cancel the context and close the channel of a *)
(* connection from the handler of another one (eviction).                  *)
(***************************************************************************)
EXTENDS Naturals, Sequences

CONSTANTS
    Devices,    \* device identifiers
    Orgs,       \* organisations
    Conns,      \* calls of handleAgentWS whose token was accepted
    ClaimOf,    \* ClaimOf[c]: the claims of the token c presented
    Frames,     \* frames the relay sends to agents
    BufSize,    \* cfg.WriteBufSize: capacity of an outbound channel
    NoConn,     \* no agent is registered
    NoAgent     \* no register frame was accepted yet

Claims == [device : Devices, org : Orgs]

ASSUME RegistryAssumption ==
    /\ BufSize \in Nat \ {0}
    /\ NoConn \notin Conns
    /\ NoAgent \notin Claims
    /\ ClaimOf \in [Conns -> Claims]

VARIABLES
    byDev,      \* Registry.byDev; NoConn where the map has no entry
    agent,      \* the DeviceID and OrgID of the connection's *Agent
    outbound,   \* buffered content of Agent.outbound
    chan,       \* Agent.outbound: "nil", "open" or "closed"
    ctxDone,    \* the context returned by Register is cancelled
    ws,         \* the websocket: open, silent (the peer is gone and nothing
                \* has told the relay), or how the peer saw it end
    handler,    \* program counter of handleAgentWS
    readPump,   \* program counter of agentReadPump
    writePump,  \* program counter of agentWritePump
    panics      \* channel misuse the Go runtime answered with a panic

regVars == <<byDev, agent, outbound, chan, ctxDone>>
pumpVars == <<ws, handler, readPump, writePump>>
vars == <<byDev, agent, outbound, chan, ctxDone, ws, handler,
          readPump, writePump, panics>>

WsStates == {"none", "open", "silent", "peer", "policy", "normal", "abnormal"}
HandlerStates == {"idle", "handshake", "serving", "unregister", "done"}
PumpStates == {"off", "run", "returned"}
Panics == {"close of closed channel", "send on closed channel"}

Init ==
    /\ byDev = [d \in Devices |-> NoConn]
    /\ agent = [c \in Conns |-> NoAgent]
    /\ outbound = [c \in Conns |-> <<>>]
    /\ chan = [c \in Conns |-> "nil"]
    /\ ctxDone = [c \in Conns |-> FALSE]
    /\ ws = [c \in Conns |-> "none"]
    /\ handler = [c \in Conns |-> "idle"]
    /\ readPump = [c \in Conns |-> "off"]
    /\ writePump = [c \in Conns |-> "off"]
    /\ panics = {}

-----------------------------------------------------------------------------
(* Connection set-up *)

\* The bearer token was verified and the upgrade accepted; the handler now
\* waits for the first frame.
Accept(c) ==
    /\ handler[c] = "idle"
    /\ handler' = [handler EXCEPT ![c] = "handshake"]
    /\ ws' = [ws EXCEPT ![c] = "open"]
    /\ UNCHANGED <<regVars, readPump, writePump, panics>>

\* No frame within wsRegisterTimeout, or the peer left: the read fails and
\* takes the connection down with it.
HandshakeTimeout(c) ==
    /\ handler[c] = "handshake"
    /\ handler' = [handler EXCEPT ![c] = "done"]
    /\ ws' = [ws EXCEPT ![c] = "abnormal"]
    /\ UNCHANGED <<regVars, readPump, writePump, panics>>

\* The first frame is no register frame (reg = NoAgent) or names a device
\* or an organisation other than the token's.
RegisterRejected(c, reg) ==
    /\ handler[c] = "handshake"
    /\ reg # ClaimOf[c]
    /\ handler' = [handler EXCEPT ![c] = "done"]
    /\ ws' = [ws EXCEPT ![c] = "policy"]
    /\ UNCHANGED <<regVars, readPump, writePump, panics>>

\* Registry.Register followed by the start of both pumps.  A previous entry
\* for the device is evicted: its context cancelled, its channel closed.
InstallEvictingNobody(c, reg) ==
    /\ handler[c] = "handshake"
    /\ agent' = [agent EXCEPT ![c] = reg]
    /\ byDev' = [byDev EXCEPT ![reg.device] = c]
    /\ chan' = [chan EXCEPT ![c] = "open"]
    /\ UNCHANGED <<ctxDone, panics>>

Install(c, reg) ==
    LET prev == byDev[reg.device]
    IN  /\ handler[c] = "handshake"
        /\ agent' = [agent EXCEPT ![c] = reg]
        /\ byDev' = [byDev EXCEPT ![reg.device] = c]
        /\ chan' = [x \in Conns |-> IF x = c THEN "open"
                                    ELSE IF x = prev THEN "closed"
                                    ELSE chan[x]]
        /\ ctxDone' = [x \in Conns |-> ctxDone[x] \/ x = prev]
        /\ panics' = IF prev # NoConn /\ chan[prev] = "closed"
                     THEN panics \cup {"close of closed channel"}
                     ELSE panics

Register(c, reg) ==
    /\ reg = ClaimOf[c]
    /\ Install(c, reg)
    /\ handler' = [handler EXCEPT ![c] = "serving"]
    /\ readPump' = [readPump EXCEPT ![c] = "run"]
    /\ writePump' = [writePump EXCEPT ![c] = "run"]
    /\ UNCHANGED <<outbound, ws>>

-----------------------------------------------------------------------------
(* The websocket and its pumps *)

\* The websocket has not ended, as far as the relay can tell.
Usable(c) == ws[c] \in {"open", "silent"}

\* The websocket ends in state how, unless it has ended already.
WsEnds(c, how) == ws' = [ws EXCEPT ![c] = IF Usable(c) THEN how ELSE @]

\* The peer closes the connection ...
PeerGone(c) ==
    /\ ws[c] = "open"
    /\ handler[c] \in {"serving", "unregister"}
    /\ ws' = [ws EXCEPT ![c] = "peer"]
    /\ UNCHANGED <<regVars, handler, readPump, writePump, panics>>

\* ... or disappears without a word: its machine or its network goes down.
NetworkLost(c) ==
    /\ ws[c] = "open"
    /\ handler[c] \in {"serving", "unregister"}
    /\ ws' = [ws EXCEPT ![c] = "silent"]
    /\ UNCHANGED <<regVars, handler, readPump, writePump, panics>>

\* agentReadPump returns because its read failed.  A read whose context is
\* cancelled closes the websocket without a close frame; one from a silent peer
\* waits, without a deadline.
ReadPumpReturn(c) ==
    /\ readPump[c] = "run"
    /\ ctxDone[c] \/ ~Usable(c)
    /\ readPump' = [readPump EXCEPT ![c] = "returned"]
    /\ WsEnds(c, "abnormal")
    /\ UNCHANGED <<regVars, handler, writePump, panics>>

\* agentReadPump returns because a frame did not parse; the socket stays open.
ReadPumpBadFrame(c) ==
    /\ readPump[c] = "run"
    /\ ws[c] = "open"
    /\ readPump' = [readPump EXCEPT ![c] = "returned"]
    /\ UNCHANGED <<regVars, ws, handler, writePump, panics>>

\* agentWritePump writes the oldest frame, if only to the buffers of a silent
\* connection.  A closed channel still hands out what it buffered, and a
\* cancelled context need not win the select.
WriteFrame(c) ==
    /\ writePump[c] = "run"
    /\ Usable(c)
    /\ outbound[c] # <<>>
    /\ outbound' = [outbound EXCEPT ![c] = Tail(@)]
    /\ UNCHANGED <<byDev, agent, chan, ctxDone, pumpVars, panics>>

\* A write of a frame (which is lost) or of a ping fails or takes longer than
\* ten seconds; the websocket is closed under it.
WriteFails(c) ==
    /\ writePump[c] = "run"
    /\ outbound' \in {outbound, [outbound EXCEPT
                         ![c] = IF @ = <<>> THEN @ ELSE Tail(@)]}
    /\ writePump' = [writePump EXCEPT ![c] = "returned"]
    /\ WsEnds(c, "abnormal")
    /\ UNCHANGED <<byDev, agent, chan, ctxDone, handler, readPump, panics>>

\* agentWritePump returns on ctx.Done or on the closed channel, drained.
WritePumpReturn(c) ==
    /\ writePump[c] = "run"
    /\ ctxDone[c] \/ (chan[c] = "closed" /\ outbound[c] = <<>>)
    /\ writePump' = [writePump EXCEPT ![c] = "returned"]
    /\ UNCHANGED <<regVars, ws, handler, readPump, panics>>

\* The write pump of a dead or silent socket notices sooner or later, at a write
\* or, if there is nothing to write, at a ping.
WriteFailsWithoutPing(c) == ws[c] # "open" /\ outbound[c] # <<>> /\ WriteFails(c)

WriteFailsOnDeadSocket(c) == ws[c] # "open" /\ WriteFails(c)

\* The handler waits for the first pump to return and closes the websocket;
\* the connection is still registered while the close handshake runs.
AllPumpsReturned(c) ==
    /\ handler[c] = "serving"
    /\ {readPump[c], writePump[c]} = {"returned"}
    /\ handler' = [handler EXCEPT ![c] = "unregister"]
    /\ WsEnds(c, "normal")
    /\ UNCHANGED <<regVars, readPump, writePump, panics>>

PumpReturned(c) ==
    /\ handler[c] = "serving"
    /\ "returned" \in {readPump[c], writePump[c]}
    /\ handler' = [handler EXCEPT ![c] = "unregister"]
    /\ WsEnds(c, "normal")
    /\ UNCHANGED <<regVars, readPump, writePump, panics>>

\* Registry.Unregister and the handler's deferred cancel.  Only the current
\* entry of the device is removed; an evicted connection removes nothing.
UnregisterAnyway(c) ==
    /\ handler[c] = "unregister"
    /\ handler' = [handler EXCEPT ![c] = "done"]
    /\ ctxDone' = [ctxDone EXCEPT ![c] = TRUE]
    /\ byDev' = [byDev EXCEPT ![agent[c].device] = NoConn]
    /\ chan' = [chan EXCEPT ![c] = "closed"]
    /\ panics' = IF chan[c] = "closed"
                 THEN panics \cup {"close of closed channel"} ELSE panics
    /\ UNCHANGED <<agent, outbound, ws, readPump, writePump>>

Unregister(c) ==
    /\ handler[c] = "unregister"
    /\ handler' = [handler EXCEPT ![c] = "done"]
    /\ ctxDone' = [ctxDone EXCEPT ![c] = TRUE]
    /\ IF byDev[agent[c].device] = c
       THEN /\ byDev' = [byDev EXCEPT ![agent[c].device] = NoConn]
            /\ chan' = [chan EXCEPT ![c] = "closed"]
            /\ panics' = IF chan[c] = "closed"
                         THEN panics \cup {"close of closed channel"}
                         ELSE panics
       ELSE UNCHANGED <<byDev, chan, panics>>
    /\ UNCHANGED <<agent, outbound, ws, readPump, writePump>>

-----------------------------------------------------------------------------
(* Agent.Send, called by whoever once obtained the *Agent from Registry.Get *)

\* There is room: the frame is buffered and Send returns true.
SendQueuedUnbounded(c, f) ==
    /\ chan[c] = "open"
    /\ outbound' = [outbound EXCEPT ![c] = Append(@, f)]
    /\ UNCHANGED <<byDev, agent, chan, ctxDone, pumpVars, panics>>

SendQueued(c, f) ==
    /\ chan[c] = "open"
    /\ Len(outbound[c]) < BufSize
    /\ outbound' = [outbound EXCEPT ![c] = Append(@, f)]
    /\ UNCHANGED <<byDev, agent, chan, ctxDone, pumpVars, panics>>

\* No room: Send returns false.
SendFull(c) ==
    /\ chan[c] = "open"
    /\ Len(outbound[c]) >= BufSize
    /\ UNCHANGED vars

\* A send on a closed channel panics in a select too, default or not.
SendPanics(c) ==
    /\ chan[c] = "closed"
    /\ panics' = panics \cup {"send on closed channel"}
    /\ UNCHANGED <<regVars, pumpVars>>

Send(c, f) == SendQueued(c, f) \/ SendFull(c) \/ SendPanics(c)

\* Registry.Get
Get(d) == byDev[d]

\* Registry.ListByOrg
ListByOrg(o) == {c \in Conns : \E d \in Devices :
                    /\ byDev[d] = c
                    /\ agent[c].org = o}

-----------------------------------------------------------------------------

\* One step of the goroutines of connection c, or of its peer.
ConnStep(c) ==
    \/ Accept(c)
    \/ HandshakeTimeout(c)
    \/ \E reg \in Claims \cup {NoAgent} : RegisterRejected(c, reg)
    \/ \E reg \in Claims : Register(c, reg)
    \/ PeerGone(c)
    \/ NetworkLost(c)
    \/ ReadPumpReturn(c)
    \/ ReadPumpBadFrame(c)
    \/ WriteFrame(c)
    \/ WriteFails(c)
    \/ WritePumpReturn(c)
    \/ PumpReturned(c)
    \/ Unregister(c)

Next == \E c \in Conns : ConnStep(c) \/ \E f \in Frames : Send(c, f)

\* The Go scheduler runs every goroutine that can run, timers fire, a pump with a
\* dead socket finds out at its next read, write or ping, and a write to a peer
\* that no longer answers fails in the end.
Fairness ==
    \A c \in Conns :
        /\ WF_vars(HandshakeTimeout(c))
        /\ WF_vars(ReadPumpReturn(c))
        /\ WF_vars(WritePumpReturn(c))
        /\ WF_vars(WriteFailsOnDeadSocket(c))
        /\ WF_vars(PumpReturned(c))
        /\ WF_vars(Unregister(c))

Spec == Init /\ [][Next]_vars
FairSpec == Spec /\ Fairness

-----------------------------------------------------------------------------
(* Properties *)

\* Type correctness; Send's default branch keeps every buffer within bufSize.
TypeOK ==
    /\ byDev \in [Devices -> Conns \cup {NoConn}]
    /\ agent \in [Conns -> Claims \cup {NoAgent}]
    /\ outbound \in [Conns -> Seq(Frames)]
    /\ \A c \in Conns : Len(outbound[c]) <= BufSize
    /\ chan \in [Conns -> {"nil", "open", "closed"}]
    /\ ctxDone \in [Conns -> BOOLEAN]
    /\ ws \in [Conns -> WsStates]
    /\ handler \in [Conns -> HandlerStates]
    /\ readPump \in [Conns -> PumpStates]
    /\ writePump \in [Conns -> PumpStates]
    /\ panics \in SUBSET Panics

\* registry.go, "At most one connection per deviceID is allowed": an outbound
\* channel is open exactly while its connection is the entry of the device it
\* registered.  Register and Unregister, run by the handlers of different
\* connections in any order, keep the map and the channels together.
OpenIffCurrent ==
    \A c \in Conns : chan[c] = "open" <=>
        agent[c] # NoAgent /\ byDev[agent[c].device] = c

\* Eviction by a newer connection and the evicted handler's own deferred
\* Unregister never both close one channel.  (Register does not defer its
\* unlock: a panic there would leave the registry locked for ever.)
NoDoubleClose == "close of closed channel" \notin panics

\* Whoever looks a device up finds a connection whose token was issued for that
\* device, and an organisation's list holds only connections with its tokens,
\* also while the device moves from one organisation to another.
IdentityMatchesToken ==
    /\ \A d \in Devices : Get(d) # NoConn =>
           agent[Get(d)] = ClaimOf[Get(d)] /\ ClaimOf[Get(d)].device = d
    /\ \A o \in Orgs : \A c \in ListByOrg(o) : ClaimOf[c].org = o

\* A slot is emptied only by the handler of the very connection that holds it:
\* the late Unregister of an evicted connection leaves its successor alone.
OnlyHolderEmptiesSlot ==
    [][\A d \in Devices : byDev[d] # NoConn /\ byDev'[d] = NoConn =>
          /\ handler[byDev[d]] = "unregister"
          /\ handler'[byDev[d]] = "done"]_vars

\* The context returned by Register "is cancelled when the agent is evicted or
\* unregistered": eviction, or the end of either pump for whatever reason, ends
\* all three goroutines of the connection.
OnePumpEndsAll ==
    \A c \in Conns :
        (chan[c] = "closed" \/ "returned" \in {readPump[c], writePump[c]}) ~>
        (handler[c] = "done" /\ readPump[c] = "returned"
                             /\ writePump[c] = "returned")

\* A connection whose socket is gone does not keep its device marked online, not
\* even when the peer said nothing and the relay has nothing to send: the ping of
\* the write pump, whose failure ends the pump, finds out.
DeadSocketFreesSlot ==
    \A c \in Conns : (ws[c] \in {"peer", "silent", "abnormal"}) ~>
        (\A d \in Devices : byDev[d] # c)

\* The registry implements the slots of DeviceSlots.
Slots == INSTANCE DeviceSlots WITH
            owner <- byDev,
            spent <- {c \in Conns : chan[c] # "nil"},
            mail  <- outbound
ImplementsDeviceSlots == Slots!Spec

-----------------------------------------------------------------------------
(* Statements of the repository that the code does not meet *)

\* registry.go, package comment: "a new register evicts the previous one with
\* close code 4409 (conflict)".  Only the cancelled context tells an evicted
\* connection from another while its handler still serves.
EvictedWithConflict ==
    [][\A c \in Conns :
          (ws[c] = "open" /\ ws'[c] # "open" /\ ctxDone[c]) =>
              ws'[c] \in {"peer", "silent", "conflict"}]_vars
=============================================================================
