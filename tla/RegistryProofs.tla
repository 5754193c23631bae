--------------------------- MODULE RegistryProofs ---------------------------
(***************************************************************************)
(* Proofs that the agent registry is correct for any number of devices,    *)
(* connections and frames and any buffer size.                             *)
(***************************************************************************)
EXTENDS Registry, TLAPS

-----------------------------------------------------------------------------
(* Type correctness *)

\* The initial state of the registry is well typed.
LEMMA InitTyped == Init => TypeOK
  BY RegistryAssumption
     DEF Init, TypeOK, WsStates, HandlerStates, PumpStates, Panics

\* Taking the oldest frame out of one buffer, or leaving all of them alone,
\* keeps the buffers typed and within capacity.
LEMMA PopTyped ==
  ASSUME TypeOK, NEW c \in Conns,
         outbound' = [outbound EXCEPT ![c] = IF @ = <<>> THEN @ ELSE Tail(@)]
  PROVE  /\ outbound' \in [Conns -> Seq(Frames)]
         /\ \A x \in Conns : Len(outbound'[x]) <= BufSize
<1>1. outbound[c] \in Seq(Frames) /\ Len(outbound[c]) <= BufSize
  BY DEF TypeOK
<1> DEFINE s == IF outbound[c] = <<>> THEN outbound[c] ELSE Tail(outbound[c])
<1>2. s \in Seq(Frames) /\ Len(s) <= BufSize
  <2>1. CASE outbound[c] = <<>>
    BY <1>1, <2>1
  <2>2. CASE outbound[c] # <<>>
    <3>1. Tail(outbound[c]) \in Seq(Frames)
      BY <1>1, <2>2
    <3>2. Len(Tail(outbound[c])) = Len(outbound[c]) - 1
      BY <1>1, <2>2
    <3> QED
      BY <1>1, <2>2, <3>1, <3>2, RegistryAssumption
  <2> QED
    BY <2>1, <2>2
<1>3. outbound' = [outbound EXCEPT ![c] = s]
  OBVIOUS
<1> HIDE DEF s
<1> QED
  BY <1>2, <1>3 DEF TypeOK

\* One step of one connection keeps the state well typed.
LEMMA ConnStepTyped ==
  ASSUME TypeOK, NEW c \in Conns, ConnStep(c)
  PROVE  TypeOK'
<1> USE RegistryAssumption
<1>1. CASE Accept(c)
  BY <1>1 DEF Accept, TypeOK, regVars, WsStates, HandlerStates
<1>2. CASE HandshakeTimeout(c)
  BY <1>2 DEF HandshakeTimeout, TypeOK, regVars, WsStates, HandlerStates
<1>3. CASE \E reg \in Claims \cup {NoAgent} : RegisterRejected(c, reg)
  BY <1>3 DEF RegisterRejected, TypeOK, regVars, WsStates, HandlerStates
<1>4. ASSUME NEW reg \in Claims, Register(c, reg) PROVE TypeOK'
  <2>1. reg.device \in Devices
    BY <1>4 DEF Claims
  <2>2. byDev' \in [Devices -> Conns \cup {NoConn}]
    BY <1>4, <2>1 DEF Register, Install, TypeOK
  <2>3. agent' \in [Conns -> Claims \cup {NoAgent}]
    BY <1>4 DEF Register, Install, TypeOK
  <2>4. chan' \in [Conns -> {"nil", "open", "closed"}]
    BY <1>4 DEF Register, Install, TypeOK
  <2>5. ctxDone' \in [Conns -> BOOLEAN]
    BY <1>4 DEF Register, Install, TypeOK
  <2>6. panics' \in SUBSET Panics
    BY <1>4 DEF Register, Install, TypeOK, Panics
  <2>7. handler' \in [Conns -> HandlerStates]
        /\ readPump' \in [Conns -> PumpStates]
        /\ writePump' \in [Conns -> PumpStates]
    BY <1>4 DEF Register, TypeOK, HandlerStates, PumpStates
  <2>8. UNCHANGED <<outbound, ws>>
    BY <1>4 DEF Register
  <2> QED
    BY <2>2, <2>3, <2>4, <2>5, <2>6, <2>7, <2>8 DEF TypeOK
<1>5. CASE PeerGone(c)
  BY <1>5 DEF PeerGone, TypeOK, regVars, WsStates
<1>13. CASE NetworkLost(c)
  BY <1>13 DEF NetworkLost, TypeOK, regVars, WsStates
<1>6. CASE ReadPumpReturn(c)
  BY <1>6 DEF ReadPumpReturn, WsEnds, TypeOK, regVars, WsStates, PumpStates
<1>7. CASE ReadPumpBadFrame(c)
  BY <1>7 DEF ReadPumpBadFrame, TypeOK, regVars, PumpStates
<1>8. CASE WriteFrame(c)
  <2>1. outbound' = [outbound EXCEPT ![c] = IF @ = <<>> THEN @ ELSE Tail(@)]
    BY <1>8 DEF WriteFrame, TypeOK
  <2>2. /\ outbound' \in [Conns -> Seq(Frames)]
        /\ \A x \in Conns : Len(outbound'[x]) <= BufSize
    BY <2>1, PopTyped
  <2>3. UNCHANGED <<byDev, agent, chan, ctxDone, ws, handler, readPump,
                    writePump, panics>>
    BY <1>8 DEF WriteFrame, pumpVars
  <2> QED
    BY <2>2, <2>3 DEF TypeOK
<1>9. CASE WriteFails(c)
  <2>1. /\ outbound' \in [Conns -> Seq(Frames)]
        /\ \A x \in Conns : Len(outbound'[x]) <= BufSize
    <3>1. CASE outbound' = outbound
      BY <3>1 DEF TypeOK
    <3>2. CASE outbound' = [outbound EXCEPT
                               ![c] = IF @ = <<>> THEN @ ELSE Tail(@)]
      BY <3>2, PopTyped
    <3> QED
      BY <1>9, <3>1, <3>2 DEF WriteFails
  <2>2. UNCHANGED <<byDev, agent, chan, ctxDone, handler, readPump, panics>>
    BY <1>9 DEF WriteFails
  <2>3. /\ ws' \in [Conns -> WsStates]
        /\ writePump' \in [Conns -> PumpStates]
    BY <1>9 DEF WriteFails, WsEnds, TypeOK, WsStates, PumpStates
  <2> QED
    BY <2>1, <2>2, <2>3 DEF TypeOK
<1>10. CASE WritePumpReturn(c)
  BY <1>10 DEF WritePumpReturn, TypeOK, regVars, PumpStates
<1>11. CASE PumpReturned(c)
  BY <1>11 DEF PumpReturned, WsEnds, TypeOK, regVars, WsStates, HandlerStates
<1>12. CASE Unregister(c)
  <2>1. UNCHANGED <<agent, outbound, ws, readPump, writePump>>
    BY <1>12 DEF Unregister
  <2>2. /\ handler' \in [Conns -> HandlerStates]
        /\ ctxDone' \in [Conns -> BOOLEAN]
    BY <1>12 DEF Unregister, TypeOK, HandlerStates
  <2>3. /\ byDev' \in [Devices -> Conns \cup {NoConn}]
        /\ chan' \in [Conns -> {"nil", "open", "closed"}]
    BY <1>12 DEF Unregister, TypeOK
  <2>4. panics' \in SUBSET Panics
    BY <1>12 DEF Unregister, TypeOK, Panics
  <2> QED
    BY <2>1, <2>2, <2>3, <2>4 DEF TypeOK
<1> QED
  BY <1>1, <1>2, <1>3, <1>4, <1>5, <1>6, <1>7, <1>8, <1>9, <1>10, <1>11,
     <1>12, <1>13 DEF ConnStep

\* Agent.Send keeps the state well typed and the buffer within capacity.
LEMMA SendTyped ==
  ASSUME TypeOK, NEW c \in Conns, NEW f \in Frames, Send(c, f)
  PROVE  TypeOK'
<1>1. CASE SendQueued(c, f)
  <2>1. outbound[c] \in Seq(Frames) /\ Len(outbound[c]) < BufSize
    BY <1>1 DEF SendQueued, TypeOK
  <2> DEFINE s == Append(outbound[c], f)
  <2>2. s \in Seq(Frames) /\ Len(s) = Len(outbound[c]) + 1
    BY <2>1
  <2>3. Len(s) <= BufSize
    BY <2>1, <2>2, RegistryAssumption
  <2>4. outbound' = [outbound EXCEPT ![c] = s]
    BY <1>1 DEF SendQueued
  <2>5. UNCHANGED <<byDev, agent, chan, ctxDone, ws, handler, readPump,
                    writePump, panics>>
    BY <1>1 DEF SendQueued, pumpVars
  <2> HIDE DEF s
  <2> QED
    BY <2>2, <2>3, <2>4, <2>5 DEF TypeOK
<1>2. CASE SendFull(c)
  BY <1>2 DEF SendFull, vars, TypeOK
<1>3. CASE SendPanics(c)
  BY <1>3 DEF SendPanics, regVars, pumpVars, TypeOK, Panics
<1> QED
  BY <1>1, <1>2, <1>3 DEF Send

\* Every reachable state of the registry is well typed, and no outbound buffer
\* ever holds more than WriteBufSize frames.
THEOREM TypeCorrect == Spec => []TypeOK
<1>1. Init => TypeOK
  BY InitTyped
<1>2. TypeOK /\ [Next]_vars => TypeOK'
  <2> SUFFICES ASSUME TypeOK, [Next]_vars PROVE TypeOK'
    OBVIOUS
  <2>1. CASE Next
    BY <2>1, ConnStepTyped, SendTyped DEF Next
  <2>2. CASE UNCHANGED vars
    BY <2>2 DEF vars, TypeOK
  <2> QED
    BY <2>1, <2>2
<1> QED
  BY <1>1, <1>2, PTL DEF Spec
-----------------------------------------------------------------------------
(* The slot invariant *)

\* A connection has a channel exactly when it has a registered identity, and
\* that identity is the one of its token; it has neither before Register and
\* both while its handler serves or unregisters.
Lifecycle ==
    \A c \in Conns :
        /\ chan[c] = "nil" <=> agent[c] = NoAgent
        /\ agent[c] # NoAgent => agent[c] = ClaimOf[c]
        /\ handler[c] \in {"idle", "handshake"} => agent[c] = NoAgent
        /\ handler[c] \in {"serving", "unregister"} => agent[c] # NoAgent

\* A device maps only to a connection that registered that device, whose
\* handler has not run its deferred Unregister yet.
SlotsHeldByServing ==
    \A d \in Devices : byDev[d] # NoConn =>
        /\ agent[byDev[d]] # NoAgent
        /\ agent[byDev[d]].device = d
        /\ handler[byDev[d]] \in {"serving", "unregister"}

\* The inductive invariant.  OpenIffCurrent alone is not inductive: that a
\* fresh connection is in no slot, and that a slot names the device of its
\* holder, is what makes eviction close the right channel exactly once.
IInv == TypeOK /\ Lifecycle /\ SlotsHeldByServing /\ OpenIffCurrent
        /\ NoDoubleClose

\* The initial state satisfies the inductive invariant.
LEMMA InitIInv == Init => IInv
<1> SUFFICES ASSUME Init PROVE IInv
  OBVIOUS
<1>1. TypeOK
  BY InitTyped
<1>2. Lifecycle /\ SlotsHeldByServing /\ OpenIffCurrent /\ NoDoubleClose
  BY RegistryAssumption DEF Init, Lifecycle, SlotsHeldByServing,
     OpenIffCurrent, NoDoubleClose
<1> QED
  BY <1>1, <1>2 DEF IInv

\* Steps that touch neither the map, the identities, the channels nor the
\* panics, and move no handler into or out of its serving states, preserve it.
LEMMA QuietStep ==
  ASSUME IInv, TypeOK', UNCHANGED <<byDev, agent, chan, panics>>,
         \A x \in Conns : \/ handler'[x] = handler[x]
                          \/ handler[x] = "idle" /\ handler'[x] = "handshake"
                          \/ handler[x] = "handshake" /\ handler'[x] = "done"
                          \/ handler[x] = "serving" /\ handler'[x] = "unregister"
  PROVE  IInv'
<1>1. Lifecycle'
  BY DEF IInv, Lifecycle, TypeOK
<1>2. SlotsHeldByServing'
  <2> SUFFICES ASSUME NEW d \in Devices, byDev[d] # NoConn
               PROVE  /\ agent[byDev[d]] # NoAgent
                      /\ agent[byDev[d]].device = d
                      /\ handler'[byDev[d]] \in {"serving", "unregister"}
    BY DEF SlotsHeldByServing
  <2>1. byDev[d] \in Conns
    BY DEF IInv, TypeOK
  <2>2. /\ agent[byDev[d]] # NoAgent
        /\ agent[byDev[d]].device = d
        /\ handler[byDev[d]] \in {"serving", "unregister"}
    BY DEF IInv, SlotsHeldByServing
  <2> QED
    BY <2>1, <2>2
<1>3. OpenIffCurrent' /\ NoDoubleClose'
  BY DEF IInv, OpenIffCurrent, NoDoubleClose
<1> QED
  BY <1>1, <1>2, <1>3 DEF IInv

\* Register, eviction included, preserves the inductive invariant.
LEMMA RegisterIInv ==
  ASSUME IInv, TypeOK', NEW c \in Conns, NEW reg \in Claims, Register(c, reg)
  PROVE  IInv'
<1> DEFINE prev == byDev[reg.device]
<1>1. /\ reg = ClaimOf[c]
      /\ reg.device \in Devices
      /\ reg # NoAgent
  BY RegistryAssumption DEF Register, Claims
<1>2. /\ handler[c] = "handshake"
      /\ agent' = [agent EXCEPT ![c] = reg]
      /\ byDev' = [byDev EXCEPT ![reg.device] = c]
      /\ chan' = [x \in Conns |-> IF x = c THEN "open"
                                  ELSE IF x = prev THEN "closed"
                                  ELSE chan[x]]
      /\ handler' = [handler EXCEPT ![c] = "serving"]
      /\ panics' = IF prev # NoConn /\ chan[prev] = "closed"
                   THEN panics \cup {"close of closed channel"}
                   ELSE panics
  BY DEF Register, Install
<1>3. agent[c] = NoAgent /\ chan[c] = "nil"
  BY <1>2 DEF IInv, Lifecycle
<1>4. \A d \in Devices : byDev[d] # c
  BY <1>3, RegistryAssumption DEF IInv, SlotsHeldByServing
<1>5. prev # NoConn => /\ prev \in Conns
                       /\ agent[prev] # NoAgent
                       /\ agent[prev].device = reg.device
                       /\ chan[prev] = "open"
                       /\ handler[prev] \in {"serving", "unregister"}
  <2> SUFFICES ASSUME prev # NoConn
               PROVE  /\ prev \in Conns
                      /\ agent[prev] # NoAgent
                      /\ agent[prev].device = reg.device
                      /\ chan[prev] = "open"
                      /\ handler[prev] \in {"serving", "unregister"}
    OBVIOUS
  <2>1. prev \in Conns
    BY <1>1 DEF IInv, TypeOK
  <2>2. /\ agent[prev] # NoAgent
        /\ agent[prev].device = reg.device
        /\ handler[prev] \in {"serving", "unregister"}
    BY <1>1 DEF IInv, SlotsHeldByServing
  <2>3. chan[prev] = "open"
    BY <2>1, <2>2 DEF IInv, OpenIffCurrent
  <2> QED
    BY <2>1, <2>2, <2>3
<1>6. prev # c
  BY <1>1, <1>4
<1> HIDE DEF prev
<1>7. Lifecycle'
  <2> SUFFICES ASSUME NEW x \in Conns
               PROVE  /\ chan'[x] = "nil" <=> agent'[x] = NoAgent
                      /\ agent'[x] # NoAgent => agent'[x] = ClaimOf[x]
                      /\ handler'[x] \in {"idle", "handshake"}
                            => agent'[x] = NoAgent
                      /\ handler'[x] \in {"serving", "unregister"}
                            => agent'[x] # NoAgent
    BY DEF Lifecycle
  <2>1. CASE x = c
    BY <1>1, <1>2, <2>1 DEF IInv, TypeOK
  <2>2. CASE x # c /\ x = prev
    BY <1>2, <1>5, <2>2, RegistryAssumption DEF IInv, TypeOK, Lifecycle
  <2>3. CASE x # c /\ x # prev
    BY <1>2, <2>3 DEF IInv, TypeOK, Lifecycle
  <2> QED
    BY <2>1, <2>2, <2>3
<1>8. SlotsHeldByServing'
  <2> SUFFICES ASSUME NEW d \in Devices, byDev'[d] # NoConn
               PROVE  /\ agent'[byDev'[d]] # NoAgent
                      /\ agent'[byDev'[d]].device = d
                      /\ handler'[byDev'[d]] \in {"serving", "unregister"}
    BY DEF SlotsHeldByServing
  <2>1. CASE d = reg.device
    BY <1>1, <1>2, <2>1 DEF IInv, TypeOK
  <2>2. CASE d # reg.device
    <3>1. byDev'[d] = byDev[d] /\ byDev[d] \in Conns /\ byDev[d] # c
      BY <1>1, <1>2, <1>4, <2>2 DEF IInv, TypeOK
    <3>2. /\ agent[byDev[d]] # NoAgent
          /\ agent[byDev[d]].device = d
          /\ handler[byDev[d]] \in {"serving", "unregister"}
      BY <3>1, RegistryAssumption DEF IInv, SlotsHeldByServing
    <3>3. /\ agent'[byDev[d]] = agent[byDev[d]]
          /\ handler'[byDev[d]] = handler[byDev[d]]
      BY <1>2, <3>1 DEF IInv, TypeOK
    <3> QED
      BY <3>1, <3>2, <3>3
  <2> QED
    BY <2>1, <2>2
<1>9. OpenIffCurrent'
  <2> SUFFICES ASSUME NEW x \in Conns
               PROVE  chan'[x] = "open" <=>
                        agent'[x] # NoAgent /\ byDev'[agent'[x].device] = x
    BY DEF OpenIffCurrent
  <2>1. CASE x = c
    BY <1>1, <1>2, <2>1 DEF IInv, TypeOK
  <2>2. CASE x # c /\ x = prev
    <3>1. prev # NoConn
      BY <2>2, RegistryAssumption
    <3>2. agent'[x].device = reg.device /\ chan'[x] = "closed"
      BY <1>2, <1>5, <2>2, <3>1 DEF IInv, TypeOK
    <3>3. byDev'[reg.device] = c
      BY <1>1, <1>2 DEF IInv, TypeOK
    <3> QED
      BY <2>2, <3>2, <3>3
  <2>3. CASE x # c /\ x # prev
    <3>1. chan'[x] = chan[x] /\ agent'[x] = agent[x]
      BY <1>2, <2>3 DEF IInv, TypeOK
    <3>2. agent[x] # NoAgent => agent[x].device \in Devices
      BY DEF IInv, TypeOK, Claims
    <3>3. agent[x] # NoAgent =>
            (byDev'[agent[x].device] = x <=> byDev[agent[x].device] = x)
      BY <1>1, <1>2, <2>3, <3>2 DEF IInv, TypeOK, prev
    <3> QED
      BY <3>1, <3>3 DEF IInv, OpenIffCurrent
  <2> QED
    BY <2>1, <2>2, <2>3
<1>10. NoDoubleClose'
  BY <1>2, <1>5 DEF IInv, NoDoubleClose
<1> QED
  BY <1>7, <1>8, <1>9, <1>10 DEF IInv

\* Unregister, by the current holder or by an evicted connection, preserves
\* the inductive invariant.
LEMMA UnregisterIInv ==
  ASSUME IInv, TypeOK', NEW c \in Conns, Unregister(c)
  PROVE  IInv'
<1> DEFINE dev == agent[c].device
<1>1. /\ handler[c] = "unregister"
      /\ handler' = [handler EXCEPT ![c] = "done"]
      /\ agent' = agent
  BY DEF Unregister
<1>2. agent[c] # NoAgent /\ dev \in Devices
  BY <1>1 DEF IInv, Lifecycle, TypeOK, Claims
<1>3. CASE byDev[dev] = c
  <2>1. /\ byDev' = [byDev EXCEPT ![dev] = NoConn]
        /\ chan' = [chan EXCEPT ![c] = "closed"]
        /\ panics' = IF chan[c] = "closed"
                     THEN panics \cup {"close of closed channel"} ELSE panics
    BY <1>3 DEF Unregister
  <2>2. chan[c] = "open"
    BY <1>2, <1>3 DEF IInv, OpenIffCurrent
  <2>3. Lifecycle'
    BY <1>1, <1>2, <2>1, <2>2 DEF IInv, Lifecycle, TypeOK
  <2>4. SlotsHeldByServing'
    <3> SUFFICES ASSUME NEW d \in Devices, byDev'[d] # NoConn
                 PROVE  /\ agent[byDev'[d]] # NoAgent
                        /\ agent[byDev'[d]].device = d
                        /\ handler'[byDev'[d]] \in {"serving", "unregister"}
      BY <1>1 DEF SlotsHeldByServing
    <3>1. d # dev /\ byDev'[d] = byDev[d]
      BY <1>2, <2>1 DEF IInv, TypeOK
    <3>2. byDev[d] # c /\ byDev[d] \in Conns
      BY <3>1 DEF IInv, SlotsHeldByServing, TypeOK
    <3> QED
      BY <1>1, <3>1, <3>2 DEF IInv, SlotsHeldByServing, TypeOK
  <2>5. OpenIffCurrent'
    <3> SUFFICES ASSUME NEW x \in Conns
                 PROVE  chan'[x] = "open" <=>
                          agent[x] # NoAgent /\ byDev'[agent[x].device] = x
      BY <1>1 DEF OpenIffCurrent
    <3>1. CASE x = c
      BY <1>2, <2>1, <3>1, RegistryAssumption DEF IInv, TypeOK
    <3>2. CASE x # c
      <4>1. chan'[x] = chan[x]
        BY <2>1, <3>2 DEF IInv, TypeOK
      <4>2. agent[x] # NoAgent => agent[x].device \in Devices
        BY DEF IInv, TypeOK, Claims
      <4>3. agent[x] # NoAgent =>
              (byDev'[agent[x].device] = x <=> byDev[agent[x].device] = x)
        BY <1>2, <1>3, <2>1, <3>2, <4>2, RegistryAssumption DEF IInv, TypeOK
      <4> QED
        BY <4>1, <4>3 DEF IInv, OpenIffCurrent
    <3> QED
      BY <3>1, <3>2
  <2>6. NoDoubleClose'
    BY <2>1, <2>2 DEF IInv, NoDoubleClose
  <2> QED
    BY <2>3, <2>4, <2>5, <2>6 DEF IInv
<1>4. CASE byDev[dev] # c
  <2>1. UNCHANGED <<byDev, chan, panics>>
    BY <1>4 DEF Unregister
  <2>2. Lifecycle'
    BY <1>1, <2>1 DEF IInv, Lifecycle, TypeOK
  <2>3. \A d \in Devices : byDev[d] # c
    BY <1>4, RegistryAssumption DEF IInv, SlotsHeldByServing
  <2>4. SlotsHeldByServing'
    BY <1>1, <2>1, <2>3 DEF IInv, SlotsHeldByServing, TypeOK
  <2>5. OpenIffCurrent' /\ NoDoubleClose'
    BY <1>1, <2>1 DEF IInv, OpenIffCurrent, NoDoubleClose
  <2> QED
    BY <2>2, <2>4, <2>5 DEF IInv
<1> QED
  BY <1>3, <1>4

\* Every step of a connection preserves the inductive invariant.
LEMMA ConnStepIInv ==
  ASSUME IInv, NEW c \in Conns, ConnStep(c)
  PROVE  IInv'
<1>0. TypeOK /\ TypeOK'
  BY ConnStepTyped DEF IInv
<1>1. CASE Accept(c)
  BY <1>0, <1>1, QuietStep DEF Accept, regVars, TypeOK
<1>2. CASE HandshakeTimeout(c)
  BY <1>0, <1>2, QuietStep DEF HandshakeTimeout, regVars, TypeOK
<1>3. CASE \E reg \in Claims \cup {NoAgent} : RegisterRejected(c, reg)
  BY <1>0, <1>3, QuietStep DEF RegisterRejected, regVars, TypeOK
<1>4. CASE \E reg \in Claims : Register(c, reg)
  BY <1>0, <1>4, RegisterIInv
<1>5. CASE PeerGone(c)
  BY <1>0, <1>5, QuietStep DEF PeerGone, regVars
<1>13. CASE NetworkLost(c)
  BY <1>0, <1>13, QuietStep DEF NetworkLost, regVars
<1>6. CASE ReadPumpReturn(c)
  BY <1>0, <1>6, QuietStep DEF ReadPumpReturn, regVars
<1>7. CASE ReadPumpBadFrame(c)
  BY <1>0, <1>7, QuietStep DEF ReadPumpBadFrame, regVars
<1>8. CASE WriteFrame(c)
  BY <1>0, <1>8, QuietStep DEF WriteFrame, pumpVars
<1>9. CASE WriteFails(c)
  BY <1>0, <1>9, QuietStep DEF WriteFails
<1>10. CASE WritePumpReturn(c)
  BY <1>0, <1>10, QuietStep DEF WritePumpReturn, regVars
<1>11. CASE PumpReturned(c)
  BY <1>0, <1>11, QuietStep DEF PumpReturned, regVars, TypeOK
<1>12. CASE Unregister(c)
  BY <1>0, <1>12, UnregisterIInv
<1> QED
  BY <1>1, <1>2, <1>3, <1>4, <1>5, <1>6, <1>7, <1>8, <1>9, <1>10, <1>11,
     <1>12, <1>13 DEF ConnStep

\* Agent.Send preserves the inductive invariant, panicking or not.
LEMMA SendIInv ==
  ASSUME IInv, NEW c \in Conns, NEW f \in Frames, Send(c, f)
  PROVE  IInv'
<1>0. TypeOK'
  BY SendTyped DEF IInv
<1>1. CASE SendQueued(c, f)
  BY <1>0, <1>1, QuietStep DEF SendQueued, pumpVars
<1>2. CASE SendFull(c)
  BY <1>0, <1>2, QuietStep DEF SendFull, vars
<1>3. CASE SendPanics(c)
  <2>1. UNCHANGED <<byDev, agent, chan, handler>>
        /\ panics' = panics \cup {"send on closed channel"}
    BY <1>3 DEF SendPanics, regVars, pumpVars
  <2>2. Lifecycle' /\ SlotsHeldByServing' /\ OpenIffCurrent'
    BY <2>1 DEF IInv, Lifecycle, SlotsHeldByServing, OpenIffCurrent
  <2>3. NoDoubleClose'
    BY <2>1 DEF IInv, NoDoubleClose
  <2> QED
    BY <1>0, <2>2, <2>3 DEF IInv
<1> QED
  BY <1>1, <1>2, <1>3 DEF Send

\* The inductive invariant is an invariant of the registry.
LEMMA IInvInvariant == Spec => []IInv
<1>1. IInv /\ [Next]_vars => IInv'
  <2> SUFFICES ASSUME IInv, [Next]_vars PROVE IInv'
    OBVIOUS
  <2>1. CASE Next
    BY <2>1, ConnStepIInv, SendIInv DEF Next
  <2>2. CASE UNCHANGED vars
    BY <2>2 DEF vars, IInv, TypeOK, Lifecycle, SlotsHeldByServing,
       OpenIffCurrent, NoDoubleClose
  <2> QED
    BY <2>1, <2>2
<1> QED
  BY <1>1, InitIInv, PTL DEF Spec

\* At all times an outbound channel is open exactly while its connection is
\* the current one of its device.
THEOREM OpenIffCurrentHolds == Spec => []OpenIffCurrent
<1>1. IInv => OpenIffCurrent
  BY DEF IInv
<1> QED
  BY <1>1, IInvInvariant, PTL

\* Register and Unregister never close a channel twice.
THEOREM NoDoubleCloseHolds == Spec => []NoDoubleClose
<1>1. IInv => NoDoubleClose
  BY DEF IInv
<1> QED
  BY <1>1, IInvInvariant, PTL

\* A device always maps to a connection with a token for that device, and an
\* organisation's list to connections with tokens of that organisation.
THEOREM IdentityHolds == Spec => []IdentityMatchesToken
<1>1. ASSUME IInv, NEW d \in Devices, byDev[d] # NoConn
      PROVE  agent[byDev[d]] = ClaimOf[byDev[d]] /\ ClaimOf[byDev[d]].device = d
  <2>1. byDev[d] \in Conns
    BY <1>1 DEF IInv, TypeOK
  <2> QED
    BY <1>1, <2>1 DEF IInv, Lifecycle, SlotsHeldByServing
<1>2. ASSUME IInv, NEW o \in Orgs, NEW c \in ListByOrg(o)
      PROVE  ClaimOf[c].org = o
  <2>1. PICK d \in Devices : c \in Conns /\ byDev[d] = c /\ agent[c].org = o
    BY DEF ListByOrg
  <2>2. byDev[d] # NoConn
    BY <2>1, RegistryAssumption
  <2> QED
    BY <1>1, <1>2, <2>1, <2>2
<1>3. IInv => IdentityMatchesToken
  BY <1>1, <1>2 DEF IdentityMatchesToken, Get
<1> QED
  BY <1>3, IInvInvariant, PTL
-----------------------------------------------------------------------------
(* Who may empty a slot *)

\* The map of devices is written by Register and Unregister only.
LEMMA MapWriters ==
  ASSUME NEW c \in Conns, ConnStep(c)
  PROVE  \/ byDev' = byDev
         \/ \E reg \in Claims : Register(c, reg)
         \/ Unregister(c)
BY DEF ConnStep, Accept, HandshakeTimeout, RegisterRejected, PeerGone,
   NetworkLost, ReadPumpReturn, ReadPumpBadFrame, WriteFrame, WriteFails,
   WritePumpReturn, PumpReturned, regVars

\* No step of any other connection, and no Send, empties the slot of a device:
\* only the Unregister of the connection that holds it does.
THEOREM OnlyHolderEmptiesSlotHolds == Spec => OnlyHolderEmptiesSlot
<1> DEFINE Emptied ==
      \A d \in Devices : byDev[d] # NoConn /\ byDev'[d] = NoConn =>
          /\ handler[byDev[d]] = "unregister"
          /\ handler'[byDev[d]] = "done"
<1>1. IInv /\ [Next]_vars => [Emptied]_vars
  <2> SUFFICES ASSUME IInv, Next, NEW d \in Devices,
                      byDev[d] # NoConn, byDev'[d] = NoConn
               PROVE  /\ handler[byDev[d]] = "unregister"
                      /\ handler'[byDev[d]] = "done"
    OBVIOUS
  <2>1. PICK c \in Conns : ConnStep(c) \/ \E f \in Frames : Send(c, f)
    BY DEF Next
  <2>2. byDev' # byDev
    OBVIOUS
  <2>3. ConnStep(c)
    BY <2>1, <2>2 DEF Send, SendQueued, SendFull, SendPanics, regVars, vars
  <2>4. CASE \E reg \in Claims : Register(c, reg)
    <3>1. PICK reg \in Claims : Register(c, reg)
      BY <2>4
    <3>2. byDev' = [byDev EXCEPT ![reg.device] = c]
      BY <3>1 DEF Register, Install
    <3>3. byDev'[d] = c \/ byDev'[d] = byDev[d]
      BY <3>2 DEF IInv, TypeOK
    <3> QED
      BY <3>3, RegistryAssumption
  <2>5. CASE Unregister(c)
    <3>1. byDev[agent[c].device] = c
      BY <2>2, <2>5 DEF Unregister
    <3>2. byDev' = [byDev EXCEPT ![agent[c].device] = NoConn]
      BY <2>5, <3>1 DEF Unregister
    <3>3. d = agent[c].device
      BY <3>2 DEF IInv, TypeOK
    <3> QED
      BY <2>5, <3>1, <3>3 DEF Unregister, IInv, TypeOK
  <2> QED
    BY <2>2, <2>3, <2>4, <2>5, MapWriters
<1> QED
  BY <1>1, IInvInvariant, PTL DEF Spec, OnlyHolderEmptiesSlot

-----------------------------------------------------------------------------
(* The registry implements DeviceSlots *)

\* The set of connections that hold or held a slot, in terms of channels.
Spent == {c \in Conns : chan[c] # "nil"}

\* Every step of a connection is a step of DeviceSlots or leaves it alone.
LEMMA ConnStepRefines ==
  ASSUME IInv, NEW c \in Conns, ConnStep(c)
  PROVE  [Slots!Next]_(Slots!vars)
<1> DEFINE Quiet == UNCHANGED <<byDev, outbound, chan>>
<1>0. ASSUME Quiet PROVE [Slots!Next]_(Slots!vars)
  BY <1>0 DEF Slots!vars
<1>1. CASE \/ Accept(c) \/ HandshakeTimeout(c) \/ PeerGone(c)
           \/ NetworkLost(c) \/ ReadPumpReturn(c) \/ ReadPumpBadFrame(c)
           \/ WritePumpReturn(c) \/ PumpReturned(c)
           \/ \E reg \in Claims \cup {NoAgent} : RegisterRejected(c, reg)
  <2>1. Quiet
    BY <1>1 DEF Accept, HandshakeTimeout, RegisterRejected, PeerGone,
       NetworkLost, ReadPumpReturn, ReadPumpBadFrame, WritePumpReturn, PumpReturned,
       regVars
  <2> QED
    BY <1>0, <2>1
<1>2. ASSUME NEW reg \in Claims, Register(c, reg)
      PROVE  [Slots!Next]_(Slots!vars)
  <2>1. reg.device \in Devices
    BY DEF Claims
  <2>2. chan[c] = "nil"
    BY <1>2 DEF Register, Install, IInv, Lifecycle
  <2>3. byDev[reg.device] # NoConn => chan[byDev[reg.device]] # "nil"
    BY <2>1 DEF IInv, SlotsHeldByServing, Lifecycle, TypeOK
  <2>4. Spent' = Spent \cup {c}
    <3>1. \A x \in Conns : chan'[x] # "nil" <=> chan[x] # "nil" \/ x = c
      <4> SUFFICES ASSUME NEW x \in Conns
                   PROVE  chan'[x] # "nil" <=> chan[x] # "nil" \/ x = c
        OBVIOUS
      <4>1. CASE x = c
        BY <1>2, <4>1 DEF Register, Install
      <4>2. CASE x # c /\ x = byDev[reg.device]
        BY <1>2, <2>3, <4>2, RegistryAssumption DEF Register, Install
      <4>3. CASE x # c /\ x # byDev[reg.device]
        BY <1>2, <4>3 DEF Register, Install
      <4> QED
        BY <4>1, <4>2, <4>3
    <3> QED
      BY <3>1 DEF Spent
  <2>5. Slots!Claim(c, reg.device)
    BY <1>2, <2>2, <2>4 DEF Slots!Claim, Register, Install, Spent
  <2> QED
    BY <2>1, <2>5 DEF Slots!Next
<1>3. CASE WriteFrame(c)
  <2>1. Slots!Take(c)
    BY <1>3 DEF WriteFrame, Slots!Take
  <2> QED
    BY <2>1 DEF Slots!Next
<1>4. CASE WriteFails(c)
  <2>1. UNCHANGED <<byDev, chan>>
    BY <1>4 DEF WriteFails
  <2>2. CASE outbound' = outbound
    BY <1>0, <2>1, <2>2
  <2>3. CASE outbound' = [outbound EXCEPT
                            ![c] = IF @ = <<>> THEN @ ELSE Tail(@)]
    <3>1. CASE outbound[c] = <<>>
      <4>1. outbound' = outbound
        BY <2>3, <3>1 DEF IInv, TypeOK
      <4> QED
        BY <1>0, <2>1, <4>1
    <3>2. CASE outbound[c] # <<>>
      <4>1. outbound' = [outbound EXCEPT ![c] = Tail(@)]
        BY <2>3, <3>2 DEF IInv, TypeOK
      <4>2. Slots!Take(c)
        BY <2>1, <3>2, <4>1 DEF Slots!Take
      <4> QED
        BY <4>2 DEF Slots!Next
    <3> QED
      BY <3>1, <3>2
  <2> QED
    BY <1>4, <2>2, <2>3 DEF WriteFails
<1>5. CASE Unregister(c)
  <2>1. agent[c].device \in Devices
    BY <1>5 DEF Unregister, IInv, Lifecycle, TypeOK, Claims
  <2>2. outbound' = outbound
    BY <1>5 DEF Unregister
  <2>3. CASE byDev[agent[c].device] = c
    <3>1. /\ byDev' = [byDev EXCEPT ![agent[c].device] = NoConn]
          /\ chan' = [chan EXCEPT ![c] = "closed"]
      BY <1>5, <2>3 DEF Unregister
    <3>2. chan[c] # "nil"
      BY <1>5 DEF Unregister, IInv, Lifecycle
    <3>3. Spent' = Spent
      BY <3>1, <3>2 DEF Spent, IInv, TypeOK
    <3>4. Slots!Release(c, agent[c].device)
      BY <2>2, <2>3, <3>1, <3>3 DEF Slots!Release, Spent
    <3> QED
      BY <2>1, <3>4 DEF Slots!Next
  <2>4. CASE byDev[agent[c].device] # c
    <3>1. Quiet
      BY <1>5, <2>2, <2>4 DEF Unregister
    <3> QED
      BY <1>0, <3>1
  <2> QED
    BY <2>3, <2>4
<1> QED
  BY <1>1, <1>2, <1>3, <1>4, <1>5 DEF ConnStep

\* Every Send is a step of DeviceSlots or leaves it alone: a frame is accepted
\* only for the connection that holds the slot at that moment.
LEMMA SendRefines ==
  ASSUME IInv, NEW c \in Conns, NEW f \in Frames, Send(c, f)
  PROVE  [Slots!Next]_(Slots!vars)
<1>1. CASE SendQueued(c, f)
  <2>1. agent[c] # NoAgent /\ byDev[agent[c].device] = c
    BY <1>1 DEF SendQueued, IInv, OpenIffCurrent
  <2>2. agent[c].device \in Devices
    BY <2>1 DEF IInv, TypeOK, Claims
  <2>3. Slots!Post(c, f)
    BY <1>1, <2>1, <2>2 DEF SendQueued, Slots!Post
  <2> QED
    BY <2>3 DEF Slots!Next
<1>2. CASE SendFull(c)
  BY <1>2 DEF SendFull, vars, Slots!vars
<1>3. CASE SendPanics(c)
  BY <1>3 DEF SendPanics, regVars, Slots!vars
<1> QED
  BY <1>1, <1>2, <1>3 DEF Send

\* The registry, with its goroutines, contexts and channels, implements one
\* slot per device with a bounded mailbox that only its holder can be sent to.
THEOREM Refinement == Spec => ImplementsDeviceSlots
<1>1. Init => Slots!Init
  BY DEF Init, Slots!Init
<1>2. IInv /\ [Next]_vars => [Slots!Next]_(Slots!vars)
  <2> SUFFICES ASSUME IInv, [Next]_vars PROVE [Slots!Next]_(Slots!vars)
    OBVIOUS
  <2>1. CASE Next
    BY <2>1, ConnStepRefines, SendRefines DEF Next
  <2>2. CASE UNCHANGED vars
    BY <2>2 DEF vars, Slots!vars
  <2> QED
    BY <2>1, <2>2
<1> QED
  BY <1>1, <1>2, IInvInvariant, PTL DEF Spec, ImplementsDeviceSlots, Slots!Spec
=============================================================================
