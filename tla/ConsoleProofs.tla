--------------------------- MODULE ConsoleProofs ---------------------------
(***************************************************************************)
(* Theorems about Console, for any number of devices, connections,         *)
(* sessions and calls, and any capacity of the queues.                     *)
(***************************************************************************)
EXTENDS Console, TLAPS

Belongs(s, c) == SidDev[s] = ConnDev[c] /\ SidOrg[s] = ConnOrg[c]

\* The life of a call: no pump and no reason before it attaches, an agent from
\* the lookup on, and a Cancel that is the last frame of the session when the
\* pump held none and could read none.
Sane(m) ==
    /\ m.pc \in {"idle", "looked"} =>
           m.ws = "none" /\ m.pump = "off" /\ m.reason = "none"
    /\ m.pc \in {"idle", "looked", "serving", "cancel"} => m.cancel = "no"
    /\ m.pc = "looked" \/ m.reason # "none" => m.agent # NoConn
    /\ m.pc \in {"serving", "cancel", "close"} \/ m.pump # "off" => m.reason # "none"
    /\ m.cancel = "clean" =>
           m.pump # "forward" /\ (m.pump = "read" => m.ws # "open")
    /\ m.pump = "forward" => m.pending # "none"

LifeCycle == \A k \in Calls : Sane(call[k])

\* A call holds an agent of the device and the organisation of its session, and
\* a device's slot is held by one of its own connections.
AgentsBelong ==
    /\ \A k \in Calls : call[k].agent # NoConn => Belongs(SidOf[k], call[k].agent)
    /\ \A e \in Devices : owner[e] # NoConn => ConnDev[owner[e]] = e

CancelOf(s) == [kind |-> "cancel", sid |-> s]

\* Some call answers for session s on connection c: it has been attached there,
\* and if it sent a Cancel nothing overtook, that is queued behind position i.
Answered(c, s, i) ==
    \E k \in Calls :
        /\ SidOf[k] = s /\ call[k].agent = c /\ call[k].reason # "none"
        /\ call[k].cancel = "clean" =>
               \E j \in DOMAIN mail[c] : j > i /\ mail[c][j] = CancelOf(s)

\* A call answers for every shell, and for every pty.start still queued.
ShellsAnswered ==
    \A c \in Conns :
        /\ \A s \in pty[c] : Answered(c, s, 0)
        /\ \A i \in DOMAIN mail[c] :
               mail[c][i].kind = "start" => Answered(c, mail[c][i].sid, i)

\* The inductive invariant.
IInv ==
    /\ TypeOK /\ OneOperatorPerSession /\ LifeCycle
    /\ AgentsBelong /\ TenantIsolation /\ ShellsAnswered

-----------------------------------------------------------------------------

\* Nothing has happened yet.
LEMMA InitIInv == Init => IInv
<1> SUFFICES ASSUME Init PROVE IInv
  OBVIOUS
<1> USE ConsoleAssumption DEF Init, Slots!Init
<1>1. call \in [Calls -> CallStates]
  BY DEF CallStates, Reasons
<1>2. /\ owner \in [Devices -> Conns \cup {NoConn}] /\ spent \in SUBSET Conns
      /\ mail \in [Conns -> Seq(SessionFrames)]
      /\ linkUp \in [Conns -> BOOLEAN] /\ pty \in [Conns -> SUBSET Sids]
  OBVIOUS
<1>3. /\ token \in [Sids -> {"none", "valid", "expired"}]
      /\ router \in [Sids -> Calls \cup {NoCall}]
      /\ closes \in [Sids -> Nat] /\ up \in BOOLEAN
  OBVIOUS
<1>4. /\ \A c \in Conns : Len(mail[c]) <= BufSize
      /\ \A k \in Calls : Len(call[k].toBrowser) <= ToBrowserCap
  OBVIOUS
<1>5. TypeOK
  BY <1>1, <1>2, <1>3, <1>4 DEF TypeOK
<1>6. OneOperatorPerSession
  BY DEF OneOperatorPerSession, Attached
<1>7. LifeCycle
  BY DEF LifeCycle, Sane
<1>8. AgentsBelong
  BY DEF AgentsBelong
<1>9. TenantIsolation
  BY DEF TenantIsolation
<1>10. ShellsAnswered
  BY DEF ShellsAnswered
<1> QED
  BY <1>5, <1>6, <1>7, <1>8, <1>9, <1>10 DEF IInv

-----------------------------------------------------------------------------
(* Steps of one call *)

\* A step of call k that gives its local state the value m.
LEMMA OwnStep ==
    ASSUME TypeOK, NEW k \in Calls, NEW m \in CallStates,
           Len(m.toBrowser) <= ToBrowserCap, call' = [call EXCEPT ![k] = m]
    PROVE  /\ call' \in [Calls -> CallStates]
           /\ call'[k] = m
           /\ \A q \in Calls : q # k => call'[q] = call[q]
           /\ \A q \in Calls : Len(call'[q].toBrowser) <= ToBrowserCap
BY DEF TypeOK

\* With the local state m, call k is where a call can be, with an agent and with
\* frames of its tenant; it still answers for the shells it answered for, and
\* its Cancel has not been sent just now.
InRole(k, m) ==
    /\ m \in CallStates /\ Len(m.toBrowser) <= ToBrowserCap /\ Sane(m)
    /\ m.agent # NoConn => Belongs(SidOf[k], m.agent)
    /\ call[k].reason # "none" => m.agent = call[k].agent /\ m.reason # "none"
    /\ m.cancel = "clean" => call[k].cancel = "clean"
    /\ \A i \in DOMAIN m.toBrowser : Belongs(SidOf[k], m.toBrowser[i])

\* A step of call k that sends nothing to its agent.
LEMMA CallStep ==
    ASSUME IInv, NEW k \in Calls, NEW m, call' = [call EXCEPT ![k] = m],
           InRole(k, m), UNCHANGED <<agentVars, token>>,
           router' \in [Sids -> Calls \cup {NoCall}],
           closes' \in [Sids -> Nat], up' \in BOOLEAN, OneOperatorPerSession'
    PROVE  IInv'
<1>1. /\ TypeOK /\ OneOperatorPerSession /\ LifeCycle
      /\ AgentsBelong /\ TenantIsolation /\ ShellsAnswered
  BY DEF IInv
<1>2. /\ call' \in [Calls -> CallStates] /\ call'[k] = m
      /\ \A q \in Calls : q # k => call'[q] = call[q]
      /\ \A q \in Calls : Len(call'[q].toBrowser) <= ToBrowserCap
  BY <1>1, OwnStep DEF InRole
<1>3. TypeOK'
  BY <1>1, <1>2 DEF TypeOK, agentVars
<1>4. LifeCycle'
  BY <1>1, <1>2 DEF LifeCycle, InRole
<1>5. AgentsBelong'
  BY <1>1, <1>2 DEF AgentsBelong, InRole, Belongs, agentVars
<1>6. TenantIsolation'
  BY <1>1, <1>2 DEF TenantIsolation, InRole, Belongs, agentVars
<1>7. ASSUME NEW c, NEW s, NEW i, Answered(c, s, i)
      PROVE  Answered(c, s, i)'
  <2>1. PICK q \in Calls :
            /\ SidOf[q] = s /\ call[q].agent = c /\ call[q].reason # "none"
            /\ call[q].cancel = "clean" =>
                   \E j \in DOMAIN mail[c] : j > i /\ mail[c][j] = CancelOf(s)
    BY <1>7 DEF Answered
  <2>2. /\ call'[q].agent = c /\ call'[q].reason # "none"
        /\ call'[q].cancel = "clean" => call[q].cancel = "clean"
    BY <1>2, <2>1 DEF InRole
  <2> QED
    BY <2>1, <2>2 DEF Answered, agentVars
<1>8. ShellsAnswered'
  BY <1>1, <1>7 DEF ShellsAnswered, agentVars
<1> QED
  BY <1>3, <1>4, <1>5, <1>6, <1>8 DEF IInv

\* A step that neither attaches nor detaches the call.
LEMMA QuietStep ==
    ASSUME IInv, NEW k \in Calls, NEW m, call' = [call EXCEPT ![k] = m],
           InRole(k, m), UNCHANGED <<agentVars, token, router, closes, up>>,
           m.pc \in {"serving", "cancel", "close"} <=> Attached(k)
    PROVE  IInv'
<1>1. TypeOK /\ OneOperatorPerSession
  BY DEF IInv
<1>2. /\ call'[k] = m
      /\ \A q \in Calls : q # k => call'[q] = call[q]
  BY <1>1, OwnStep DEF InRole
<1>3. \A q \in Calls : Attached(q)' <=> Attached(q)
  BY <1>2 DEF Attached
<1>4. OneOperatorPerSession'
  BY <1>1, <1>3, ConsoleAssumption DEF OneOperatorPerSession, TypeOK
<1>5. /\ router' \in [Sids -> Calls \cup {NoCall}]
      /\ closes' \in [Sids -> Nat] /\ up' \in BOOLEAN
  BY <1>1 DEF TypeOK
<1> QED
  BY <1>4, <1>5, CallStep

\* What the invariant says of one call.
LEMMA CallFacts ==
    ASSUME IInv, NEW k \in Calls
    PROVE  InRole(k, call[k]) /\ SidOf[k] \in Sids
BY ConsoleAssumption
   DEF IInv, TypeOK, LifeCycle, AgentsBelong, TenantIsolation, InRole, Belongs

\* The pump, as long as it sends nothing, and the operator.
LEMMA PumpIInv ==
    ASSUME IInv, NEW k \in Calls,
           \/ \E kind \in OperatorKinds : PumpReads(k, kind)
           \/ PumpReadFails(k) \/ PumpBackpressure(k) \/ OperatorLeaves(k)
    PROVE  IInv'
<1>1. InRole(k, call[k])
  BY CallFacts
<1>2. call[k] \in CallStates
  BY <1>1 DEF InRole
<1>3. ASSUME NEW kind \in OperatorKinds, PumpReads(k, kind) PROVE IInv'
  <2> DEFINE m == [call[k] EXCEPT !.pump = "forward", !.pending = kind]
  <2>1. kind \in Kinds /\ kind # "none"
    BY ConsoleAssumption DEF Kinds
  <2>2. InRole(k, m) /\ (m.pc \in {"serving", "cancel", "close"} <=> Attached(k))
    BY <1>1, <1>3, <2>1 DEF PumpReads, InRole, Sane, CallStates, Attached
  <2>3. call' = [call EXCEPT ![k] = m]
    BY <1>3 DEF PumpReads
  <2> HIDE DEF m
  <2> QED
    BY <1>3, <2>2, <2>3, QuietStep DEF PumpReads
<1>4. CASE PumpReadFails(k)
  <2> DEFINE w == IF call[k].ws = "open" THEN "closed" ELSE call[k].ws
             m == [call[k] EXCEPT !.pump = "done", !.opErr = "read", !.ws = w]
  <2>1. call[k].pump = "read"
    BY <1>4 DEF PumpReadFails
  <2>2. call' = [call EXCEPT ![k] = m]
    BY <1>4 DEF PumpReadFails
  <2>3. w \in {"none", "gone", "closed"}
    BY <1>2 DEF CallStates
  <2> HIDE DEF w
  <2>4. m \in CallStates
    BY <1>2, <2>3 DEF CallStates
  <2>5. /\ m.pc = call[k].pc /\ m.agent = call[k].agent
        /\ m.ws # "open" /\ m.pump = "done"
        /\ m.reason = call[k].reason /\ m.cancel = call[k].cancel
        /\ m.toBrowser = call[k].toBrowser
    BY <1>2, <2>3 DEF CallStates
  <2> HIDE DEF m
  <2>6. InRole(k, m) /\ (m.pc \in {"serving", "cancel", "close"} <=> Attached(k))
    BY <1>1, <2>1, <2>4, <2>5 DEF InRole, Sane, Attached
  <2> QED
    BY <1>4, <2>2, <2>6, QuietStep DEF PumpReadFails
<1>5. CASE PumpBackpressure(k)
  <2> DEFINE m == [call[k] EXCEPT !.pump = "done", !.pending = "none",
                               !.ws = "closed", !.opErr = "backpressure"]
  <2>1. call[k].pump = "forward"
    BY <1>5 DEF PumpBackpressure
  <2>2. call' = [call EXCEPT ![k] = m]
    BY <1>5 DEF PumpBackpressure
  <2>3. m \in CallStates
    BY <1>2 DEF CallStates
  <2>4. /\ m.pc = call[k].pc /\ m.agent = call[k].agent
        /\ m.ws = "closed" /\ m.pump = "done"
        /\ m.pending = "none" /\ m.reason = call[k].reason
        /\ m.cancel = call[k].cancel /\ m.toBrowser = call[k].toBrowser
    BY <1>2 DEF CallStates
  <2> HIDE DEF m
  <2>5. InRole(k, m) /\ (m.pc \in {"serving", "cancel", "close"} <=> Attached(k))
    BY <1>1, <2>1, <2>3, <2>4 DEF InRole, Sane, Attached
  <2> QED
    BY <1>5, <2>2, <2>5, QuietStep DEF PumpBackpressure
<1>6. CASE OperatorLeaves(k)
  <2> DEFINE m == [call[k] EXCEPT !.ws = "gone"]
  <2>1. call[k].ws = "open"
    BY <1>6 DEF OperatorLeaves
  <2>2. call' = [call EXCEPT ![k] = m]
    BY <1>6 DEF OperatorLeaves
  <2>3. m \in CallStates
    BY <1>2 DEF CallStates
  <2>4. /\ m.pc = call[k].pc /\ m.agent = call[k].agent
        /\ m.ws = "gone" /\ m.pump = call[k].pump
        /\ m.pending = call[k].pending /\ m.reason = call[k].reason
        /\ m.cancel = call[k].cancel /\ m.toBrowser = call[k].toBrowser
    BY <1>2 DEF CallStates
  <2> HIDE DEF m
  <2>5. InRole(k, m) /\ (m.pc \in {"serving", "cancel", "close"} <=> Attached(k))
    BY <1>1, <2>1, <2>3, <2>4 DEF InRole, Sane, Attached
  <2> QED
    BY <1>6, <2>2, <2>5, QuietStep DEF OperatorLeaves
<1> QED
  BY <1>3, <1>4, <1>5, <1>6

\* The loop returns, with what is left of the frames for the browser.
LEMMA LeaveIInv ==
    ASSUME IInv, NEW k \in Calls, NEW frames, NEW w \in {"closed", call[k].ws},
           NEW why \in Reasons \ {"none"},
           frames \in Seq(Conns), Len(frames) <= ToBrowserCap,
           \A i \in DOMAIN frames : Belongs(SidOf[k], frames[i]),
           Leave(k, w, why, frames)
    PROVE  IInv'
<1> DEFINE m == [call[k] EXCEPT !.pc = "cancel", !.ws = w,
                                !.reason = why, !.toBrowser = frames]
<1>1. InRole(k, call[k])
  BY CallFacts
<1>2. call[k] \in CallStates
  BY <1>1 DEF InRole
<1>3. call[k].pc = "serving"
  BY DEF Leave
<1>4. call' = [call EXCEPT ![k] = m]
  BY DEF Leave
<1>5. m \in CallStates
  BY <1>2 DEF CallStates
<1>6. /\ m.pc = "cancel" /\ m.agent = call[k].agent
      /\ m.pump = call[k].pump /\ m.pending = call[k].pending
      /\ m.reason = why /\ m.cancel = call[k].cancel /\ m.toBrowser = frames
  BY <1>2 DEF CallStates
<1> HIDE DEF m
<1>7. InRole(k, m) /\ (m.pc \in {"serving", "cancel", "close"} <=> Attached(k))
  BY <1>1, <1>3, <1>5, <1>6 DEF InRole, Sane, Attached
<1> QED
  BY <1>4, <1>7, QuietStep DEF Leave

\* What is left once the oldest frame is written.
LEMMA TailFacts ==
    ASSUME NEW S, NEW q \in Seq(S), q # <<>>
    PROVE  /\ Tail(q) \in Seq(S) /\ Len(Tail(q)) = Len(q) - 1
           /\ \A i \in DOMAIN Tail(q) : i + 1 \in DOMAIN q /\ Tail(q)[i] = q[i + 1]
OBVIOUS

\* The handler, where it neither attaches, detaches, nor sends.
LEMMA HandlerIInv ==
    ASSUME IInv, NEW k \in Calls,
           \/ Lookup(k) \/ LookupRefused(k) \/ AttachRefused(k) \/ CtxExpires(k)
           \/ LeaveMaxDuration(k) \/ LeaveIdle(k) \/ LeaveClosed(k)
           \/ LeaveOpErr(k) \/ BrowserWrite(k) \/ BrowserWriteFails(k)
    PROVE  IInv'
<1>1. InRole(k, call[k])
  BY CallFacts
<1>2. /\ call[k] \in CallStates /\ call[k].toBrowser \in Seq(Conns)
      /\ Len(call[k].toBrowser) <= ToBrowserCap
      /\ \A i \in DOMAIN call[k].toBrowser : Belongs(SidOf[k], call[k].toBrowser[i])
  BY <1>1 DEF InRole, CallStates
<1>3. CASE Lookup(k)
  <2> DEFINE a == owner[SidDev[SidOf[k]]]
             m == [call[k] EXCEPT !.pc = "looked", !.agent = a]
  <2>1. call[k].pc = "idle" /\ a # NoConn /\ ConnOrg[a] = SidOrg[SidOf[k]]
    BY <1>3 DEF Lookup, OnlineFor
  <2>2. SidDev[SidOf[k]] \in Devices
    BY ConsoleAssumption
  <2>3. a \in Conns /\ Belongs(SidOf[k], a)
    BY <2>1, <2>2 DEF IInv, TypeOK, AgentsBelong, Belongs
  <2>4. call' = [call EXCEPT ![k] = m]
    BY <1>3 DEF Lookup
  <2> HIDE DEF a
  <2>5. m \in CallStates
    BY <1>2, <2>3 DEF CallStates
  <2>6. /\ m.pc = "looked" /\ m.agent = a /\ m.ws = call[k].ws
        /\ m.pump = call[k].pump /\ m.pending = call[k].pending
        /\ m.reason = call[k].reason /\ m.cancel = call[k].cancel
        /\ m.toBrowser = call[k].toBrowser
    BY <1>2 DEF CallStates
  <2> HIDE DEF m
  <2>7. InRole(k, m) /\ (m.pc \in {"serving", "cancel", "close"} <=> Attached(k))
    BY <1>1, <2>1, <2>3, <2>5, <2>6 DEF InRole, Sane, Attached
  <2> QED
    BY <1>3, <2>4, <2>7, QuietStep DEF Lookup
<1>4. CASE LookupRefused(k)
  <2> DEFINE m == [call[k] EXCEPT !.pc = "done"]
  <2>1. call[k].pc = "idle"
    BY <1>4 DEF LookupRefused
  <2>2. call' = [call EXCEPT ![k] = m]
    BY <1>4 DEF LookupRefused
  <2>3. m \in CallStates
    BY <1>2 DEF CallStates
  <2>4. /\ m.pc = "done" /\ m.agent = call[k].agent
        /\ m.ws = call[k].ws /\ m.pump = call[k].pump
        /\ m.pending = call[k].pending /\ m.reason = call[k].reason
        /\ m.cancel = call[k].cancel /\ m.toBrowser = call[k].toBrowser
    BY <1>2 DEF CallStates
  <2> HIDE DEF m
  <2>5. InRole(k, m) /\ (m.pc \in {"serving", "cancel", "close"} <=> Attached(k))
    BY <1>1, <2>1, <2>3, <2>4 DEF InRole, Sane, Attached
  <2> QED
    BY <1>4, <2>2, <2>5, QuietStep DEF LookupRefused
<1>5. CASE AttachRefused(k)
  <2> DEFINE m == [call[k] EXCEPT !.pc = "done", !.ws = "closed"]
  <2>1. call[k].pc = "looked"
    BY <1>5 DEF AttachRefused
  <2>2. call' = [call EXCEPT ![k] = m]
    BY <1>5 DEF AttachRefused
  <2>3. m \in CallStates
    BY <1>2 DEF CallStates
  <2>4. /\ m.pc = "done" /\ m.agent = call[k].agent
        /\ m.ws = "closed" /\ m.pump = call[k].pump
        /\ m.pending = call[k].pending /\ m.reason = call[k].reason
        /\ m.cancel = call[k].cancel /\ m.toBrowser = call[k].toBrowser
    BY <1>2 DEF CallStates
  <2> HIDE DEF m
  <2>5. InRole(k, m) /\ (m.pc \in {"serving", "cancel", "close"} <=> Attached(k))
    BY <1>1, <2>1, <2>3, <2>4 DEF InRole, Sane, Attached
  <2> QED
    BY <1>5, <2>2, <2>5, QuietStep DEF AttachRefused
<1>6. CASE CtxExpires(k)
  <2> DEFINE m == [call[k] EXCEPT !.ctxDone = TRUE]
  <2>1. call[k].pc = "serving"
    BY <1>6 DEF CtxExpires
  <2>2. call' = [call EXCEPT ![k] = m]
    BY <1>6 DEF CtxExpires
  <2>3. m \in CallStates
    BY <1>2 DEF CallStates
  <2>4. /\ m.pc = call[k].pc /\ m.agent = call[k].agent
        /\ m.ws = call[k].ws /\ m.pump = call[k].pump
        /\ m.pending = call[k].pending /\ m.reason = call[k].reason
        /\ m.cancel = call[k].cancel /\ m.toBrowser = call[k].toBrowser
    BY <1>2 DEF CallStates
  <2> HIDE DEF m
  <2>5. InRole(k, m) /\ (m.pc \in {"serving", "cancel", "close"} <=> Attached(k))
    BY <1>1, <2>1, <2>3, <2>4 DEF InRole, Sane, Attached
  <2> QED
    BY <1>6, <2>2, <2>5, QuietStep DEF CtxExpires
<1>7. CASE LeaveMaxDuration(k) \/ LeaveIdle(k) \/ LeaveClosed(k)
  BY <1>2, <1>7, LeaveIInv
     DEF Reasons, LeaveMaxDuration, LeaveIdle, LeaveClosed, LeaveClosing
<1>8. CASE LeaveOpErr(k)
  BY <1>2, <1>8, LeaveIInv DEF Reasons, LeaveOpErr, LeaveClosing
<1>9. CASE BrowserWrite(k)
  <2> DEFINE q == Tail(call[k].toBrowser)
             m == [call[k] EXCEPT !.toBrowser = q]
  <2>1. call[k].toBrowser # <<>>
    BY <1>9 DEF BrowserWrite
  <2>2. call' = [call EXCEPT ![k] = m]
    BY <1>9 DEF BrowserWrite
  <2>3. /\ q \in Seq(Conns) /\ Len(q) <= ToBrowserCap
        /\ \A i \in DOMAIN q : Belongs(SidOf[k], q[i])
    BY <1>2, <2>1, TailFacts, ConsoleAssumption
  <2> HIDE DEF q
  <2>4. m \in CallStates
    BY <1>2, <2>3 DEF CallStates
  <2>5. /\ m.pc = call[k].pc /\ m.agent = call[k].agent /\ m.ws = call[k].ws
        /\ m.pump = call[k].pump /\ m.pending = call[k].pending
        /\ m.reason = call[k].reason /\ m.cancel = call[k].cancel
        /\ m.toBrowser = q
    BY <1>2 DEF CallStates
  <2> HIDE DEF m
  <2>6. InRole(k, m) /\ (m.pc \in {"serving", "cancel", "close"} <=> Attached(k))
    BY <1>1, <2>3, <2>4, <2>5 DEF InRole, Sane, Attached
  <2> QED
    BY <1>9, <2>2, <2>6, QuietStep DEF BrowserWrite
<1>10. CASE BrowserWriteFails(k)
  <2> DEFINE q == Tail(call[k].toBrowser)
  <2>1. call[k].toBrowser # <<>> /\ Leave(k, call[k].ws, call[k].reason, q)
    BY <1>10 DEF BrowserWriteFails
  <2>2. /\ q \in Seq(Conns) /\ Len(q) <= ToBrowserCap
        /\ \A i \in DOMAIN q : Belongs(SidOf[k], q[i])
    BY <1>2, <2>1, TailFacts, ConsoleAssumption
  <2>3. call[k].reason \in Reasons \ {"none"}
    BY <1>1, <2>1 DEF Leave, InRole, Sane, CallStates
  <2> QED
    BY <2>1, <2>2, <2>3, LeaveIInv
<1> QED
  BY <1>3, <1>4, <1>5, <1>6, <1>7, <1>8, <1>9, <1>10

\* router.attach: the identifier was free, so no attached call has it.
LEMMA AttachIInv ==
    ASSUME IInv, NEW k \in Calls, Attach(k)
    PROVE  IInv'
<1> DEFINE m == [call[k] EXCEPT !.pc = "serving", !.ws = "open",
                                !.pump = "read", !.reason = "ended"]
<1>1. InRole(k, call[k]) /\ SidOf[k] \in Sids
  BY CallFacts
<1>2. call[k] \in CallStates
  BY <1>1 DEF InRole
<1>3. call[k].pc = "looked" /\ router[SidOf[k]] = NoCall
  BY DEF Attach
<1>4. call' = [call EXCEPT ![k] = m]
  BY DEF Attach
<1>5. "ended" \in Reasons
  BY DEF Reasons
<1>6. m \in CallStates
  BY <1>2, <1>5 DEF CallStates
<1>7. /\ m.pc = "serving" /\ m.agent = call[k].agent /\ m.ws = "open"
      /\ m.pump = "read" /\ m.reason = "ended" /\ m.cancel = call[k].cancel
      /\ m.toBrowser = call[k].toBrowser
  BY <1>2 DEF CallStates
<1> HIDE DEF m
<1>8. InRole(k, m)
  BY <1>1, <1>3, <1>6, <1>7 DEF InRole, Sane
<1>9. TypeOK /\ OneOperatorPerSession
  BY DEF IInv
<1>10. call'[k] = m /\ \A q \in Calls : q # k => call'[q] = call[q]
  BY <1>4, <1>8, <1>9, OwnStep DEF InRole
<1>11. /\ router' = [router EXCEPT ![SidOf[k]] = k]
       /\ UNCHANGED <<agentVars, token, closes, up>>
  BY DEF Attach
<1>12. router' \in [Sids -> Calls \cup {NoCall}]
  BY <1>9, <1>11 DEF TypeOK
<1>13. OneOperatorPerSession'
  <2>1. ASSUME NEW q \in Calls, Attached(q)'
        PROVE  router'[SidOf[q]] = q
    <3>1. CASE q = k
      BY <1>1, <1>9, <1>11, <3>1 DEF TypeOK
    <3>2. CASE q # k
      <4>1. router[SidOf[q]] = q /\ SidOf[q] \in Sids
        BY <1>9, <1>10, <2>1, <3>2, ConsoleAssumption
        DEF Attached, OneOperatorPerSession
      <4>2. SidOf[q] # SidOf[k]
        BY <1>3, <4>1, ConsoleAssumption
      <4> QED
        BY <1>9, <1>11, <4>1, <4>2 DEF TypeOK
    <3> QED
      BY <3>1, <3>2
  <2>2. ASSUME NEW s \in Sids, router'[s] # NoCall
        PROVE  SidOf[router'[s]] = s /\ Attached(router[s])'
    <3>1. CASE s = SidOf[k]
      BY <1>1, <1>7, <1>9, <1>10, <1>11, <3>1 DEF TypeOK, Attached
    <3>2. CASE s # SidOf[k]
      <4>1. router'[s] = router[s] /\ router[s] \in Calls
        BY <1>9, <1>11, <2>2, <3>2 DEF TypeOK
      <4>2. SidOf[router[s]] = s /\ Attached(router[s])
        BY <1>9, <2>2, <4>1 DEF OneOperatorPerSession
      <4>3. router[s] # k
        BY <3>2, <4>2
      <4> QED
        BY <1>10, <4>1, <4>2, <4>3 DEF Attached
    <3> QED
      BY <3>1, <3>2
  <2> QED
    BY <2>1, <2>2 DEF OneOperatorPerSession
<1>14. closes' \in [Sids -> Nat] /\ up' \in BOOLEAN
  BY <1>9, <1>11 DEF TypeOK
<1> QED
  BY <1>4, <1>8, <1>11, <1>12, <1>13, <1>14, CallStep

\* router.detach removes the call's own session and no other.
LEMMA CloseSessionIInv ==
    ASSUME IInv, NEW k \in Calls, CloseSession(k)
    PROVE  IInv'
<1> DEFINE m == [call[k] EXCEPT !.pc = "done", !.closed = TRUE]
<1>1. InRole(k, call[k]) /\ SidOf[k] \in Sids
  BY CallFacts
<1>2. TypeOK /\ OneOperatorPerSession
  BY DEF IInv
<1>3. call[k] \in CallStates /\ call \in [Calls -> CallStates]
  BY <1>1, <1>2 DEF InRole, TypeOK
<1>4. call[k].pc = "close" /\ router[SidOf[k]] = k
  BY <1>2 DEF CloseSession, OneOperatorPerSession, Attached
<1>5. call' = [call EXCEPT ![k] = m]
  BY <1>3, <1>4 DEF CloseSession, CallStates
<1>6. m \in CallStates
  BY <1>3 DEF CallStates
<1>7. /\ m.pc = "done" /\ m.agent = call[k].agent /\ m.ws = call[k].ws
      /\ m.pump = call[k].pump /\ m.pending = call[k].pending
      /\ m.reason = call[k].reason /\ m.cancel = call[k].cancel
      /\ m.toBrowser = call[k].toBrowser
  BY <1>3 DEF CallStates
<1> HIDE DEF m
<1>8. InRole(k, m)
  BY <1>1, <1>4, <1>6, <1>7 DEF InRole, Sane
<1>9. call'[k] = m /\ \A q \in Calls : q # k => call'[q] = call[q]
  BY <1>2, <1>5, <1>8, OwnStep DEF InRole
<1>10. /\ router' = [router EXCEPT ![SidOf[k]] = NoCall]
       /\ closes' = [closes EXCEPT ![SidOf[k]] = @ + 1]
       /\ UNCHANGED <<agentVars, token, up>>
  BY DEF CloseSession
<1>11. router' \in [Sids -> Calls \cup {NoCall}]
  BY <1>2, <1>10 DEF TypeOK
<1>12. closes' \in [Sids -> Nat] /\ up' \in BOOLEAN
  <2>1. closes \in [Sids -> Nat] /\ up \in BOOLEAN
    BY <1>2 DEF TypeOK
  <2>2. closes[SidOf[k]] + 1 \in Nat
    BY <1>1, <2>1
  <2> QED
    BY <1>10, <2>1, <2>2
<1>13. OneOperatorPerSession'
  <2>1. ASSUME NEW q \in Calls, Attached(q)'
        PROVE  router'[SidOf[q]] = q
    <3>1. q # k
      BY <1>7, <1>9, <2>1 DEF Attached
    <3>2. router[SidOf[q]] = q /\ SidOf[q] \in Sids
      BY <1>2, <1>9, <2>1, <3>1, ConsoleAssumption
      DEF Attached, OneOperatorPerSession
    <3> QED
      BY <1>2, <1>4, <1>10, <3>1, <3>2 DEF TypeOK
  <2>2. ASSUME NEW s \in Sids, router'[s] # NoCall
        PROVE  SidOf[router'[s]] = s /\ Attached(router[s])'
    <3>1. s # SidOf[k] /\ router'[s] = router[s] /\ router[s] \in Calls
      BY <1>1, <1>2, <1>10, <2>2 DEF TypeOK
    <3>2. SidOf[router[s]] = s /\ Attached(router[s])
      BY <1>2, <2>2, <3>1 DEF OneOperatorPerSession
    <3>3. router[s] # k
      BY <3>1, <3>2
    <3> QED
      BY <1>9, <3>1, <3>2, <3>3 DEF Attached
  <2> QED
    BY <2>1, <2>2 DEF OneOperatorPerSession
<1> QED
  BY <1>5, <1>8, <1>10, <1>11, <1>12, <1>13, CallStep

-----------------------------------------------------------------------------
(* Frames for the agent *)

LEMMA AppendFacts ==
    ASSUME NEW S, NEW q \in Seq(S), NEW x \in S
    PROVE  /\ Append(q, x) \in Seq(S) /\ Len(Append(q, x)) = Len(q) + 1
           /\ Append(q, x)[Len(q) + 1] = x
           /\ \A i \in DOMAIN q : Append(q, x)[i] = q[i]
           /\ DOMAIN Append(q, x) = DOMAIN q \cup {Len(q) + 1}
OBVIOUS

\* Call k sends f and its state becomes m.  The Cancel of a call is clean when f
\* is that Cancel, and a call whose Cancel was clean starts no shell.
LEMMA PostStep ==
    ASSUME IInv, NEW k \in Calls, NEW f \in SessionFrames, NEW m,
           Slots!Post(call[k].agent, f), f.sid = SidOf[k],
           call' = [call EXCEPT ![k] = m],
           m \in CallStates, Sane(m), m.agent = call[k].agent,
           m.toBrowser = call[k].toBrowser,
           call[k].reason # "none", m.reason # "none",
           m.pc \in {"serving", "cancel", "close"} <=> Attached(k),
           m.cancel = "clean" => call[k].cancel = "clean" \/ f = CancelOf(SidOf[k]),
           f.kind = "start" => m.cancel # "clean",
           UNCHANGED <<linkUp, pty, token, router, closes, up>>
    PROVE  IInv'
<1> DEFINE a == call[k].agent
<1>1. /\ TypeOK /\ OneOperatorPerSession /\ LifeCycle
      /\ AgentsBelong /\ TenantIsolation /\ ShellsAnswered
  BY DEF IInv
<1>2. InRole(k, call[k]) /\ a \in Conns /\ Belongs(SidOf[k], a)
  BY CallFacts DEF InRole, Sane, CallStates
<1>3. Len(m.toBrowser) <= ToBrowserCap
      /\ \A i \in DOMAIN m.toBrowser : Belongs(SidOf[k], m.toBrowser[i])
  BY <1>2 DEF InRole
<1>4. /\ call' \in [Calls -> CallStates] /\ call'[k] = m
      /\ \A q \in Calls : q # k => call'[q] = call[q]
      /\ \A q \in Calls : Len(call'[q].toBrowser) <= ToBrowserCap
  BY <1>1, <1>3, OwnStep
<1>5. /\ Len(mail[a]) < BufSize /\ UNCHANGED <<owner, spent>>
      /\ mail' = [mail EXCEPT ![a] = Append(mail[a], f)]
  BY DEF Slots!Post
<1> HIDE DEF a
<1>6. mail \in [Conns -> Seq(SessionFrames)] /\ mail[a] \in Seq(SessionFrames)
  BY <1>1, <1>2 DEF TypeOK
<1>7. mail'[a] = Append(mail[a], f) /\ \A c \in Conns : c # a => mail'[c] = mail[c]
  BY <1>2, <1>5, <1>6
<1>8. /\ mail'[a] \in Seq(SessionFrames) /\ Len(mail'[a]) = Len(mail[a]) + 1
      /\ mail'[a][Len(mail[a]) + 1] = f
      /\ \A i \in DOMAIN mail[a] : mail'[a][i] = mail[a][i]
      /\ DOMAIN mail'[a] = DOMAIN mail[a] \cup {Len(mail[a]) + 1}
  BY <1>6, <1>7, AppendFacts
<1>9. TypeOK'
  <2>1. mail' \in [Conns -> Seq(SessionFrames)]
    BY <1>5, <1>6, <1>7, <1>8
  <2>2. Len(mail'[a]) <= BufSize
    BY <1>5, <1>6, <1>8, ConsoleAssumption
  <2>3. \A c \in Conns : Len(mail'[c]) <= BufSize
    BY <1>1, <1>7, <2>2 DEF TypeOK
  <2> QED
    BY <1>1, <1>4, <1>5, <2>1, <2>3 DEF TypeOK
<1>10. OneOperatorPerSession'
  <2>1. \A q \in Calls : Attached(q)' <=> Attached(q)
    BY <1>4 DEF Attached
  <2> QED
    BY <1>1, <2>1, ConsoleAssumption DEF OneOperatorPerSession, TypeOK
<1>11. LifeCycle'
  BY <1>1, <1>4 DEF LifeCycle
<1>12. AgentsBelong'
  BY <1>1, <1>2, <1>4, <1>5 DEF AgentsBelong, a
<1>13. TenantIsolation'
  <2>1. \A q \in Calls : call'[q].toBrowser = call[q].toBrowser
    BY <1>4
  <2>2. ASSUME NEW c \in Conns, NEW i \in DOMAIN mail'[c]
        PROVE  Belongs(mail'[c][i].sid, c)
    <3>1. CASE c = a /\ i = Len(mail[a]) + 1
      BY <1>2, <1>8, <3>1
    <3>2. CASE ~(c = a /\ i = Len(mail[a]) + 1)
      <4>1. i \in DOMAIN mail[c] /\ mail'[c][i] = mail[c][i]
        BY <1>7, <1>8, <3>2
      <4> QED
        BY <1>1, <4>1 DEF TenantIsolation, Belongs
    <3> QED
      BY <3>1, <3>2
  <2> QED
    BY <1>1, <2>1, <2>2 DEF TenantIsolation, Belongs
<1>14. ASSUME NEW c \in Conns, NEW s, NEW i, i = 0 \/ i \in DOMAIN mail[c],
              Answered(c, s, i)
       PROVE  Answered(c, s, i)'
  <2>1. PICK q \in Calls :
            /\ SidOf[q] = s /\ call[q].agent = c /\ call[q].reason # "none"
            /\ call[q].cancel = "clean" =>
                   \E j \in DOMAIN mail[c] : j > i /\ mail[c][j] = CancelOf(s)
    BY <1>14 DEF Answered
  <2>2. call'[q].agent = c /\ call'[q].reason # "none"
    BY <1>4, <2>1
  <2>3. ASSUME call'[q].cancel = "clean"
        PROVE  \E j \in DOMAIN mail'[c] : j > i /\ mail'[c][j] = CancelOf(s)
    <3>1. CASE call[q].cancel = "clean"
      <4>1. PICK j \in DOMAIN mail[c] : j > i /\ mail[c][j] = CancelOf(s)
        BY <2>1, <3>1
      <4>2. j \in DOMAIN mail'[c] /\ mail'[c][j] = mail[c][j]
        BY <1>7, <1>8, <4>1
      <4> QED
        BY <4>1, <4>2
    <3>2. CASE call[q].cancel # "clean"
      <4>1. q = k /\ c = a /\ f = CancelOf(s)
        BY <1>4, <2>1, <2>3, <3>2 DEF a
      <4>2. Len(mail[a]) + 1 > i
        BY <1>6, <1>14, <4>1
      <4> QED
        BY <1>8, <4>1, <4>2
    <3> QED
      BY <3>1, <3>2
  <2> QED
    BY <2>1, <2>2, <2>3 DEF Answered
<1>15. ShellsAnswered'
  <2>1. ASSUME NEW c \in Conns, NEW s \in pty'[c]
        PROVE  Answered(c, s, 0)'
    BY <1>1, <1>14 DEF ShellsAnswered
  <2>2. ASSUME NEW c \in Conns, NEW i \in DOMAIN mail'[c], mail'[c][i].kind = "start"
        PROVE  Answered(c, mail[c][i].sid, i)'
    <3>1. CASE c = a /\ i = Len(mail[a]) + 1
      <4>1. call'[k].agent = c /\ call'[k].reason # "none"
            /\ call'[k].cancel # "clean" /\ mail'[c][i].sid = SidOf[k]
        BY <1>4, <1>8, <2>2, <3>1 DEF a
      <4> QED
        BY <4>1 DEF Answered
    <3>2. CASE ~(c = a /\ i = Len(mail[a]) + 1)
      <4>1. i \in DOMAIN mail[c] /\ mail'[c][i] = mail[c][i]
        BY <1>7, <1>8, <2>2, <3>2
      <4>2. Answered(c, mail[c][i].sid, i)
        BY <1>1, <2>2, <4>1 DEF ShellsAnswered
      <4>3. \A s : s = mail[c][i].sid => Answered(c, s, i)'
        BY <1>14, <4>1, <4>2
      <4> QED
        BY <4>1, <4>3 DEF Answered
    <3> QED
      BY <3>1, <3>2
  <2> QED
    BY <2>1, <2>2 DEF ShellsAnswered
<1> QED
  BY <1>9, <1>10, <1>11, <1>12, <1>13, <1>15 DEF IInv

\* a.Send of the pump.  Its call has a clean Cancel behind it only when the pump
\* holds no frame.
LEMMA PumpForwardsIInv ==
    ASSUME IInv, NEW k \in Calls, PumpForwards(k)
    PROVE  IInv'
<1> DEFINE m == [call[k] EXCEPT !.pump = "read", !.pending = "none"]
           f == [kind |-> call[k].pending, sid |-> SidOf[k]]
<1>1. InRole(k, call[k]) /\ SidOf[k] \in Sids
  BY CallFacts
<1>2. call[k] \in CallStates
  BY <1>1 DEF InRole
<1>3. call[k].pump = "forward" /\ Slots!Post(call[k].agent, f)
      /\ UNCHANGED <<linkUp, pty, token, router, closes, up>>
  BY DEF PumpForwards
<1>4. /\ call[k].pending \in Kinds /\ call[k].reason # "none"
      /\ call[k].cancel # "clean"
  BY <1>1, <1>2, <1>3 DEF InRole, Sane, CallStates
<1>5. f \in SessionFrames /\ f.sid = SidOf[k]
  BY <1>1, <1>4 DEF SessionFrames
<1>6. call' = [call EXCEPT ![k] = m]
  BY DEF PumpForwards
<1>7. m \in CallStates
  BY <1>2 DEF CallStates
<1>8. /\ m.pc = call[k].pc /\ m.agent = call[k].agent /\ m.ws = call[k].ws
      /\ m.pump = "read" /\ m.pending = "none"
      /\ m.reason = call[k].reason /\ m.cancel = call[k].cancel
      /\ m.toBrowser = call[k].toBrowser
  BY <1>2 DEF CallStates
<1> HIDE DEF m, f
<1>9. Sane(m) /\ (m.pc \in {"serving", "cancel", "close"} <=> Attached(k))
  BY <1>1, <1>3, <1>8 DEF InRole, Sane, Attached
<1> QED
  BY <1>3, <1>4, <1>5, <1>6, <1>7, <1>8, <1>9, PostStep

\* The deferred Cancel.
LEMMA SendCancelIInv ==
    ASSUME IInv, NEW k \in Calls, SendCancel(k)
    PROVE  IInv'
<1> DEFINE After(outcome) == [call[k] EXCEPT !.pc = "close", !.ctxDone = TRUE,
                                             !.cancel = outcome]
<1>1. InRole(k, call[k]) /\ SidOf[k] \in Sids
  BY CallFacts
<1>2. call[k] \in CallStates
  BY <1>1 DEF InRole
<1>3. call[k].pc = "cancel" /\ UNCHANGED <<linkUp, pty, token, router, closes, up>>
  BY DEF SendCancel
<1>4. ASSUME NEW o \in {"clean", "racing", "dropped", "gone"}
      PROVE  /\ After(o) \in CallStates
             /\ After(o).pc = "close" /\ After(o).agent = call[k].agent
             /\ After(o).ws = call[k].ws /\ After(o).pump = call[k].pump
             /\ After(o).pending = call[k].pending
             /\ After(o).reason = call[k].reason /\ After(o).cancel = o
             /\ After(o).toBrowser = call[k].toBrowser
  <2>1. o \in {"no", "clean", "racing", "dropped", "gone"}
    OBVIOUS
  <2>2. After(o) \in CallStates
    BY <1>2, <2>1 DEF CallStates
  <2>3. /\ After(o).pc = "close" /\ After(o).agent = call[k].agent
        /\ After(o).ws = call[k].ws /\ After(o).pump = call[k].pump
        /\ After(o).pending = call[k].pending
        /\ After(o).reason = call[k].reason /\ After(o).cancel = o
        /\ After(o).toBrowser = call[k].toBrowser
    BY <1>2 DEF CallStates
  <2> QED
    BY <2>2, <2>3
<1>5. CASE Slots!Post(call[k].agent, CancelOf(SidOf[k]))
           /\ call' = [call EXCEPT ![k] =
                           After(IF MayForward(k) THEN "racing" ELSE "clean")]
  <2> DEFINE o == IF MayForward(k) THEN "racing" ELSE "clean"
             m == After(o)
             f == CancelOf(SidOf[k])
  <2>1. o \in {"clean", "racing"} /\ (o = "clean" => ~MayForward(k))
    OBVIOUS
  <2>2. /\ m \in CallStates /\ m.pc = "close" /\ m.agent = call[k].agent
        /\ m.ws = call[k].ws /\ m.pump = call[k].pump
        /\ m.pending = call[k].pending /\ m.reason = call[k].reason
        /\ m.cancel = o /\ m.toBrowser = call[k].toBrowser
    BY <1>4, <2>1
  <2>3. f \in SessionFrames /\ f.sid = SidOf[k] /\ f.kind # "start"
    BY <1>1 DEF CancelOf, SessionFrames, Kinds
  <2>4. Slots!Post(call[k].agent, f) /\ call' = [call EXCEPT ![k] = m]
    BY <1>5
  <2> HIDE DEF o, m
  <2>5. /\ Sane(m) /\ call[k].reason # "none"
        /\ m.pc \in {"serving", "cancel", "close"} <=> Attached(k)
    BY <1>1, <1>3, <2>1, <2>2 DEF InRole, Sane, Attached, MayForward
  <2>6. f = CancelOf(SidOf[k])
    OBVIOUS
  <2> HIDE DEF f
  <2> QED
    BY <1>3, <2>2, <2>3, <2>4, <2>5, <2>6, PostStep
<1>6. CASE /\ call' = [call EXCEPT ![k] =
                           After(IF IsOwner(call[k].agent) THEN "dropped" ELSE "gone")]
           /\ UNCHANGED <<owner, spent, mail>>
  <2> DEFINE o == IF IsOwner(call[k].agent) THEN "dropped" ELSE "gone"
             m == After(o)
  <2>1. o \in {"dropped", "gone"}
    OBVIOUS
  <2>2. /\ m \in CallStates /\ m.pc = "close" /\ m.agent = call[k].agent
        /\ m.ws = call[k].ws /\ m.pump = call[k].pump
        /\ m.pending = call[k].pending /\ m.reason = call[k].reason
        /\ m.cancel = o /\ m.toBrowser = call[k].toBrowser
    BY <1>4, <2>1
  <2>3. call' = [call EXCEPT ![k] = m]
    BY <1>6
  <2> HIDE DEF o, m
  <2>4. InRole(k, m) /\ (m.pc \in {"serving", "cancel", "close"} <=> Attached(k))
    BY <1>1, <1>3, <2>1, <2>2 DEF InRole, Sane, Attached
  <2> QED
    BY <1>3, <1>6, <2>3, <2>4, QuietStep DEF agentVars
<1> QED
  BY <1>5, <1>6 DEF SendCancel, CancelOf

-----------------------------------------------------------------------------
(* Agents *)

\* A slot changes hands: calls keep the agent they have.
LEMMA SlotStep ==
    ASSUME IInv, NEW c \in Conns, AgentConnects(c) \/ AgentLeaves(c)
    PROVE  IInv'
<1>1. /\ TypeOK /\ OneOperatorPerSession /\ LifeCycle
      /\ AgentsBelong /\ TenantIsolation /\ ShellsAnswered
  BY DEF IInv
<1>2. /\ owner' = [owner EXCEPT ![ConnDev[c]] = c]
         \/ owner' = [owner EXCEPT ![ConnDev[c]] = NoConn]
      /\ spent' \in {spent, spent \cup {c}}
      /\ linkUp' \in {linkUp, [linkUp EXCEPT ![c] = TRUE]}
      /\ UNCHANGED <<mail, pty, token, router, call, closes, up>>
  BY DEF AgentConnects, AgentLeaves, Slots!Claim, Slots!Release
<1>3. ConnDev[c] \in Devices
  BY ConsoleAssumption
<1>4. TypeOK'
  <2>1. owner' \in [Devices -> Conns \cup {NoConn}]
    BY <1>1, <1>2, <1>3 DEF TypeOK
  <2>2. spent' \in SUBSET Conns
    BY <1>1, <1>2 DEF TypeOK
  <2>3. linkUp' \in [Conns -> BOOLEAN]
    BY <1>1, <1>2 DEF TypeOK
  <2> QED
    BY <1>1, <1>2, <2>1, <2>2, <2>3 DEF TypeOK
<1>5. AgentsBelong'
  <2>1. \A e \in Devices : \/ owner'[e] \in {owner[e], NoConn}
                           \/ e = ConnDev[c] /\ owner'[e] = c
    BY <1>1, <1>2, <1>3 DEF TypeOK
  <2> QED
    BY <1>1, <1>2, <2>1 DEF AgentsBelong, Belongs
<1>6. OneOperatorPerSession' /\ LifeCycle'
  BY <1>1, <1>2 DEF OneOperatorPerSession, Attached, LifeCycle
<1>7. TenantIsolation'
  BY <1>1, <1>2 DEF TenantIsolation
<1>8. ShellsAnswered'
  BY <1>1, <1>2 DEF ShellsAnswered, Answered
<1> QED
  BY <1>4, <1>5, <1>6, <1>7, <1>8 DEF IInv

\* Shells end.
LEMMA ShellsEnd ==
    ASSUME IInv, NEW c \in Conns, NEW left, left \subseteq pty[c],
           pty' = [pty EXCEPT ![c] = left],
           linkUp' \in {linkUp, [linkUp EXCEPT ![c] = FALSE]},
           UNCHANGED <<owner, spent, mail, token, router, call, closes, up>>
    PROVE  IInv'
<1>1. /\ TypeOK /\ OneOperatorPerSession /\ LifeCycle
      /\ AgentsBelong /\ TenantIsolation /\ ShellsAnswered
  BY DEF IInv
<1>2. /\ pty' \in [Conns -> SUBSET Sids] /\ linkUp' \in [Conns -> BOOLEAN]
      /\ \A e \in Conns : pty'[e] \subseteq pty[e]
  BY <1>1 DEF TypeOK
<1>3. TypeOK'
  BY <1>1, <1>2 DEF TypeOK
<1>4. OneOperatorPerSession' /\ LifeCycle' /\ AgentsBelong'
  BY <1>1 DEF OneOperatorPerSession, Attached, LifeCycle, AgentsBelong
<1>5. TenantIsolation'
  BY <1>1, <1>2 DEF TenantIsolation
<1>6. ShellsAnswered'
  BY <1>1, <1>2 DEF ShellsAnswered, Answered
<1> QED
  BY <1>3, <1>4, <1>5, <1>6 DEF IInv

\* The agent takes the oldest frame.  A Cancel that leaves the queue kills the
\* shell it answered for, and one behind a pty.start is still there when the
\* shell is spawned.
LEMMA AgentTakesIInv ==
    ASSUME IInv, NEW c \in Conns, AgentTakes(c)
    PROVE  IInv'
<1>1. /\ TypeOK /\ OneOperatorPerSession /\ LifeCycle
      /\ AgentsBelong /\ TenantIsolation /\ ShellsAnswered
  BY DEF IInv
<1>2. /\ mail[c] # <<>> /\ mail' = [mail EXCEPT ![c] = Tail(mail[c])]
      /\ pty' = [pty EXCEPT ![c] = ShellsAfter(c, Head(mail[c]))]
      /\ UNCHANGED <<owner, spent, linkUp, token, router, call, closes, up>>
  BY DEF AgentTakes, Slots!Take
<1>3. mail \in [Conns -> Seq(SessionFrames)] /\ mail[c] \in Seq(SessionFrames)
      /\ Len(mail[c]) <= BufSize /\ pty \in [Conns -> SUBSET Sids]
  BY <1>1 DEF TypeOK
<1>4. /\ mail'[c] = Tail(mail[c])
      /\ \A e \in Conns : e # c => mail'[e] = mail[e]
  BY <1>2, <1>3
<1>5. /\ mail'[c] \in Seq(SessionFrames) /\ Len(mail'[c]) = Len(mail[c]) - 1
      /\ \A i \in DOMAIN mail'[c] : /\ i + 1 \in DOMAIN mail[c]
                                    /\ mail'[c][i] = mail[c][i + 1]
      /\ \A i \in DOMAIN mail[c] : i # 1 => i - 1 \in DOMAIN mail'[c]
  BY <1>2, <1>3, <1>4
<1>6. /\ 1 \in DOMAIN mail[c] /\ Head(mail[c]) = mail[c][1]
      /\ mail[c][1] \in SessionFrames
  BY <1>2, <1>3
<1> DEFINE h == mail[c][1]
<1>7. /\ pty'[c] \subseteq pty[c] \cup {h.sid}
      /\ h.kind # "start" => pty'[c] \subseteq pty[c]
      /\ h.kind = "cancel" => h.sid \notin pty'[c]
      /\ \A e \in Conns : e # c => pty'[e] = pty[e]
  <2>1. pty'[c] = ShellsAfter(c, h) /\ \A e \in Conns : e # c => pty'[e] = pty[e]
    BY <1>2, <1>3, <1>6
  <2>2. h.kind \in {"start", "cancel", "data"}
    BY <1>6 DEF SessionFrames, Kinds
  <2> HIDE DEF h
  <2> QED
    BY <2>1, <2>2 DEF ShellsAfter
<1>8. h.sid \in Sids
  BY <1>6 DEF SessionFrames
<1>9. TypeOK'
  <2>1. mail' \in [Conns -> Seq(SessionFrames)]
    BY <1>2, <1>3, <1>4, <1>5
  <2>2. \A e \in Conns : Len(mail'[e]) <= BufSize
    <3>1. Len(mail'[c]) <= BufSize
      BY <1>3, <1>5, ConsoleAssumption
    <3> QED
      BY <1>1, <1>4, <3>1 DEF TypeOK
  <2>3. pty'[c] \in SUBSET Sids
    BY <1>3, <1>7, <1>8
  <2>4. pty' \in [Conns -> SUBSET Sids]
    BY <1>2, <1>3, <1>7, <2>3
  <2> QED
    BY <1>1, <1>2, <2>1, <2>2, <2>4 DEF TypeOK
<1>10. OneOperatorPerSession' /\ LifeCycle' /\ AgentsBelong'
  BY <1>1, <1>2 DEF OneOperatorPerSession, Attached, LifeCycle, AgentsBelong
<1>11. TenantIsolation'
  <2>1. ASSUME NEW e \in Conns, NEW i \in DOMAIN mail'[e]
        PROVE  Belongs(mail'[e][i].sid, e)
    <3>1. CASE e = c
      BY <1>1, <1>5, <3>1 DEF TenantIsolation, Belongs
    <3>2. CASE e # c
      BY <1>1, <1>4, <3>2 DEF TenantIsolation, Belongs
    <3> QED
      BY <3>1, <3>2
  <2>2. ASSUME NEW e \in Conns, NEW s \in pty'[e]
        PROVE  Belongs(s, e)
    <3>1. Belongs(h.sid, c)
      BY <1>1, <1>6 DEF TenantIsolation, Belongs
    <3>2. s \in pty[e] \/ (e = c /\ s = h.sid)
      BY <1>7
    <3> QED
      BY <1>1, <3>1, <3>2 DEF TenantIsolation, Belongs
  <2> QED
    BY <1>1, <1>2, <2>1, <2>2 DEF TenantIsolation, Belongs
<1>12. ASSUME NEW s, NEW i, i \in Nat, Answered(c, s, i),
              i # 0 \/ h # CancelOf(s)
       PROVE  \A j : j = (IF i = 0 THEN 0 ELSE i - 1) => Answered(c, s, j)'
  <2> SUFFICES ASSUME NEW j, j = (IF i = 0 THEN 0 ELSE i - 1)
               PROVE  Answered(c, s, j)'
    OBVIOUS
  <2>1. PICK q \in Calls :
            /\ SidOf[q] = s /\ call[q].agent = c /\ call[q].reason # "none"
            /\ call[q].cancel = "clean" =>
                   \E n \in DOMAIN mail[c] : n > i /\ mail[c][n] = CancelOf(s)
    BY <1>12 DEF Answered
  <2>2. ASSUME call[q].cancel = "clean"
        PROVE  \E n \in DOMAIN mail'[c] : n > j /\ mail'[c][n] = CancelOf(s)
    <3>1. PICK n \in DOMAIN mail[c] : n > i /\ mail[c][n] = CancelOf(s)
      BY <2>1, <2>2
    <3>2. n \in Nat /\ n # 1
      BY <1>3, <1>12, <3>1
    <3>3. n - 1 \in DOMAIN mail'[c] /\ mail'[c][n - 1] = mail[c][n]
      BY <1>3, <1>5, <3>1, <3>2
    <3>4. n - 1 > j
      BY <1>12, <3>1, <3>2
    <3> QED
      BY <3>1, <3>3, <3>4
  <2> QED
    BY <1>2, <2>1, <2>2 DEF Answered
<1>13. ASSUME NEW e \in Conns, e # c, NEW s, NEW i, Answered(e, s, i)
       PROVE  Answered(e, s, i)'
  BY <1>2, <1>4, <1>13 DEF Answered
<1>14. ShellsAnswered'
  <2>1. ASSUME NEW e \in Conns, NEW s \in pty'[e]
        PROVE  Answered(e, s, 0)'
    <3>1. CASE e # c
      BY <1>1, <1>7, <1>13, <3>1 DEF ShellsAnswered
    <3>2. CASE e = c /\ h.kind = "start" /\ s = h.sid
      <4>1. Answered(c, s, 1)
        BY <1>1, <1>6, <3>2 DEF ShellsAnswered
      <4> QED
        BY <1>12, <3>2, <4>1
    <3>3. CASE e = c /\ s \in pty[c]
      <4>1. Answered(c, s, 0)
        BY <1>1, <3>3 DEF ShellsAnswered
      <4>2. h # CancelOf(s)
        BY <1>7, <2>1, <3>3 DEF CancelOf
      <4> QED
        BY <1>12, <3>3, <4>1, <4>2
    <3> QED
      BY <1>7, <2>1, <3>1, <3>2, <3>3
  <2>2. ASSUME NEW e \in Conns, NEW i \in DOMAIN mail'[e], mail'[e][i].kind = "start"
        PROVE  Answered(e, mail[e][i].sid, i)'
    <3>1. CASE e # c
      <4>1. Answered(e, mail[e][i].sid, i)
        BY <1>1, <1>4, <2>2, <3>1 DEF ShellsAnswered
      <4>2. \A s : s = mail[e][i].sid => Answered(e, s, i)'
        BY <1>13, <3>1, <4>1
      <4> QED
        BY <1>4, <3>1, <4>2 DEF Answered
    <3>2. CASE e = c
      <4>1. /\ i + 1 \in DOMAIN mail[c] /\ i \in Nat
            /\ mail'[c][i] = mail[c][i + 1]
        BY <1>5, <3>2
      <4>2. Answered(c, mail[c][i + 1].sid, i + 1)
        BY <1>1, <2>2, <3>2, <4>1 DEF ShellsAnswered
      <4>3. i = (IF i + 1 = 0 THEN 0 ELSE (i + 1) - 1) /\ i + 1 \in Nat /\ i + 1 # 0
        BY <4>1
      <4>4. \A s : s = mail[c][i + 1].sid => Answered(c, s, i)'
        BY <1>12, <4>2, <4>3
      <4> QED
        BY <3>2, <4>1, <4>4 DEF Answered
    <3> QED
      BY <3>1, <3>2
  <2> QED
    BY <2>1, <2>2 DEF ShellsAnswered
<1> QED
  BY <1>9, <1>10, <1>11, <1>14 DEF IInv

\* routeAgentResponse: the session's call gets a frame from an agent that runs a
\* shell for it, or is closed.
LEMMA RouteResponseIInv ==
    ASSUME IInv, NEW c \in Conns, NEW s \in Sids, RouteResponse(c, s)
    PROVE  IInv'
<1> DEFINE k == router[s]
           q == Append(call[k].toBrowser, c)
<1>1. k \in Calls /\ SidOf[k] = s
  BY DEF IInv, TypeOK, OneOperatorPerSession, RouteResponse
<1>2. Belongs(s, c)
  BY DEF IInv, TenantIsolation, Belongs, RouteResponse
<1>3. UNCHANGED <<agentVars, token, router, closes, up>>
  BY DEF RouteResponse
<1>4. /\ Len(call[k].toBrowser) < ToBrowserCap =>
             call' = [call EXCEPT ![k] = [call[k] EXCEPT !.toBrowser = q]]
      /\ ~(Len(call[k].toBrowser) < ToBrowserCap) =>
             call' = [call EXCEPT ![k] = [call[k] EXCEPT !.closed = TRUE]]
  BY <1>1 DEF RouteResponse
<1> HIDE DEF k
<1>5. InRole(k, call[k])
  BY <1>1, CallFacts
<1>6. /\ call[k] \in CallStates /\ call[k].toBrowser \in Seq(Conns)
      /\ \A i \in DOMAIN call[k].toBrowser : Belongs(s, call[k].toBrowser[i])
  BY <1>1, <1>5 DEF InRole, CallStates
<1>7. CASE Len(call[k].toBrowser) < ToBrowserCap
  <2> DEFINE m == [call[k] EXCEPT !.toBrowser = q]
  <2>1. /\ q \in Seq(Conns) /\ Len(q) = Len(call[k].toBrowser) + 1
        /\ \A i \in DOMAIN q : Belongs(s, q[i])
    BY <1>2, <1>6, AppendFacts
  <2>2. Len(q) <= ToBrowserCap
    BY <1>6, <1>7, <2>1, ConsoleAssumption
  <2> HIDE DEF q
  <2>3. m \in CallStates
    BY <1>6, <2>1 DEF CallStates
  <2>4. /\ m.pc = call[k].pc /\ m.agent = call[k].agent /\ m.ws = call[k].ws
        /\ m.pump = call[k].pump /\ m.pending = call[k].pending
        /\ m.reason = call[k].reason /\ m.cancel = call[k].cancel
        /\ m.toBrowser = q
    BY <1>6 DEF CallStates
  <2>5. call' = [call EXCEPT ![k] = m]
    BY <1>4, <1>7
  <2> HIDE DEF m
  <2>6. InRole(k, m) /\ (m.pc \in {"serving", "cancel", "close"} <=> Attached(k))
    BY <1>1, <1>5, <2>1, <2>2, <2>3, <2>4 DEF InRole, Sane, Attached
  <2> QED
    BY <1>1, <1>3, <2>5, <2>6, QuietStep
<1>8. CASE ~(Len(call[k].toBrowser) < ToBrowserCap)
  <2> DEFINE m == [call[k] EXCEPT !.closed = TRUE]
  <2>1. m \in CallStates
    BY <1>6 DEF CallStates
  <2>2. /\ m.pc = call[k].pc /\ m.agent = call[k].agent /\ m.ws = call[k].ws
        /\ m.pump = call[k].pump /\ m.pending = call[k].pending
        /\ m.reason = call[k].reason /\ m.cancel = call[k].cancel
        /\ m.toBrowser = call[k].toBrowser
    BY <1>6 DEF CallStates
  <2>3. call' = [call EXCEPT ![k] = m]
    BY <1>4, <1>8
  <2> HIDE DEF m
  <2>4. InRole(k, m) /\ (m.pc \in {"serving", "cancel", "close"} <=> Attached(k))
    BY <1>5, <2>1, <2>2 DEF InRole, Sane, Attached
  <2> QED
    BY <1>1, <1>3, <2>3, <2>4, QuietStep
<1> QED
  BY <1>7, <1>8

\* No call, agent or route changes: a token is issued or expires, or a Send of
\* the pump panics and ends the process.
LEMMA ElsewhereIInv ==
    ASSUME IInv, UNCHANGED <<agentVars, router, call, closes>>,
           token' \in [Sids -> {"none", "valid", "expired"}], up' \in BOOLEAN
    PROVE  IInv'
<1>1. /\ TypeOK /\ OneOperatorPerSession /\ LifeCycle
      /\ AgentsBelong /\ TenantIsolation /\ ShellsAnswered
  BY DEF IInv
<1>2. UNCHANGED <<owner, spent, mail, linkUp, pty, router, call, closes>>
  BY DEF agentVars
<1>3. TypeOK'
  BY <1>1, <1>2 DEF TypeOK
<1>4. OneOperatorPerSession' /\ LifeCycle' /\ AgentsBelong'
  BY <1>1, <1>2 DEF OneOperatorPerSession, Attached, LifeCycle, AgentsBelong
<1>5. TenantIsolation'
  BY <1>1, <1>2 DEF TenantIsolation
<1>6. ShellsAnswered'
  BY <1>1, <1>2 DEF ShellsAnswered, Answered
<1> QED
  BY <1>3, <1>4, <1>5, <1>6 DEF IInv

-----------------------------------------------------------------------------

\* Every step preserves the invariant.
LEMMA NextIInv == IInv /\ [Next]_vars => IInv'
<1> SUFFICES ASSUME IInv, [Next]_vars PROVE IInv'
  OBVIOUS
<1>1. TypeOK
  BY DEF IInv
<1>2. ASSUME NEW c \in Conns, AgentStep(c) PROVE IInv'
  <2>1. CASE AgentConnects(c) \/ AgentLeaves(c)
    BY <2>1, SlotStep
  <2>2. CASE LinkBreaks(c)
    <3>1. /\ pty' = [pty EXCEPT ![c] = {}] /\ linkUp' = [linkUp EXCEPT ![c] = FALSE]
          /\ UNCHANGED <<owner, spent, mail, token, router, call, closes, up>>
      BY <2>2 DEF LinkBreaks
    <3>2. PICK left : left \subseteq pty[c] /\ pty' = [pty EXCEPT ![c] = left]
      BY <3>1
    <3>3. linkUp' \in {linkUp, [linkUp EXCEPT ![c] = FALSE]}
      BY <3>1
    <3> QED
      BY <3>1, <3>2, <3>3, ShellsEnd
  <2>3. CASE AgentTakes(c)
    BY <2>3, AgentTakesIInv
  <2>4. ASSUME NEW s \in Sids, ShellExits(c, s) PROVE IInv'
    <3>1. pty' = [pty EXCEPT ![c] = pty[c] \ {s}]
          /\ UNCHANGED <<owner, spent, mail, linkUp, token, router, call, closes, up>>
      BY <2>4 DEF ShellExits
    <3>2. pty[c] \ {s} \subseteq pty[c]
      OBVIOUS
    <3> QED
      BY <3>1, <3>2, ShellsEnd
  <2>5. ASSUME NEW s \in Sids, RouteResponse(c, s) PROVE IInv'
    BY <2>5, RouteResponseIInv
  <2> QED
    BY <1>2, <2>1, <2>2, <2>3, <2>4, <2>5 DEF AgentStep
<1>3. ASSUME NEW s \in Sids, IssueSession(s) \/ TokenExpires(s) PROVE IInv'
  <2>1. token' \in [Sids -> {"none", "valid", "expired"}]
    BY <1>1, <1>3 DEF IssueSession, TokenExpires, TypeOK
  <2>2. UNCHANGED <<agentVars, router, call, closes>> /\ up' \in BOOLEAN
    BY <1>1, <1>3 DEF IssueSession, TokenExpires, TypeOK
  <2> QED
    BY <2>1, <2>2, ElsewhereIInv
<1>4. ASSUME NEW k \in Calls, HandlerStep(k) PROVE IInv'
  BY <1>4, HandlerIInv, AttachIInv, SendCancelIInv, CloseSessionIInv DEF HandlerStep
<1>5. ASSUME NEW k \in Calls, PumpStep(k) \/ OperatorLeaves(k) PROVE IInv'
  <2>1. CASE PumpPanics(k)
    <3>1. UNCHANGED <<agentVars, token, router, call, closes>> /\ up' = FALSE
      BY <2>1 DEF PumpPanics
    <3> QED
      BY <1>1, <3>1, ElsewhereIInv DEF TypeOK
  <2> QED
    BY <1>5, <2>1, PumpIInv, PumpForwardsIInv DEF PumpStep
<1>6. CASE UNCHANGED vars
  BY <1>1, <1>6, ElsewhereIInv DEF vars, agentVars, TypeOK
<1> QED
  BY <1>2, <1>3, <1>4, <1>5, <1>6 DEF Next

\* The inductive invariant holds of every behaviour.
LEMMA SpecIInv == Spec => []IInv
BY InitIInv, NextIInv, PTL DEF Spec

\* Every variable has its type, and no queue exceeds its capacity.
THEOREM TypeCorrect == Spec => []TypeOK
<1>1. IInv => TypeOK
  BY DEF IInv
<1> QED
  BY <1>1, SpecIInv, PTL

\* A session is served by the one call the router maps it to (router.attach,
\* router.detach), however many calls present its token.
THEOREM OneOperatorPerSessionHolds == Spec => []OneOperatorPerSession
<1>1. IInv => OneOperatorPerSession
  BY DEF IInv
<1> QED
  BY <1>1, SpecIInv, PTL

\* Frames of a session reach only connections of the device and the organisation
\* its token names, and only such connections answer (handleOperatorWS,
\* routeAgentResponse), whoever registers for the device meanwhile.
THEOREM TenantIsolationHolds == Spec => []TenantIsolation
<1>1. IInv => TenantIsolation
  BY DEF IInv
<1> QED
  BY <1>1, SpecIInv, PTL

\* Every shell is that of an attached session, or its Cancel is queued, or was
\* lost in one of the three ways the code accepts.
THEOREM NoUnaccountedShellHolds == Spec => []NoUnaccountedShell
<1>1. IInv => NoUnaccountedShell
  <2> SUFFICES ASSUME IInv, NEW c \in Conns, NEW s \in pty[c]
               PROVE  \E k \in Calls :
                          /\ SidOf[k] = s /\ call[k].agent = c
                          /\ call[k].reason # "none"
                          /\ call[k].cancel = "clean" => Queued(c, s)
    BY DEF NoUnaccountedShell
  <2>1. PICK k \in Calls :
            /\ SidOf[k] = s /\ call[k].agent = c /\ call[k].reason # "none"
            /\ call[k].cancel = "clean" =>
                   \E j \in DOMAIN mail[c] : j > 0 /\ mail[c][j] = CancelOf(s)
    BY DEF IInv, ShellsAnswered, Answered
  <2> QED
    BY <2>1 DEF Queued, CancelOf
<1> QED
  BY <1>1, SpecIInv, PTL
\* The console uses the agents' slots only as DeviceSlots lets it: it is one of
\* the environments the registry is proved to serve.
THEOREM UsesDeviceSlots == Spec => Slots!Spec
<1>1. Init => Slots!Init
  BY DEF Init
<1>2. ASSUME IInv, [Next]_vars PROVE [Slots!Next]_(Slots!vars)
  <2> USE DEF Slots!vars
  <2>1. ASSUME NEW c \in Conns, AgentStep(c) PROVE [Slots!Next]_(Slots!vars)
    <3>1. ConnDev[c] \in Devices
      BY ConsoleAssumption
    <3>2. CASE AgentConnects(c) \/ AgentLeaves(c) \/ AgentTakes(c)
      BY <3>1, <3>2 DEF AgentConnects, AgentLeaves, AgentTakes, Slots!Next
    <3>3. CASE \/ LinkBreaks(c)
               \/ \E s \in Sids : ShellExits(c, s) \/ RouteResponse(c, s)
      BY <3>3 DEF LinkBreaks, ShellExits, RouteResponse, agentVars
    <3> QED
      BY <2>1, <3>2, <3>3 DEF AgentStep
  <2>2. ASSUME NEW k \in Calls, NEW f \in SessionFrames, call[k].reason # "none",
               Slots!Post(call[k].agent, f)
        PROVE  Slots!Next
    <3>1. call[k].agent \in Conns
      BY <1>2, <2>2, CallFacts DEF InRole, Sane, CallStates
    <3> QED
      BY <2>2, <3>1 DEF Slots!Next
  <2>3. ASSUME NEW k \in Calls, SendCancel(k) PROVE [Slots!Next]_(Slots!vars)
    <3>1. call[k].reason # "none" /\ CancelOf(SidOf[k]) \in SessionFrames
      BY <1>2, <2>3, CallFacts
      DEF SendCancel, InRole, Sane, CancelOf, SessionFrames, Kinds
    <3>2. \/ Slots!Post(call[k].agent, CancelOf(SidOf[k]))
          \/ UNCHANGED <<owner, spent, mail>>
      BY <2>3 DEF SendCancel, CancelOf
    <3> QED
      BY <2>2, <3>1, <3>2
  <2>4. ASSUME NEW k \in Calls, PumpForwards(k) PROVE Slots!Next
    <3>1. /\ call[k].pump = "forward"
          /\ Slots!Post(call[k].agent, [kind |-> call[k].pending, sid |-> SidOf[k]])
      BY <2>4 DEF PumpForwards
    <3>2. InRole(k, call[k]) /\ SidOf[k] \in Sids
      BY <1>2, CallFacts
    <3>3. call[k].reason # "none" /\ call[k].pending \in Kinds
      BY <3>1, <3>2 DEF InRole, Sane, CallStates
    <3>4. [kind |-> call[k].pending, sid |-> SidOf[k]] \in SessionFrames
      BY <3>2, <3>3 DEF SessionFrames
    <3> QED
      BY <2>2, <3>1, <3>3, <3>4
  <2>5. ASSUME NEW k \in Calls, HandlerStep(k) \/ PumpStep(k) \/ OperatorLeaves(k)
        PROVE  [Slots!Next]_(Slots!vars)
    <3>1. CASE SendCancel(k) \/ PumpForwards(k)
      BY <2>3, <2>4, <3>1
    <3>2. CASE UNCHANGED <<owner, spent, mail>>
      BY <3>2
    <3>3. \/ SendCancel(k) \/ PumpForwards(k)
          \/ UNCHANGED <<owner, spent, mail>>
      BY <2>5 DEF HandlerStep, Lookup, LookupRefused, Attach, AttachRefused,
         CtxExpires, LeaveMaxDuration, LeaveIdle, LeaveClosed, LeaveOpErr, Leave,
         LeaveClosing, BrowserWrite, BrowserWriteFails, CloseSession, PumpStep, PumpReads,
         PumpReadFails, PumpBackpressure, PumpPanics, OperatorLeaves, agentVars
    <3> QED
      BY <3>1, <3>2, <3>3
  <2>6. ASSUME NEW s \in Sids, IssueSession(s) \/ TokenExpires(s)
        PROVE  UNCHANGED <<owner, spent, mail>>
    BY <2>6 DEF IssueSession, TokenExpires, agentVars
  <2>7. CASE UNCHANGED vars
    BY <2>7 DEF vars
  <2> QED
    BY <1>2, <2>1, <2>5, <2>6, <2>7 DEF Next
<1> QED
  BY <1>1, <1>2, SpecIInv, PTL DEF Spec, Slots!Spec
=============================================================================
