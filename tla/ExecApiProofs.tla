--------------------------- MODULE ExecApiProofs ---------------------------
(***************************************************************************)
(* Theorems about ExecApi, for any number of connections and requests, and *)
(* any capacity of the queues the assumption allows.                       *)
(***************************************************************************)
EXTENDS ExecApi, FiniteSetTheorems, SequenceTheorems, TLAPS

\* How many frames the agent may still send for a command.
FramesLeft(j) ==
    CASE j \in {"none", "ack"} -> 4 [] j \in {"running", "stdout"} -> 3
      [] j = "stderr" -> 2 [] j = "exit" -> 1 [] j = "ended" -> 0

ExecOf(r) == [kind |-> "exec", req |-> r]
CancelOf(r) == [kind |-> "cancel", req |-> r]

\* The handler of r is in the state m, the agent is at j with the command of r
\* and has sent the frames of s.  The life of a handler: ...
Lives(r, m, j) ==
    /\ m.attached <=> m.pc \in {"send", "wait", "cancel"}
    /\ m.attached => m.agent # NoConn /\ m.audit = <<"exec.start">>
    /\ m.attached \/ m.pc = "idle" => ~m.closed /\ m.answer = "none"
    /\ m.pc = "idle" => m.audit = <<>>
    /\ m.agent # NoConn => ConnOrg[m.agent] = ReqOrg[r]
    /\ j # "none" => m.agent # NoConn /\ m.pc \in {"wait", "cancel", "done"}

\* ... and the frames: those in the channel and those to come fit, the exit is
\* the last one, and no output is lost between the agent and the result.
Collects(m, j, s) ==
    /\ Len(m.toBrowser) + FramesLeft(j) <= 4
    /\ j = "none" => m.toBrowser = <<>> /\ m.output = {} /\ s = {}
    /\ \A i \in DOMAIN m.toBrowser :
           m.toBrowser[i] = "exit" => i = Len(m.toBrowser) /\ j = "ended"
    /\ m.pc \in {"wait", "cancel"} =>
           \A x \in Streams :
               x \in s <=> x \in m.output
                           \/ \E i \in DOMAIN m.toBrowser : m.toBrowser[i] = x
    /\ m.answer = "result" => j = "ended" /\ m.output = s \cap Streams

Requested == \A r \in Reqs : Lives(r, h[r], job[r]) /\ Collects(h[r], job[r], sent[r])

\* Somebody waits for the command of r, or its Cancel is queued or lost.
Watched(r) ==
    \/ h[r].pc \in {"wait", "cancel"}
    \/ \E i \in DOMAIN mail[h[r].agent] : mail[h[r].agent][i] = CancelOf(r)
    \/ h[r].cancel \in {"dropped", "gone"}

\* A queued frame is for the agent of its request; an exec is the request's
\* first frame, the agent has not seen it, and its command is watched already;
\* a Cancel is the handler's last act.
MailInOrder ==
    \A c \in Conns : \A i \in DOMAIN mail[c] :
        LET r == mail[c][i].req IN
        /\ h[r].agent = c
        /\ mail[c][i].kind = "cancel" => h[r].pc = "done"
        /\ mail[c][i].kind = "exec" =>
               /\ job[r] = "none" /\ h[r].pc \notin {"idle", "send"} /\ Watched(r)
               /\ \A j \in DOMAIN mail[c] : j # i /\ mail[c][j].req = r => i < j

AllWatched == \A r \in Reqs : Running(r) => Watched(r)

\* The inductive invariant.
IInv == TypeOK /\ Requested /\ MailInOrder /\ AllWatched

-----------------------------------------------------------------------------
(* The frames of a command *)

LEMMA FramesLeftFacts ==
    /\ FramesLeft("none") = 4 /\ FramesLeft("ack") = 4 /\ FramesLeft("running") = 3
    /\ FramesLeft("stdout") = 3 /\ FramesLeft("stderr") = 2
    /\ FramesLeft("exit") = 1 /\ FramesLeft("ended") = 0
BY DEF FramesLeft

\* The channel holds a frame of every kind.
LEMMA CapFacts == ToBrowserCap \in Nat /\ ToBrowserCap >= 4
<1>1. IsFiniteSet({}) /\ Cardinality({}) = 0
  BY FS_EmptySet
<1>2. IsFiniteSet({"stdout"}) /\ Cardinality({"stdout"}) = 1
  BY FS_Singleton
<1>3. IsFiniteSet({"stdout", "stderr"}) /\ Cardinality({"stdout", "stderr"}) = 2
  <2>1. {"stdout", "stderr"} = {"stdout"} \cup {"stderr"} /\ "stderr" \notin {"stdout"}
    OBVIOUS
  <2> QED
    BY <1>2, <2>1, FS_AddElement
<1>4. IsFiniteSet({"stdout", "stderr", "ack"})
      /\ Cardinality({"stdout", "stderr", "ack"}) = 3
  <2>1. /\ {"stdout", "stderr", "ack"} = {"stdout", "stderr"} \cup {"ack"}
        /\ "ack" \notin {"stdout", "stderr"}
    OBVIOUS
  <2> QED
    BY <1>3, <2>1, FS_AddElement
<1>5. Cardinality(Answers) = 4
  <2>1. /\ Answers = {"stdout", "stderr", "ack"} \cup {"exit"}
        /\ "exit" \notin {"stdout", "stderr", "ack"}
    BY DEF Answers, Streams
  <2> QED
    BY <1>4, <2>1, FS_AddElement
<1> QED
  BY <1>5, ExecApiAssumption

\* What is left once the oldest frame is taken.
LEMMA TailFacts ==
    ASSUME NEW S, NEW q \in Seq(S), q # <<>>
    PROVE  /\ Tail(q) \in Seq(S) /\ Len(Tail(q)) = Len(q) - 1 /\ Len(q) >= 1
           /\ Head(q) = q[1] /\ 1 \in DOMAIN q /\ q[1] \in S
           /\ \A i \in DOMAIN Tail(q) : i + 1 \in DOMAIN q /\ Tail(q)[i] = q[i + 1]
           /\ \A i \in DOMAIN q : i # 1 => /\ i - 1 \in DOMAIN Tail(q)
                                          /\ Tail(q)[i - 1] = q[i]
OBVIOUS

LEMMA AppendFacts ==
    ASSUME NEW S, NEW q \in Seq(S), NEW x \in S
    PROVE  /\ Append(q, x) \in Seq(S) /\ Len(Append(q, x)) = Len(q) + 1
           /\ Append(q, x)[Len(q) + 1] = x
           /\ \A i \in DOMAIN q : Append(q, x)[i] = q[i]
           /\ DOMAIN Append(q, x) = DOMAIN q \cup {Len(q) + 1}
OBVIOUS

-----------------------------------------------------------------------------

\* Nothing has happened yet.
LEMMA InitIInv == Init => IInv
<1> SUFFICES ASSUME Init PROVE IInv
  OBVIOUS
<1> USE ExecApiAssumption DEF Init, Slots!Init
<1>1. h \in [Reqs -> Handlers]
  BY DEF Handlers, Trails
<1>2. /\ owner \in [Devices -> Conns \cup {NoConn}] /\ spent \in SUBSET Conns
      /\ mail \in [Conns -> Seq(Requests)] /\ linkUp \in [Conns -> BOOLEAN]
  OBVIOUS
<1>3. /\ job \in [Reqs -> Answers \cup {"none", "running", "ended"}]
      /\ killed \in [Reqs -> BOOLEAN] /\ sent \in [Reqs -> SUBSET Answers]
  OBVIOUS
<1>4. /\ \A c \in Conns : Len(mail[c]) <= BufSize
      /\ \A r \in Reqs : Len(h[r].toBrowser) <= ToBrowserCap
  BY CapFacts
<1>5. TypeOK
  BY <1>1, <1>2, <1>3, <1>4 DEF TypeOK
<1>6. Requested
  BY FramesLeftFacts DEF Requested, Lives, Collects
<1>7. MailInOrder
  BY DEF MailInOrder
<1>8. AllWatched
  BY DEF AllWatched, Running
<1> QED
  BY <1>5, <1>6, <1>7, <1>8 DEF IInv

-----------------------------------------------------------------------------
(* Steps of one request *)

\* What the invariant says of one request.
LEMMA RequestFacts ==
    ASSUME IInv, NEW r \in Reqs
    PROVE  /\ h[r] \in Handlers /\ h[r].toBrowser \in Seq(Answers)
           /\ Len(h[r].toBrowser) <= ToBrowserCap
           /\ Lives(r, h[r], job[r]) /\ Collects(h[r], job[r], sent[r])
           /\ job[r] \in Answers \cup {"none", "running", "ended"}
           /\ sent[r] \in SUBSET Answers
           /\ h[r].agent # NoConn => h[r].agent \in Conns
BY DEF IInv, TypeOK, Requested, Handlers

LEMMA MailFacts ==
    ASSUME TypeOK, NEW c \in Conns, NEW i \in DOMAIN mail[c]
    PROVE  /\ i \in Nat /\ i >= 1 /\ mail[c][i] \in Requests
           /\ mail[c][i].req \in Reqs /\ mail[c][i].kind \in {"exec", "cancel"}
<1>1. mail[c] \in Seq(Requests)
  BY DEF TypeOK
<1>2. i \in Nat /\ i >= 1 /\ mail[c][i] \in Requests
  BY <1>1
<1> QED
  BY <1>2 DEF Requests

\* A step of handler r that gives its local state the value m.
LEMMA OwnStep ==
    ASSUME TypeOK, NEW r \in Reqs, NEW m \in Handlers,
           Len(m.toBrowser) <= ToBrowserCap, h' = [h EXCEPT ![r] = m]
    PROVE  /\ h' \in [Reqs -> Handlers]
           /\ h'[r] = m
           /\ \A q \in Reqs : q # r => h'[q] = h[q]
           /\ \A q \in Reqs : Len(h'[q].toBrowser) <= ToBrowserCap
BY DEF TypeOK

\* With the local state m, handler r is still where a handler can be, and does
\* not give up on a command that may run, or only with its Cancel lost.
InRole(r, m) ==
    /\ m \in Handlers /\ Len(m.toBrowser) <= ToBrowserCap
    /\ Lives(r, m, job[r]) /\ Collects(m, job[r], sent[r])
    /\ h[r].pc # "idle" => m.agent = h[r].agent
    /\ h[r].pc = "done" => m.pc = "done"
    /\ h[r].pc \notin {"idle", "send"} => m.pc \notin {"idle", "send"}
    /\ h[r].pc \in {"wait", "cancel"} =>
           \/ m.pc \in {"wait", "cancel"} \/ m.cancel \in {"dropped", "gone"}
           \/ job[r] = "ended"
    /\ h[r].cancel \in {"dropped", "gone"} => m.cancel \in {"dropped", "gone"}

\* A step of a handler that sends nothing to the agent.
LEMMA QuietStep ==
    ASSUME IInv, NEW r \in Reqs, NEW m, h' = [h EXCEPT ![r] = m], InRole(r, m),
           UNCHANGED agentVars
    PROVE  IInv'
<1>1. TypeOK /\ Requested /\ MailInOrder /\ AllWatched
  BY DEF IInv
<1>2. /\ h' \in [Reqs -> Handlers] /\ h'[r] = m
      /\ \A q \in Reqs : q # r => h'[q] = h[q]
      /\ \A q \in Reqs : Len(h'[q].toBrowser) <= ToBrowserCap
  BY <1>1, OwnStep DEF InRole
<1>3. UNCHANGED <<owner, spent, mail, linkUp, job, killed, sent>>
  BY DEF agentVars
<1>4. TypeOK'
  BY <1>1, <1>2, <1>3 DEF TypeOK
<1>5. Requested'
  BY <1>1, <1>2, <1>3 DEF Requested, InRole
<1>6. ASSUME NEW q \in Reqs, Watched(q), h[q].pc # "idle", job[q] # "ended"
      PROVE  Watched(q)'
  <2>1. CASE q = r
    BY <1>2, <1>3, <1>6, <2>1 DEF Watched, InRole
  <2>2. CASE q # r
    BY <1>2, <1>3, <1>6, <2>2 DEF Watched
  <2> QED
    BY <2>1, <2>2
<1>7. MailInOrder'
  <2> SUFFICES ASSUME NEW c \in Conns, NEW i \in DOMAIN mail[c], NEW q,
                      q = mail[c][i].req
               PROVE  /\ h'[q].agent = c
                      /\ mail[c][i].kind = "cancel" => h'[q].pc = "done"
                      /\ mail[c][i].kind = "exec" =>
                             /\ job[q] = "none" /\ h'[q].pc \notin {"idle", "send"}
                             /\ Watched(q)'
                             /\ \A j \in DOMAIN mail[c] :
                                    j # i /\ mail[c][j].req = q => i < j
    BY <1>3 DEF MailInOrder
  <2>1. q \in Reqs /\ mail[c][i].kind \in {"exec", "cancel"}
    BY <1>1, MailFacts
  <2>2. /\ h[q].agent = c
        /\ mail[c][i].kind = "cancel" => h[q].pc = "done"
        /\ mail[c][i].kind = "exec" =>
               /\ job[q] = "none" /\ h[q].pc \notin {"idle", "send"} /\ Watched(q)
               /\ \A j \in DOMAIN mail[c] : j # i /\ mail[c][j].req = q => i < j
    BY <1>1 DEF MailInOrder
  <2>3. /\ h'[q].agent = h[q].agent
        /\ h[q].pc = "done" => h'[q].pc = "done"
        /\ h[q].pc \notin {"idle", "send"} => h'[q].pc \notin {"idle", "send"}
    BY <1>2, <2>1, <2>2 DEF InRole
  <2> QED
    BY <1>6, <2>1, <2>2, <2>3
<1>8. AllWatched'
  <2> SUFFICES ASSUME NEW q \in Reqs, Running(q)' PROVE Watched(q)'
    BY DEF AllWatched
  <2>1. Running(q) /\ job[q] \in {"ack", "running"}
    BY <1>3 DEF Running
  <2>2. h[q].pc # "idle"
    BY <2>1, RequestFacts DEF Lives
  <2> QED
    BY <1>1, <1>6, <2>1, <2>2 DEF AllWatched
<1> QED
  BY <1>4, <1>5, <1>7, <1>8 DEF IInv

LEMMA PairFact ==
    ASSUME NEW a, NEW b
    PROVE  <<a>> \o <<b>> = <<a, b>>
<1> DEFINE S == {a, b}
           s == <<a>>
           t == <<b>>
           u == <<a, b>>
<1>1. /\ s \in Seq(S) /\ Len(s) = 1 /\ s[1] = a
      /\ t \in Seq(S) /\ Len(t) = 1 /\ t[1] = b
  OBVIOUS
<1>2. u \in Seq(S) /\ Len(u) = 2 /\ u[1] = a /\ u[2] = b
  OBVIOUS
<1> HIDE DEF s, t, u, S
<1>3. /\ s \o t \in Seq(S) /\ Len(s \o t) = 2
      /\ \A i \in 1..2 : (s \o t)[i] = IF i <= 1 THEN s[i] ELSE t[i - 1]
  BY <1>1, ConcatProperties
<1>4. (s \o t)[1] = a /\ (s \o t)[2] = b
  BY <1>1, <1>3
<1>5. \A i \in 1..2 : (s \o t)[i] = u[i]
  <2>1. \A i \in 1..2 : i = 1 \/ i = 2
    OBVIOUS
  <2> QED
    BY <1>2, <1>4, <2>1
<1>6. s \o t = u
  BY <1>2, <1>3, <1>5, SeqEqual
<1> QED
  BY <1>6 DEF s, t, u

\* The audit trails of a handler that returns.
LEMMA TrailFacts ==
    /\ <<"exec.start">> \in Trails
    /\ <<"exec.start">> \o <<>> = <<"exec.start">>
    /\ <<"exec.start">> \o <<"exec.exit">> \in Trails
<1>1. <<"exec.start">> \o <<>> = <<"exec.start">>
  <2>1. <<"exec.start">> \in Seq({"exec.start"})
    OBVIOUS
  <2> QED
    BY <2>1, ConcatEmptySeq
<1>2. <<"exec.start">> \o <<"exec.exit">> = <<"exec.start", "exec.exit">>
  BY PairFact
<1> QED
  BY <1>1, <1>2 DEF Trails

\* The answers of a handler that had attached its session, and the events that
\* end its audit trail.
Outcomes == {"backpressure", "result", "timed out", "aborted"}
Epilogues == {<<>>, <<"exec.exit">>}

\* What the deferred detach leaves of the handler's state.
Returned(r, answer, events) ==
    [h[r] EXCEPT !.pc = "done", !.attached = FALSE, !.closed = TRUE,
                 !.answer = answer, !.audit = @ \o events]

\* The handler's state n is that of one that has returned with the answer.
Returns(r, n, answer) ==
    /\ n \in Handlers
    /\ n.pc = "done" /\ n.agent = h[r].agent /\ n.attached = FALSE
    /\ n.toBrowser = h[r].toBrowser /\ n.closed = TRUE /\ n.output = h[r].output
    /\ n.answer = answer /\ n.cancel = h[r].cancel

LEMMA ReturnedFacts ==
    ASSUME IInv, NEW r \in Reqs, h[r].attached,
           NEW answer \in Outcomes, NEW events \in Epilogues
    PROVE  /\ Returning(r, answer, events) = [h EXCEPT ![r] = Returned(r, answer, events)]
           /\ Returns(r, Returned(r, answer, events), answer)
<1> DEFINE n == Returned(r, answer, events)
<1> DEFINE trail == h[r].audit \o events
<1>1. h[r] \in Handlers /\ h[r].audit = <<"exec.start">>
  BY RequestFacts DEF Lives, Handlers
<1>2. trail \in Trails
  <2>1. CASE events = <<>>
    BY <1>1, <2>1, TrailFacts
  <2>2. CASE events = <<"exec.exit">>
    BY <1>1, <2>2, TrailFacts
  <2> QED
    BY <2>1, <2>2 DEF Epilogues
<1>3. n = [h[r] EXCEPT !.pc = "done", !.attached = FALSE, !.closed = TRUE,
                       !.answer = answer, !.audit = trail]
  BY DEF Returned
<1>4. Returning(r, answer, events) = [h EXCEPT ![r] = n]
  BY DEF Returning, Returned
<1> HIDE DEF trail, n
<1>5. n \in Handlers
  BY <1>1, <1>2, <1>3 DEF Handlers, Outcomes
<1>6. /\ n.pc = "done" /\ n.agent = h[r].agent /\ n.attached = FALSE
      /\ n.toBrowser = h[r].toBrowser /\ n.closed = TRUE
      /\ n.output = h[r].output /\ n.answer = answer
      /\ n.cancel = h[r].cancel
  BY <1>1, <1>3 DEF Handlers
<1> QED
  BY <1>4, <1>5, <1>6 DEF n, Returns

\* The handler, where it neither sends nor collects.
LEMMA HandlerIInv ==
    ASSUME IInv, NEW r \in Reqs,
           \/ Accept(r) \/ Refuse(r) \/ SendExecFull(r) \/ SendExecPanics(r)
           \/ TimesOut(r) \/ SendCancelPanics(r)
    PROVE  IInv'
<1>1. /\ h[r] \in Handlers /\ h[r].toBrowser \in Seq(Answers)
      /\ Len(h[r].toBrowser) <= ToBrowserCap
      /\ Lives(r, h[r], job[r]) /\ Collects(h[r], job[r], sent[r])
  BY RequestFacts
<1>2. <<"exec.start">> \in Trails
  BY TrailFacts
<1>3. CASE Accept(r)
  <2> DEFINE a == owner[Device]
             m == [h[r] EXCEPT !.pc = "send", !.agent = a,
                               !.attached = TRUE, !.audit = <<"exec.start">>]
  <2>1. h[r].pc = "idle" /\ a # NoConn /\ ConnOrg[a] = ReqOrg[r]
    BY <1>3 DEF Accept
  <2>2. h' = [h EXCEPT ![r] = m] /\ UNCHANGED agentVars
    BY <1>3 DEF Accept
  <2>3. a \in Conns
    BY <2>1 DEF IInv, TypeOK, Devices
  <2> HIDE DEF a
  <2>4. m \in Handlers
    BY <1>1, <1>2, <2>3 DEF Handlers
  <2>5. /\ m.pc = "send" /\ m.agent = a /\ m.attached = TRUE
        /\ m.toBrowser = h[r].toBrowser /\ m.closed = h[r].closed
        /\ m.output = h[r].output /\ m.answer = h[r].answer
        /\ m.cancel = h[r].cancel /\ m.audit = <<"exec.start">>
    BY <1>1 DEF Handlers
  <2> HIDE DEF m
  <2>6. Lives(r, m, job[r])
    BY <1>1, <2>1, <2>5 DEF Lives
  <2>7. Collects(m, job[r], sent[r])
    BY <1>1, <2>1, <2>5 DEF Collects
  <2>8. InRole(r, m)
    BY <1>1, <2>1, <2>4, <2>5, <2>6, <2>7 DEF InRole
  <2> QED
    BY <2>2, <2>8, QuietStep
<1>4. CASE Refuse(r)
  <2> DEFINE m == [h[r] EXCEPT !.pc = "done", !.answer = "refused"]
  <2>1. h[r].pc = "idle"
    BY <1>4 DEF Refuse
  <2>2. h' = [h EXCEPT ![r] = m] /\ UNCHANGED agentVars
    BY <1>4 DEF Refuse
  <2>3. m \in Handlers
    BY <1>1 DEF Handlers
  <2>4. /\ m.pc = "done" /\ m.agent = h[r].agent
        /\ m.attached = h[r].attached /\ m.toBrowser = h[r].toBrowser
        /\ m.closed = h[r].closed /\ m.output = h[r].output
        /\ m.answer = "refused" /\ m.cancel = h[r].cancel
        /\ m.audit = h[r].audit
    BY <1>1 DEF Handlers
  <2> HIDE DEF m
  <2>5. Lives(r, m, job[r])
    BY <1>1, <2>1, <2>4 DEF Lives
  <2>6. Collects(m, job[r], sent[r])
    BY <1>1, <2>1, <2>4 DEF Collects, Lives
  <2>7. InRole(r, m)
    BY <1>1, <2>1, <2>3, <2>4, <2>5, <2>6 DEF InRole
  <2> QED
    BY <2>2, <2>7, QuietStep
<1>5. CASE SendExecFull(r)
  <2> DEFINE m == Returned(r, "backpressure", <<>>)
  <2>1. h[r].pc = "send" /\ h[r].attached /\ job[r] = "none"
    BY <1>1, <1>5 DEF SendExecFull, Lives
  <2>2. h' = Returning(r, "backpressure", <<>>) /\ UNCHANGED agentVars
    BY <1>5 DEF SendExecFull
  <2>3. /\ Returning(r, "backpressure", <<>>) = [h EXCEPT ![r] = m]
        /\ Returns(r, m, "backpressure")
    <3>1. "backpressure" \in Outcomes /\ <<>> \in Epilogues
      BY DEF Outcomes, Epilogues
    <3> QED
      BY <2>1, <3>1, ReturnedFacts
  <2> HIDE DEF m
  <2>4. Lives(r, m, job[r])
    BY <1>1, <2>1, <2>3 DEF Lives, Returns
  <2>5. Collects(m, job[r], sent[r])
    BY <1>1, <2>1, <2>3 DEF Collects, Returns
  <2>6. InRole(r, m)
    BY <1>1, <2>1, <2>3, <2>4, <2>5 DEF InRole, Returns
  <2> QED
    BY <2>2, <2>3, <2>6, QuietStep
<1>6. CASE SendExecPanics(r)
  <2> DEFINE m == Returned(r, "aborted", <<>>)
  <2>1. h[r].pc = "send" /\ h[r].attached /\ job[r] = "none"
    BY <1>1, <1>6 DEF SendExecPanics, Lives
  <2>2. h' = Returning(r, "aborted", <<>>) /\ UNCHANGED agentVars
    BY <1>6 DEF SendExecPanics
  <2>3. /\ Returning(r, "aborted", <<>>) = [h EXCEPT ![r] = m]
        /\ Returns(r, m, "aborted")
    <3>1. "aborted" \in Outcomes /\ <<>> \in Epilogues
      BY DEF Outcomes, Epilogues
    <3> QED
      BY <2>1, <3>1, ReturnedFacts
  <2> HIDE DEF m
  <2>4. Lives(r, m, job[r])
    BY <1>1, <2>1, <2>3 DEF Lives, Returns
  <2>5. Collects(m, job[r], sent[r])
    BY <1>1, <2>1, <2>3 DEF Collects, Returns
  <2>6. InRole(r, m)
    BY <1>1, <2>1, <2>3, <2>4, <2>5 DEF InRole, Returns
  <2> QED
    BY <2>2, <2>3, <2>6, QuietStep
<1>7. CASE TimesOut(r)
  <2> DEFINE m == [h[r] EXCEPT !.pc = "cancel"]
  <2>1. h[r].pc = "wait"
    BY <1>7 DEF TimesOut
  <2>2. h' = [h EXCEPT ![r] = m] /\ UNCHANGED agentVars
    BY <1>7 DEF TimesOut
  <2>3. m \in Handlers
    BY <1>1 DEF Handlers
  <2>4. /\ m.pc = "cancel" /\ m.agent = h[r].agent
        /\ m.attached = h[r].attached /\ m.toBrowser = h[r].toBrowser
        /\ m.closed = h[r].closed /\ m.output = h[r].output
        /\ m.answer = h[r].answer /\ m.cancel = h[r].cancel
        /\ m.audit = h[r].audit
    BY <1>1 DEF Handlers
  <2> HIDE DEF m
  <2>5. Lives(r, m, job[r])
    BY <1>1, <2>1, <2>4 DEF Lives
  <2>6. Collects(m, job[r], sent[r])
    BY <1>1, <2>1, <2>4 DEF Collects, Lives
  <2>7. InRole(r, m)
    BY <1>1, <2>1, <2>3, <2>4, <2>5, <2>6 DEF InRole
  <2> QED
    BY <2>2, <2>7, QuietStep
<1>8. CASE SendCancelPanics(r)
  <2>1. h[r].pc = "cancel" /\ h[r].attached
    BY <1>1, <1>8 DEF SendCancelPanics, Lives
  <2> DEFINE n == Returned(r, "aborted", <<>>)
             m == [n EXCEPT !.cancel = "gone"]
  <2>2. /\ Returning(r, "aborted", <<>>) = [h EXCEPT ![r] = n]
        /\ Returns(r, n, "aborted")
    <3>1. "aborted" \in Outcomes /\ <<>> \in Epilogues
      BY DEF Outcomes, Epilogues
    <3> QED
      BY <2>1, <3>1, ReturnedFacts
  <2> HIDE DEF n
  <2>3. h' = [h EXCEPT ![r] = m] /\ UNCHANGED agentVars
    BY <1>8, <2>2 DEF SendCancelPanics, IInv, TypeOK
  <2>4. m \in Handlers
    BY <2>2 DEF Returns, Handlers
  <2>5. /\ m.pc = "done" /\ m.agent = h[r].agent /\ m.attached = FALSE
        /\ m.toBrowser = h[r].toBrowser /\ m.closed = TRUE
        /\ m.output = h[r].output /\ m.answer = "aborted" /\ m.cancel = "gone"
    BY <2>2 DEF Returns, Handlers
  <2> HIDE DEF m
  <2>6. Lives(r, m, job[r])
    BY <1>1, <2>1, <2>5 DEF Lives
  <2>7. Collects(m, job[r], sent[r])
    BY <1>1, <2>1, <2>5 DEF Collects
  <2>8. InRole(r, m)
    BY <1>1, <2>1, <2>4, <2>5, <2>6, <2>7 DEF InRole
  <2> QED
    BY <2>3, <2>8, QuietStep
<1> QED
  BY <1>3, <1>4, <1>5, <1>6, <1>7, <1>8

\* collectExecResult takes a frame: the exit comes last, so that the result has
\* all the output.
LEMMA CollectIInv ==
    ASSUME IInv, NEW r \in Reqs, Collect(r)
    PROVE  IInv'
<1> DEFINE b == h[r].toBrowser
           f == Head(b)
           q == Tail(b)
           o == h[r].output \cup ({f} \cap Streams)
<1>1. /\ h[r] \in Handlers /\ b \in Seq(Answers) /\ Len(b) <= ToBrowserCap
      /\ Lives(r, h[r], job[r]) /\ Collects(h[r], job[r], sent[r])
  BY RequestFacts
<1>2. h[r].pc = "wait" /\ b # <<>> /\ UNCHANGED agentVars
  BY DEF Collect, TakeFrame
<1>3. /\ q \in Seq(Answers) /\ Len(q) = Len(b) - 1 /\ Len(b) \in Nat
      /\ f = b[1] /\ 1 \in DOMAIN b /\ b[1] \in Answers /\ Len(b) >= 1
      /\ \A i \in DOMAIN q : i + 1 \in DOMAIN b /\ q[i] = b[i + 1] /\ i \in Nat
      /\ \A i \in DOMAIN b : i # 1 => i - 1 \in DOMAIN q /\ q[i - 1] = b[i]
  BY <1>1, <1>2, TailFacts
<1>4. Len(q) \in Nat /\ Len(q) <= Len(b) /\ Len(q) <= ToBrowserCap
  BY <1>1, <1>3, CapFacts
<1>5. /\ h[r].output \in SUBSET Streams /\ o \in SUBSET Streams
      /\ \A x \in Streams : x \in o <=> x \in h[r].output \/ x = b[1]
  BY <1>1, <1>3 DEF Handlers
<1>6. /\ job[r] # "none" /\ job[r] \in Answers \cup {"running", "ended"}
      /\ FramesLeft(job[r]) \in Nat
      /\ Len(b) + FramesLeft(job[r]) <= 4
      /\ \A i \in DOMAIN b : b[i] = "exit" => i = Len(b) /\ job[r] = "ended"
      /\ \A x \in Streams : x \in sent[r] <=>
             x \in h[r].output \/ \E i \in DOMAIN b : b[i] = x
  <2>1. job[r] # "none"
    BY <1>1, <1>2 DEF Collects
  <2>2. job[r] \in Answers \cup {"running", "ended"}
    BY <2>1, RequestFacts
  <2>3. FramesLeft(job[r]) \in Nat
    BY <2>2, FramesLeftFacts DEF Answers, Streams
  <2> QED
    BY <1>1, <1>2, <2>1, <2>2, <2>3 DEF Collects
<1> HIDE DEF o, q, f, b
<1>7. Len(q) + FramesLeft(job[r]) <= 4
  BY <1>3, <1>4, <1>6
<1>8. ASSUME NEW i \in DOMAIN q, q[i] = "exit"
      PROVE  i = Len(q) /\ job[r] = "ended"
  <2>1. i \in Nat /\ i + 1 = Len(b) /\ job[r] = "ended"
    BY <1>3, <1>6, <1>8
  <2> QED
    BY <1>3, <2>1
<1>9. ASSUME NEW x \in Streams
      PROVE  x \in sent[r] <=> x \in o \/ \E i \in DOMAIN q : q[i] = x
  <2>1. (\E i \in DOMAIN b : b[i] = x) <=> b[1] = x \/ \E i \in DOMAIN q : q[i] = x
    BY <1>3
  <2> QED
    BY <1>5, <1>6, <2>1
<1>10. CASE f = "exit"
  <2> DEFINE n == Returned(r, "result", <<"exec.exit">>)
             m == [n EXCEPT !.toBrowser = q, !.output = o]
  <2>1. h[r].attached
    BY <1>1, <1>2 DEF Lives
  <2>2. /\ Returning(r, "result", <<"exec.exit">>) = [h EXCEPT ![r] = n]
        /\ Returns(r, n, "result")
    <3>1. "result" \in Outcomes /\ <<"exec.exit">> \in Epilogues
      BY DEF Outcomes, Epilogues
    <3> QED
      BY <2>1, <3>1, ReturnedFacts
  <2>3. h' = [[h EXCEPT ![r] = n] EXCEPT ![r].toBrowser = Tail(@),
                                         ![r].output = @ \cup ({f} \cap Streams)]
    BY <1>10, <2>2 DEF Collect, TakeFrame, f, b
  <2> HIDE DEF n
  <2>4. h' = [h EXCEPT ![r] = m]
    BY <2>2, <2>3 DEF Returns, IInv, TypeOK, Handlers, o, q, b
  <2>5. m \in Handlers
    BY <1>3, <1>5, <2>2 DEF Returns, Handlers
  <2>6. /\ m.pc = "done" /\ m.agent = h[r].agent /\ m.attached = FALSE
        /\ m.toBrowser = q /\ m.closed = TRUE /\ m.output = o
        /\ m.answer = "result" /\ m.cancel = h[r].cancel
    BY <2>2 DEF Returns, Handlers
  <2> HIDE DEF m
  <2>7. job[r] = "ended" /\ DOMAIN q = {}
    <3>1. job[r] = "ended" /\ Len(b) = 1
      BY <1>3, <1>6, <1>10
    <3>2. Len(q) = 0
      BY <1>3, <3>1
    <3> QED
      BY <1>3, <3>1, <3>2
  <2>8. o = sent[r] \cap Streams
    BY <1>5, <1>9, <2>7
  <2>9. Lives(r, m, job[r])
    BY <1>1, <1>2, <2>6 DEF Lives
  <2>10. Collects(m, job[r], sent[r])
    BY <1>6, <1>7, <1>8, <2>6, <2>7, <2>8 DEF Collects
  <2>11. InRole(r, m)
    BY <1>2, <1>4, <2>5, <2>6, <2>7, <2>9, <2>10 DEF InRole
  <2> QED
    BY <1>2, <2>4, <2>11, QuietStep
<1>11. CASE f # "exit"
  <2> DEFINE m == [h[r] EXCEPT !.toBrowser = q, !.output = o]
  <2>1. h' = [h EXCEPT ![r] = m]
    BY <1>11 DEF Collect, TakeFrame, o, q, f, b
  <2>2. m \in Handlers
    BY <1>1, <1>3, <1>5 DEF Handlers
  <2>3. /\ m.pc = "wait" /\ m.agent = h[r].agent /\ m.attached = h[r].attached
        /\ m.toBrowser = q /\ m.closed = h[r].closed /\ m.output = o
        /\ m.answer = h[r].answer /\ m.cancel = h[r].cancel /\ m.audit = h[r].audit
    BY <1>1, <1>2 DEF Handlers
  <2> HIDE DEF m
  <2>4. Lives(r, m, job[r])
    BY <1>1, <1>2, <2>3 DEF Lives
  <2>5. m.answer = "none"
    BY <1>1, <1>2, <2>3 DEF Lives
  <2>6. Collects(m, job[r], sent[r])
    BY <1>6, <1>7, <1>8, <1>9, <2>3, <2>5 DEF Collects
  <2>7. InRole(r, m)
    BY <1>2, <1>4, <2>2, <2>3, <2>4, <2>6 DEF InRole
  <2> QED
    BY <1>2, <2>1, <2>7, QuietStep
<1> QED
  BY <1>10, <1>11

-----------------------------------------------------------------------------
(* Frames for the agent *)

\* Handler r sends its exec and waits, or its Cancel and returns.
LEMMA PostStep ==
    ASSUME IInv, NEW r \in Reqs, NEW f \in Requests, NEW m,
           Slots!Post(h[r].agent, f), f.req = r, h' = [h EXCEPT ![r] = m],
           m \in Handlers, m.agent = h[r].agent, m.toBrowser = h[r].toBrowser,
           Lives(r, m, job[r]), Collects(m, job[r], sent[r]), h[r].agent # NoConn,
           f.kind = "exec" => h[r].pc = "send" /\ m.pc = "wait",
           f.kind = "cancel" => h[r].pc = "cancel" /\ m.pc = "done",
           UNCHANGED <<linkUp, job, killed, sent>>
    PROVE  IInv'
<1> DEFINE a == h[r].agent
           L == Len(mail[a]) + 1
<1>1. TypeOK /\ Requested /\ MailInOrder /\ AllWatched
  BY DEF IInv
<1>2. /\ a \in Conns /\ Len(m.toBrowser) <= ToBrowserCap
      /\ Lives(r, h[r], job[r])
  BY RequestFacts
<1>3. /\ h' \in [Reqs -> Handlers] /\ h'[r] = m
      /\ \A q \in Reqs : q # r => h'[q] = h[q]
      /\ \A q \in Reqs : Len(h'[q].toBrowser) <= ToBrowserCap
  BY <1>1, <1>2, OwnStep
<1>4. \A q \in Reqs : h'[q].agent = h[q].agent
  BY <1>3
<1>5. f.kind \in {"exec", "cancel"} /\ (f.kind = "cancel" => f = CancelOf(r))
  BY DEF Requests, CancelOf
<1>6. /\ Len(mail[a]) < BufSize /\ UNCHANGED <<owner, spent>>
      /\ mail' = [mail EXCEPT ![a] = Append(mail[a], f)]
  BY DEF Slots!Post
<1> HIDE DEF a
<1>7. mail \in [Conns -> Seq(Requests)] /\ mail[a] \in Seq(Requests)
  BY <1>1, <1>2 DEF TypeOK
<1>8. mail'[a] = Append(mail[a], f) /\ \A c \in Conns : c # a => mail'[c] = mail[c]
  BY <1>2, <1>6, <1>7
<1>9. /\ mail'[a] \in Seq(Requests) /\ Len(mail'[a]) = L /\ mail'[a][L] = f
      /\ \A i \in DOMAIN mail[a] : mail'[a][i] = mail[a][i] /\ i < L
      /\ DOMAIN mail'[a] = DOMAIN mail[a] \cup {L} /\ L \in Nat
  <2>1. \A i \in DOMAIN mail[a] : i < L /\ L \in Nat
    BY <1>7
  <2> QED
    BY <1>7, <1>8, <2>1, AppendFacts
<1>10. TypeOK'
  <2>1. mail' \in [Conns -> Seq(Requests)]
    BY <1>6, <1>7, <1>8, <1>9
  <2>2. Len(mail'[a]) <= BufSize
    BY <1>6, <1>7, <1>9, ExecApiAssumption
  <2>3. \A c \in Conns : Len(mail'[c]) <= BufSize
    BY <1>1, <1>8, <2>2 DEF TypeOK
  <2> QED
    BY <1>1, <1>3, <1>6, <2>1, <2>3 DEF TypeOK
<1> HIDE DEF L
<1>11. Requested'
  BY <1>1, <1>3 DEF Requested
<1>12. ASSUME NEW c \in Conns, NEW i \in DOMAIN mail[c]
       PROVE  i \in DOMAIN mail'[c] /\ mail'[c][i] = mail[c][i]
  BY <1>8, <1>9
<1>13. ASSUME NEW q \in Reqs, Watched(q), h[q].agent \in Conns
       PROVE  Watched(q)'
  <2>1. CASE q = r /\ f.kind = "cancel"
    <3>1. h'[q].agent = a /\ L \in DOMAIN mail'[a] /\ mail'[a][L] = CancelOf(q)
      BY <1>4, <1>5, <1>9, <2>1 DEF a
    <3> QED
      BY <3>1 DEF Watched
  <2>2. CASE q = r /\ f.kind = "exec"
    BY <1>3, <2>2 DEF Watched
  <2>3. CASE q # r
    <3>1. h'[q] = h[q]
      BY <1>3, <2>3
    <3>2. ASSUME NEW i \in DOMAIN mail[h[q].agent], mail[h[q].agent][i] = CancelOf(q)
          PROVE  /\ i \in DOMAIN mail'[h[q].agent]
                 /\ mail'[h[q].agent][i] = CancelOf(q)
      BY <1>12, <1>13, <3>2
    <3> QED
      BY <1>13, <3>1, <3>2 DEF Watched
  <2> QED
    BY <1>5, <2>1, <2>2, <2>3
<1>14. ASSUME NEW i \in DOMAIN mail[a], mail[a][i].req = r
       PROVE  f.kind = "cancel"
  <2>1. mail[a][i].kind \in {"exec", "cancel"}
    BY <1>1, <1>2, MailFacts
  <2>2. h[r].pc \notin {"idle", "send"}
    BY <1>1, <1>2, <1>14, <2>1 DEF MailInOrder
  <2> QED
    BY <1>5, <2>2
<1>15. MailInOrder'
  <2> SUFFICES ASSUME NEW c \in Conns, NEW i \in DOMAIN mail'[c], NEW q,
                      q = mail'[c][i].req
               PROVE  /\ h'[q].agent = c
                      /\ mail'[c][i].kind = "cancel" => h'[q].pc = "done"
                      /\ mail'[c][i].kind = "exec" =>
                             /\ job'[q] = "none" /\ h'[q].pc \notin {"idle", "send"}
                             /\ Watched(q)'
                             /\ \A j \in DOMAIN mail'[c] :
                                    j # i /\ mail'[c][j].req = q => i < j
    BY DEF MailInOrder
  <2>1. CASE c = a /\ i = L
    <3>1. q = r /\ mail'[c][i] = f
      BY <1>9, <2>1
    <3>2. h'[q].agent = c /\ (f.kind = "cancel" => h'[q].pc = "done")
      BY <1>3, <1>4, <2>1, <3>1 DEF a
    <3>3. ASSUME f.kind = "exec"
          PROVE  /\ job'[q] = "none" /\ h'[q].pc \notin {"idle", "send"} /\ Watched(q)'
                 /\ \A j \in DOMAIN mail'[c] : j # i /\ mail'[c][j].req = q => i < j
      <4>1. job[r] = "none"
        BY <1>2, <3>3 DEF Lives
      <4>2. h'[q].pc = "wait" /\ Watched(q)'
        BY <1>3, <3>1, <3>3 DEF Watched
      <4>3. ASSUME NEW j \in DOMAIN mail'[c], j # i, mail'[c][j].req = q
            PROVE  FALSE
        <5>1. j \in DOMAIN mail[a] /\ mail[a][j].req = r
          BY <1>9, <2>1, <3>1, <4>3
        <5> QED
          BY <1>14, <3>3, <5>1
      <4> QED
        BY <3>1, <4>1, <4>2, <4>3
    <3> QED
      BY <3>1, <3>2, <3>3
  <2>2. CASE ~(c = a /\ i = L)
    <3>1. i \in DOMAIN mail[c] /\ mail'[c][i] = mail[c][i]
      BY <1>8, <1>9, <2>2
    <3>2. q \in Reqs /\ mail[c][i].kind \in {"exec", "cancel"} /\ q = mail[c][i].req
      BY <1>1, <3>1, MailFacts
    <3>3. /\ h[q].agent = c
          /\ mail[c][i].kind = "cancel" => h[q].pc = "done"
          /\ mail[c][i].kind = "exec" =>
                 /\ job[q] = "none" /\ h[q].pc \notin {"idle", "send"} /\ Watched(q)
                 /\ \A j \in DOMAIN mail[c] : j # i /\ mail[c][j].req = q => i < j
      BY <1>1, <3>1, <3>2 DEF MailInOrder
    <3>4. /\ h[q].pc = "done" => h'[q].pc = "done"
          /\ h[q].pc \notin {"idle", "send"} => h'[q].pc \notin {"idle", "send"}
      BY <1>3, <1>5, <3>2
    <3>5. ASSUME mail[c][i].kind = "exec"
          PROVE  \A j \in DOMAIN mail'[c] : j # i /\ mail'[c][j].req = q => i < j
      <4> SUFFICES ASSUME NEW j \in DOMAIN mail'[c], j # i, mail'[c][j].req = q
                   PROVE  i < j
        OBVIOUS
      <4>1. CASE c = a /\ j = L
        BY <1>9, <3>1, <4>1
      <4>2. CASE ~(c = a /\ j = L)
        <5>1. j \in DOMAIN mail[c] /\ mail'[c][j] = mail[c][j]
          BY <1>8, <1>9, <4>2
        <5> QED
          BY <3>3, <3>5, <5>1
      <4> QED
        BY <4>1, <4>2
    <3> QED
      BY <1>4, <1>13, <3>1, <3>2, <3>3, <3>4, <3>5
  <2> QED
    BY <2>1, <2>2
<1>16. AllWatched'
  <2> SUFFICES ASSUME NEW q \in Reqs, Running(q)' PROVE Watched(q)'
    BY DEF AllWatched
  <2>1. Running(q) /\ job[q] \in {"ack", "running"}
    BY DEF Running
  <2>2. h[q].agent \in Conns
    BY <2>1, RequestFacts DEF Lives
  <2> QED
    BY <1>1, <1>13, <2>1, <2>2 DEF AllWatched
<1> QED
  BY <1>10, <1>11, <1>15, <1>16 DEF IInv

\* a.Send(exec).
LEMMA SendExecIInv ==
    ASSUME IInv, NEW r \in Reqs, SendExec(r)
    PROVE  IInv'
<1> DEFINE m == [h[r] EXCEPT !.pc = "wait"]
           f == ExecOf(r)
<1>1. /\ h[r] \in Handlers
      /\ Lives(r, h[r], job[r]) /\ Collects(h[r], job[r], sent[r])
  BY RequestFacts
<1>2. /\ h[r].pc = "send" /\ h' = [h EXCEPT ![r] = m] /\ Slots!Post(h[r].agent, f)
      /\ UNCHANGED <<linkUp, job, killed, sent>>
  BY DEF SendExec, ExecOf
<1>3. f \in Requests /\ f.req = r /\ f.kind = "exec"
  BY DEF ExecOf, Requests
<1> HIDE DEF f
<1>4. m \in Handlers
  BY <1>1 DEF Handlers
<1>5. /\ m.pc = "wait" /\ m.agent = h[r].agent /\ m.attached = h[r].attached
      /\ m.toBrowser = h[r].toBrowser /\ m.closed = h[r].closed
      /\ m.output = h[r].output /\ m.answer = h[r].answer
      /\ m.cancel = h[r].cancel /\ m.audit = h[r].audit
  BY <1>1 DEF Handlers
<1> HIDE DEF m
<1>6. job[r] = "none" /\ h[r].agent # NoConn /\ m.answer = "none"
  BY <1>1, <1>2, <1>5 DEF Lives
<1>7. Lives(r, m, job[r])
  BY <1>1, <1>2, <1>5 DEF Lives
<1>8. Collects(m, job[r], sent[r])
  <2>1. m.toBrowser = <<>> /\ m.output = {} /\ sent[r] = {}
    BY <1>1, <1>5, <1>6 DEF Collects
  <2> QED
    BY <1>6, <2>1, FramesLeftFacts DEF Collects
<1> QED
  BY <1>2, <1>3, <1>4, <1>5, <1>6, <1>7, <1>8, PostStep

\* The Cancel of a request that timed out, queued or dropped.
LEMMA SendCancelIInv ==
    ASSUME IInv, NEW r \in Reqs, SendCancel(r)
    PROVE  IInv'
<1> DEFINE n == Returned(r, "timed out", <<"exec.exit">>)
           f == CancelOf(r)
<1>1. /\ h[r] \in Handlers /\ Len(h[r].toBrowser) <= ToBrowserCap
      /\ Lives(r, h[r], job[r]) /\ Collects(h[r], job[r], sent[r])
  BY RequestFacts
<1>2. /\ h[r].pc = "cancel" /\ UNCHANGED <<linkUp, job, killed, sent>>
  BY DEF SendCancel
<1>3. h[r].attached /\ h[r].agent # NoConn
  BY <1>1, <1>2 DEF Lives
<1>4. /\ Returning(r, "timed out", <<"exec.exit">>) = [h EXCEPT ![r] = n]
      /\ Returns(r, n, "timed out")
  <2>1. "timed out" \in Outcomes /\ <<"exec.exit">> \in Epilogues
    BY DEF Outcomes, Epilogues
  <2> QED
    BY <1>3, <2>1, ReturnedFacts
<1>5. \/ /\ Slots!Post(h[r].agent, f)
         /\ h' = [[h EXCEPT ![r] = n] EXCEPT ![r].cancel = "queued"]
      \/ /\ h' = [[h EXCEPT ![r] = n] EXCEPT ![r].cancel = "dropped"]
         /\ UNCHANGED <<owner, spent, mail>>
  BY <1>4 DEF SendCancel, CancelOf
<1> HIDE DEF n
<1>6. ASSUME NEW o \in {"queued", "dropped"}, NEW m, m = [n EXCEPT !.cancel = o]
      PROVE  /\ m \in Handlers
             /\ m.pc = "done" /\ m.agent = h[r].agent
             /\ m.toBrowser = h[r].toBrowser /\ m.cancel = o
             /\ Lives(r, m, job[r]) /\ Collects(m, job[r], sent[r])
             /\ [[h EXCEPT ![r] = n] EXCEPT ![r].cancel = o] = [h EXCEPT ![r] = m]
  <2>1. m \in Handlers
    BY <1>4, <1>6 DEF Returns, Handlers
  <2>2. /\ m.pc = "done" /\ m.agent = h[r].agent /\ m.attached = FALSE
        /\ m.toBrowser = h[r].toBrowser /\ m.closed = TRUE
        /\ m.output = h[r].output /\ m.answer = "timed out" /\ m.cancel = o
    BY <1>4, <1>6 DEF Returns, Handlers
  <2>3. [[h EXCEPT ![r] = n] EXCEPT ![r].cancel = o] = [h EXCEPT ![r] = m]
    BY <1>6 DEF IInv, TypeOK
  <2> HIDE <1>6
  <2>4. Lives(r, m, job[r])
    BY <1>1, <1>2, <2>2 DEF Lives
  <2>5. Collects(m, job[r], sent[r])
    BY <1>1, <1>2, <2>2 DEF Collects
  <2> QED
    BY <2>1, <2>2, <2>3, <2>4, <2>5
<1>7. CASE /\ Slots!Post(h[r].agent, f)
           /\ h' = [[h EXCEPT ![r] = n] EXCEPT ![r].cancel = "queued"]
  <2>1. f \in Requests /\ f.req = r /\ f.kind = "cancel"
    BY DEF CancelOf, Requests
  <2> HIDE DEF f
  <2>2. PICK m : m = [n EXCEPT !.cancel = "queued"]
    OBVIOUS
  <2>3. /\ m \in Handlers /\ m.pc = "done" /\ m.agent = h[r].agent
        /\ m.toBrowser = h[r].toBrowser
        /\ Lives(r, m, job[r]) /\ Collects(m, job[r], sent[r])
        /\ h' = [h EXCEPT ![r] = m]
    BY <1>6, <1>7, <2>2
  <2> QED
    BY <1>2, <1>3, <1>7, <2>1, <2>3, PostStep
<1>8. CASE /\ h' = [[h EXCEPT ![r] = n] EXCEPT ![r].cancel = "dropped"]
           /\ UNCHANGED <<owner, spent, mail>>
  <2>1. PICK m : m = [n EXCEPT !.cancel = "dropped"]
    OBVIOUS
  <2>2. /\ m \in Handlers /\ m.pc = "done" /\ m.agent = h[r].agent
        /\ m.toBrowser = h[r].toBrowser /\ m.cancel = "dropped"
        /\ Lives(r, m, job[r]) /\ Collects(m, job[r], sent[r])
        /\ h' = [h EXCEPT ![r] = m]
    BY <1>6, <1>8, <2>1
  <2>3. InRole(r, m)
    BY <1>1, <1>2, <2>2 DEF InRole
  <2>4. UNCHANGED agentVars
    BY <1>2, <1>8 DEF agentVars
  <2> QED
    BY <2>2, <2>3, <2>4, QuietStep
<1> QED
  BY <1>5, <1>7, <1>8

-----------------------------------------------------------------------------
(* The agent *)

\* A slot changes hands: handlers keep the agent they have.
LEMMA SlotStep ==
    ASSUME IInv, NEW c \in Conns, AgentConnects(c) \/ AgentLeaves(c)
    PROVE  IInv'
<1>1. TypeOK /\ Requested /\ MailInOrder /\ AllWatched
  BY DEF IInv
<1>2. /\ owner' \in {[owner EXCEPT ![Device] = c], [owner EXCEPT ![Device] = NoConn]}
      /\ spent' \in {spent, spent \cup {c}}
      /\ linkUp' \in {linkUp, [linkUp EXCEPT ![c] = TRUE]}
      /\ UNCHANGED <<mail, job, killed, sent, h>>
  BY DEF AgentConnects, AgentLeaves, Slots!Claim, Slots!Release
<1>3. TypeOK'
  <2>1. owner' \in [Devices -> Conns \cup {NoConn}]
    BY <1>1, <1>2 DEF TypeOK, Devices
  <2>2. spent' \in SUBSET Conns
    BY <1>1, <1>2 DEF TypeOK
  <2>3. linkUp' \in [Conns -> BOOLEAN]
    BY <1>1, <1>2 DEF TypeOK
  <2> QED
    BY <1>1, <1>2, <2>1, <2>2, <2>3 DEF TypeOK
<1>4. Requested' /\ AllWatched'
  BY <1>1, <1>2 DEF Requested, AllWatched, Running, Watched
<1>5. MailInOrder'
  BY <1>1, <1>2 DEF MailInOrder, Watched
<1> QED
  BY <1>3, <1>4, <1>5 DEF IInv

\* The command of r, which the agent has received, moves on to j, with the frames
\* of s sent and the handler in the state m.
LEMMA JobStep ==
    ASSUME IInv, NEW r \in Reqs, NEW j \in Answers \cup {"running", "ended"},
           NEW s \in SUBSET Answers, NEW m,
           m \in Handlers, Len(m.toBrowser) <= ToBrowserCap,
           m.pc = h[r].pc, m.agent = h[r].agent, m.cancel = h[r].cancel,
           Lives(r, m, j), Collects(m, j, s),
           job[r] # "none", j = "running" => job[r] = "ack", j # "ack",
           job' = [job EXCEPT ![r] = j], sent' = [sent EXCEPT ![r] = s],
           h' = [h EXCEPT ![r] = m], UNCHANGED <<slotVars, linkUp, killed>>
    PROVE  IInv'
<1>1. TypeOK /\ Requested /\ MailInOrder /\ AllWatched
  BY DEF IInv
<1>2. /\ h' \in [Reqs -> Handlers] /\ h'[r] = m
      /\ \A q \in Reqs : q # r => h'[q] = h[q]
      /\ \A q \in Reqs : Len(h'[q].toBrowser) <= ToBrowserCap
  BY <1>1, OwnStep
<1>3. UNCHANGED <<owner, spent, mail, linkUp, killed>>
  BY DEF slotVars
<1>4. /\ job' \in [Reqs -> Answers \cup {"none", "running", "ended"}]
      /\ job'[r] = j /\ \A q \in Reqs : q # r => job'[q] = job[q]
  BY <1>1 DEF TypeOK
<1>5. /\ sent' \in [Reqs -> SUBSET Answers]
      /\ sent'[r] = s /\ \A q \in Reqs : q # r => sent'[q] = sent[q]
  BY <1>1 DEF TypeOK
<1>6. TypeOK'
  BY <1>1, <1>2, <1>3, <1>4, <1>5 DEF TypeOK
<1>7. Requested'
  BY <1>1, <1>2, <1>4, <1>5 DEF Requested
<1>8. \A q \in Reqs : /\ h'[q].pc = h[q].pc /\ h'[q].agent = h[q].agent
                      /\ h'[q].cancel = h[q].cancel
  BY <1>2
<1>9. \A q \in Reqs : Watched(q) => Watched(q)'
  BY <1>3, <1>8 DEF Watched
<1>10. MailInOrder'
  <2> SUFFICES ASSUME NEW c \in Conns, NEW i \in DOMAIN mail[c], NEW q,
                      q = mail[c][i].req
               PROVE  /\ h'[q].agent = c
                      /\ mail[c][i].kind = "cancel" => h'[q].pc = "done"
                      /\ mail[c][i].kind = "exec" =>
                             /\ job'[q] = "none" /\ h'[q].pc \notin {"idle", "send"}
                             /\ Watched(q)'
                             /\ \A k \in DOMAIN mail[c] :
                                    k # i /\ mail[c][k].req = q => i < k
    BY <1>3 DEF MailInOrder
  <2>1. q \in Reqs
    BY <1>1, MailFacts
  <2>2. /\ h[q].agent = c
        /\ mail[c][i].kind = "cancel" => h[q].pc = "done"
        /\ mail[c][i].kind = "exec" =>
               /\ job[q] = "none" /\ h[q].pc \notin {"idle", "send"} /\ Watched(q)
               /\ \A k \in DOMAIN mail[c] : k # i /\ mail[c][k].req = q => i < k
    BY <1>1 DEF MailInOrder
  <2> QED
    BY <1>4, <1>8, <1>9, <2>1, <2>2
<1>11. AllWatched'
  <2> SUFFICES ASSUME NEW q \in Reqs, Running(q)' PROVE Watched(q)'
    BY DEF AllWatched
  <2>1. Running(q)
    BY <1>3, <1>4 DEF Running
  <2> QED
    BY <1>1, <1>9, <2>1 DEF AllWatched
<1> QED
  BY <1>6, <1>7, <1>10, <1>11 DEF IInv

\* The next thing the agent does about a command, when it sends a frame.
LEMMA AfterFrameFacts ==
    ASSUME NEW j \in Answers
    PROVE  /\ AfterFrame(j) \in Answers \cup {"running", "ended"}
           /\ AfterFrame(j) # "ack" /\ (AfterFrame(j) = "running" => j = "ack")
           /\ FramesLeft(j) \in Nat /\ FramesLeft(AfterFrame(j)) = FramesLeft(j) - 1
           /\ AfterFrame(j) = "ended" <=> j = "exit"
BY FramesLeftFacts DEF AfterFrame, Answers, Streams

\* The agent moves on without a frame.
LEMMA SilentIInv ==
    ASSUME IInv, NEW r \in Reqs, JobEnds(r) \/ SkipStream(r)
    PROVE  IInv'
<1> DEFINE j == job'[r]
<1>1. /\ h[r] \in Handlers /\ Len(h[r].toBrowser) <= ToBrowserCap
      /\ h[r].toBrowser \in Seq(Answers)
      /\ Lives(r, h[r], job[r]) /\ Collects(h[r], job[r], sent[r])
      /\ sent[r] \in SUBSET Answers
  BY RequestFacts
<1>2. TypeOK
  BY DEF IInv
<1>3. /\ job[r] \in {"running", "stdout", "stderr"}
      /\ job' = [job EXCEPT ![r] = IF job[r] = "running" THEN "stdout"
                                   ELSE AfterFrame(job[r])]
      /\ UNCHANGED <<slotVars, linkUp, killed, sent, h>>
  BY DEF JobEnds, SkipStream, Streams
<1>4. j = IF job[r] = "running" THEN "stdout" ELSE AfterFrame(job[r])
  BY <1>2, <1>3 DEF TypeOK
<1>5. /\ j \in Answers \cup {"running", "ended"} /\ j # "ack" /\ j # "running"
      /\ FramesLeft(j) \in Nat /\ FramesLeft(job[r]) \in Nat
      /\ FramesLeft(j) <= FramesLeft(job[r])
  BY <1>3, <1>4, FramesLeftFacts DEF AfterFrame, Answers, Streams
<1>6. /\ job' = [job EXCEPT ![r] = j]
  BY <1>3, <1>4
<1>7. /\ sent' = [sent EXCEPT ![r] = sent[r]] /\ h' = [h EXCEPT ![r] = h[r]]
  BY <1>2, <1>3 DEF TypeOK
<1> HIDE DEF j
<1>8. Lives(r, h[r], j)
  BY <1>1, <1>3 DEF Lives
<1>9. Collects(h[r], j, sent[r])
  <2>1. Len(h[r].toBrowser) + FramesLeft(j) <= 4
    BY <1>1, <1>5 DEF Collects
  <2>2. j # "none" /\ job[r] # "ended"
    BY <1>3, <1>5 DEF Answers, Streams
  <2> QED
    BY <1>1, <2>1, <2>2 DEF Collects
<1>10. job[r] # "none"
  BY <1>3
<1> QED
  BY <1>1, <1>3, <1>5, <1>6, <1>7, <1>8, <1>9, <1>10, JobStep

\* routeAgentResponse: the frame always fits.
LEMMA RouteResponseIInv ==
    ASSUME IInv, NEW r \in Reqs, RouteResponse(r)
    PROVE  IInv'
<1> DEFINE b == h[r].toBrowser
           f == job[r]
           j == AfterFrame(f)
           s == sent[r] \cup {f}
<1>1. /\ h[r] \in Handlers /\ Len(b) <= ToBrowserCap /\ b \in Seq(Answers)
      /\ Lives(r, h[r], f) /\ Collects(h[r], f, sent[r])
      /\ sent[r] \in SUBSET Answers
  BY RequestFacts
<1>2. TypeOK
  BY DEF IInv
<1>3. /\ f \in Answers /\ job' = [job EXCEPT ![r] = j]
      /\ sent' = [sent EXCEPT ![r] = s]
      /\ UNCHANGED <<slotVars, linkUp, killed>>
      /\ ~h[r].attached => h' = h
      /\ h[r].attached /\ Len(b) < ToBrowserCap =>
             h' = [h EXCEPT ![r] = [h[r] EXCEPT !.toBrowser = Append(b, f)]]
  BY DEF RouteResponse
<1>4. /\ j \in Answers \cup {"running", "ended"}
      /\ j # "ack" /\ (j = "running" => f = "ack")
      /\ FramesLeft(f) \in Nat /\ FramesLeft(j) = FramesLeft(f) - 1
      /\ j = "ended" <=> f = "exit"
  BY <1>3, AfterFrameFacts
<1>5. f # "none" /\ f # "ended" /\ j # "none"
  BY <1>3, <1>4 DEF Answers, Streams
<1> HIDE DEF j, f
<1>6. s \in SUBSET Answers
  BY <1>1, <1>3
<1>7. /\ Len(b) \in Nat /\ FramesLeft(j) \in Nat
      /\ Len(b) + 1 + FramesLeft(j) <= 4
  BY <1>1, <1>3, <1>4, FramesLeftFacts DEF Collects, Answers, Streams
<1>8. h[r].answer # "result" /\ \A i \in DOMAIN b : b[i] # "exit"
  BY <1>1, <1>5 DEF Collects
<1>9. job[r] = f
  BY DEF f
<1>10. CASE ~h[r].attached
  <2>1. h[r].pc = "done"
    BY <1>1, <1>5, <1>10 DEF Lives
  <2>2. h' = [h EXCEPT ![r] = h[r]]
    BY <1>2, <1>3, <1>10 DEF TypeOK
  <2>3. Lives(r, h[r], j)
    BY <1>1, <1>5 DEF Lives
  <2>4. Collects(h[r], j, s)
    BY <1>5, <1>7, <1>8, <2>1 DEF Collects
  <2> HIDE DEF s
  <2> QED
    BY <1>1, <1>3, <1>4, <1>5, <1>6, <1>9, <2>2, <2>3, <2>4, JobStep
<1>11. CASE h[r].attached
  <2> DEFINE q == Append(b, f)
             m == [h[r] EXCEPT !.toBrowser = q]
  <2>1. /\ h[r].pc \in {"wait", "cancel"} /\ h[r].answer = "none"
    BY <1>1, <1>5, <1>11 DEF Lives
  <2>2. Len(b) < ToBrowserCap /\ Len(b) + 1 <= ToBrowserCap
    BY <1>7, CapFacts
  <2>3. h' = [h EXCEPT ![r] = m]
    BY <1>3, <1>11, <2>2
  <2>4. /\ q \in Seq(Answers) /\ Len(q) = Len(b) + 1 /\ q[Len(b) + 1] = f
        /\ \A i \in DOMAIN b : q[i] = b[i]
        /\ DOMAIN q = DOMAIN b \cup {Len(b) + 1}
    BY <1>1, <1>3, AppendFacts
  <2> HIDE DEF q
  <2>5. m \in Handlers
    BY <1>1, <2>4 DEF Handlers
  <2>6. /\ m.pc = h[r].pc /\ m.agent = h[r].agent /\ m.attached = h[r].attached
        /\ m.toBrowser = q /\ m.closed = h[r].closed
        /\ m.output = h[r].output /\ m.answer = h[r].answer
        /\ m.cancel = h[r].cancel /\ m.audit = h[r].audit
    BY <1>1 DEF Handlers
  <2> HIDE DEF m
  <2>7. Lives(r, m, j)
    BY <1>1, <1>5, <2>6 DEF Lives
  <2>8. Collects(m, j, s)
    <3>1. Len(q) + FramesLeft(j) <= 4
      BY <1>7, <2>4
    <3>2. ASSUME NEW i \in DOMAIN q, q[i] = "exit"
          PROVE  i = Len(q) /\ j = "ended"
      <4>1. i = Len(b) + 1
        BY <1>8, <2>4, <3>2
      <4> QED
        BY <1>4, <2>4, <3>2, <4>1
    <3>3. ASSUME NEW x \in Streams
          PROVE  x \in s <=> x \in h[r].output \/ \E i \in DOMAIN q : q[i] = x
      <4>1. x \in sent[r] <=> x \in h[r].output \/ \E i \in DOMAIN b : b[i] = x
        BY <1>1, <2>1 DEF Collects
      <4>2. (\E i \in DOMAIN q : q[i] = x) <=> f = x \/ \E i \in DOMAIN b : b[i] = x
        BY <2>4
      <4> QED
        BY <4>1, <4>2
    <3> QED
      BY <1>5, <2>1, <2>6, <3>1, <3>2, <3>3 DEF Collects
  <2>9. Len(m.toBrowser) <= ToBrowserCap
    BY <2>2, <2>4, <2>6
  <2> HIDE DEF s
  <2> QED
    BY <1>1, <1>3, <1>4, <1>5, <1>6, <1>9, <2>3, <2>5, <2>6, <2>7, <2>8, <2>9, JobStep
<1> QED
  BY <1>10, <1>11

\* A broken connection ends its commands.
LEMMA LinkBreaksIInv ==
    ASSUME IInv, NEW c \in Conns, LinkBreaks(c)
    PROVE  IInv'
<1>1. TypeOK /\ Requested /\ MailInOrder /\ AllWatched
  BY DEF IInv
<1>2. /\ linkUp' = [linkUp EXCEPT ![c] = FALSE]
      /\ UNCHANGED <<owner, spent, mail, killed, sent, h>>
  BY DEF LinkBreaks, slotVars
<1>3. \A r \in Reqs : \/ job'[r] = job[r]
                      \/ job[r] # "none" /\ job'[r] = "ended"
  BY DEF LinkBreaks
<1>4. TypeOK'
  <2>1. linkUp' \in [Conns -> BOOLEAN]
    BY <1>1, <1>2 DEF TypeOK
  <2>2. job' \in [Reqs -> Answers \cup {"none", "running", "ended"}]
    BY <1>1 DEF TypeOK, LinkBreaks
  <2> QED
    BY <1>1, <1>2, <2>1, <2>2 DEF TypeOK
<1>5. Requested'
  <2> SUFFICES ASSUME NEW r \in Reqs
               PROVE  Lives(r, h[r], job'[r]) /\ Collects(h[r], job'[r], sent[r])
    BY <1>2 DEF Requested
  <2>1. /\ Lives(r, h[r], job[r]) /\ Collects(h[r], job[r], sent[r])
        /\ h[r].toBrowser \in Seq(Answers)
        /\ job[r] \in Answers \cup {"none", "running", "ended"}
    BY RequestFacts
  <2>2. CASE job'[r] = job[r]
    BY <2>1, <2>2
  <2>3. CASE job[r] # "none" /\ job'[r] = "ended"
    <3>1. Len(h[r].toBrowser) + 0 <= 4
      <4>1. FramesLeft(job[r]) \in Nat
        BY <2>1, FramesLeftFacts DEF Answers, Streams
      <4> QED
        BY <2>1, <4>1 DEF Collects
    <3>2. Lives(r, h[r], "ended")
      BY <2>1, <2>3 DEF Lives
    <3>3. Collects(h[r], "ended", sent[r])
      BY <2>1, <3>1, FramesLeftFacts DEF Collects
    <3> QED
      BY <2>3, <3>2, <3>3
  <2> QED
    BY <1>3, <2>2, <2>3
<1>6. \A r \in Reqs : Watched(r) => Watched(r)'
  BY <1>2 DEF Watched
<1>7. MailInOrder'
  <2> SUFFICES ASSUME NEW e \in Conns, NEW i \in DOMAIN mail[e], NEW q,
                      q = mail[e][i].req
               PROVE  /\ h[q].agent = e
                      /\ mail[e][i].kind = "cancel" => h[q].pc = "done"
                      /\ mail[e][i].kind = "exec" =>
                             /\ job'[q] = "none" /\ h[q].pc \notin {"idle", "send"}
                             /\ Watched(q)'
                             /\ \A k \in DOMAIN mail[e] :
                                    k # i /\ mail[e][k].req = q => i < k
    BY <1>2 DEF MailInOrder
  <2>1. q \in Reqs
    BY <1>1, MailFacts
  <2>2. /\ h[q].agent = e
        /\ mail[e][i].kind = "cancel" => h[q].pc = "done"
        /\ mail[e][i].kind = "exec" =>
               /\ job[q] = "none" /\ h[q].pc \notin {"idle", "send"} /\ Watched(q)
               /\ \A k \in DOMAIN mail[e] : k # i /\ mail[e][k].req = q => i < k
    BY <1>1 DEF MailInOrder
  <2> QED
    BY <1>3, <1>6, <2>1, <2>2
<1>8. AllWatched'
  <2> SUFFICES ASSUME NEW q \in Reqs, Running(q)' PROVE Watched(q)'
    BY DEF AllWatched
  <2>1. Running(q)
    BY <1>2, <1>3 DEF Running
  <2> QED
    BY <1>1, <1>6, <2>1 DEF AllWatched
<1> QED
  BY <1>4, <1>5, <1>7, <1>8 DEF IInv

\* The agent receives an exec or a Cancel.
LEMMA AgentTakesIInv ==
    ASSUME IInv, NEW c \in Conns, AgentTakes(c)
    PROVE  IInv'
<1> DEFINE f == mail[c][1]
           r == f.req
<1>1. TypeOK /\ Requested /\ MailInOrder /\ AllWatched
  BY DEF IInv
<1>2. /\ mail[c] # <<>> /\ mail' = [mail EXCEPT ![c] = Tail(mail[c])]
      /\ UNCHANGED <<owner, spent, linkUp, sent, h>>
  BY DEF AgentTakes, Slots!Take
<1>3. /\ mail \in [Conns -> Seq(Requests)] /\ mail[c] \in Seq(Requests)
      /\ Len(mail[c]) <= BufSize
  BY <1>1 DEF TypeOK
<1>4. /\ mail'[c] = Tail(mail[c])
      /\ \A e \in Conns : e # c => mail'[e] = mail[e]
  BY <1>2, <1>3
<1>5. /\ mail'[c] \in Seq(Requests) /\ Len(mail'[c]) = Len(mail[c]) - 1
      /\ Head(mail[c]) = f /\ 1 \in DOMAIN mail[c]
      /\ \A i \in DOMAIN mail'[c] : /\ i + 1 \in DOMAIN mail[c]
                                    /\ mail'[c][i] = mail[c][i + 1]
      /\ \A i \in DOMAIN mail[c] : i # 1 => /\ i - 1 \in DOMAIN mail'[c]
                                            /\ mail'[c][i - 1] = mail[c][i]
  BY <1>2, <1>3, <1>4, TailFacts
<1>6. f \in Requests /\ r \in Reqs /\ f.kind \in {"exec", "cancel"}
  BY <1>1, <1>5, MailFacts
<1>7. /\ h[r].agent = c
      /\ f.kind = "exec" =>
             /\ job[r] = "none" /\ h[r].pc \notin {"idle", "send"} /\ Watched(r)
             /\ \A j \in DOMAIN mail[c] : j # 1 /\ mail[c][j].req = r => 1 < j
  BY <1>1, <1>5 DEF MailInOrder
<1>8. \/ /\ f.kind = "exec" /\ UNCHANGED killed
         /\ \E next \in {"ack", "exit"} : job' = [job EXCEPT ![r] = next]
      \/ /\ f.kind = "cancel" /\ UNCHANGED job
         /\ killed' = [killed EXCEPT ![r] = TRUE]
  BY <1>5 DEF AgentTakes
<1>9. f.kind = "cancel" => f = CancelOf(r)
  BY <1>6 DEF Requests, CancelOf
<1>10. \A q : CancelOf(q).kind = "cancel" /\ CancelOf(q).req = q
  BY DEF CancelOf
<1> HIDE DEF f, r
<1>11. /\ job' \in [Reqs -> Answers \cup {"none", "running", "ended"}]
       /\ killed' \in [Reqs -> BOOLEAN]
       /\ \A q \in Reqs : q # r \/ f.kind = "cancel" => job'[q] = job[q]
       /\ f.kind = "exec" => job'[r] \in {"ack", "exit"}
       /\ \A q \in Reqs : killed'[q] = FALSE => killed[q] = FALSE
       /\ f.kind = "cancel" => killed'[r] = TRUE
  <2>1. /\ job \in [Reqs -> Answers \cup {"none", "running", "ended"}]
        /\ killed \in [Reqs -> BOOLEAN] /\ "ack" \in Answers /\ "exit" \in Answers
    BY <1>1 DEF TypeOK, Answers
  <2>2. CASE f.kind = "exec"
    BY <1>6, <1>8, <2>1, <2>2
  <2>3. CASE f.kind = "cancel"
    BY <1>6, <1>8, <2>1, <2>3
  <2> QED
    BY <1>6, <2>2, <2>3
<1>12. TypeOK'
  <2>1. mail' \in [Conns -> Seq(Requests)]
    BY <1>2, <1>3, <1>4, <1>5
  <2>2. \A e \in Conns : Len(mail'[e]) <= BufSize
    <3>1. Len(mail'[c]) <= BufSize
      BY <1>3, <1>5, ExecApiAssumption
    <3> QED
      BY <1>1, <1>4, <3>1 DEF TypeOK
  <2> QED
    BY <1>1, <1>2, <1>11, <2>1, <2>2 DEF TypeOK
<1>13. Requested'
  <2> SUFFICES ASSUME NEW q \in Reqs
               PROVE  Lives(q, h[q], job'[q]) /\ Collects(h[q], job'[q], sent[q])
    BY <1>2 DEF Requested
  <2>1. /\ Lives(q, h[q], job[q]) /\ Collects(h[q], job[q], sent[q])
        /\ h[q] \in Handlers
    BY RequestFacts
  <2>2. CASE job'[q] = job[q]
    BY <2>1, <2>2
  <2>3. CASE q = r /\ f.kind = "exec"
    <3>1. job'[q] \in {"ack", "exit"} /\ job[q] = "none" /\ h[q].agent = c
      BY <1>7, <1>11, <2>3
    <3>2. h[q].pc \in {"wait", "cancel", "done"}
      BY <1>7, <2>1, <2>3 DEF Handlers
    <3>3. Lives(q, h[q], job'[q])
      BY <2>1, <3>1, <3>2, ExecApiAssumption DEF Lives
    <3>4. /\ h[q].toBrowser = <<>> /\ h[q].output = {} /\ sent[q] = {}
          /\ h[q].answer # "result"
      BY <2>1, <3>1 DEF Collects
    <3>5. Len(h[q].toBrowser) + FramesLeft(job'[q]) <= 4
      BY <3>1, <3>4, FramesLeftFacts
    <3>6. Collects(h[q], job'[q], sent[q])
      BY <3>1, <3>4, <3>5 DEF Collects
    <3> QED
      BY <3>3, <3>6
  <2> QED
    BY <1>6, <1>11, <2>2, <2>3
<1>14. ASSUME NEW q \in Reqs, Watched(q), h[q].agent \in Conns,
              ~(f.kind = "cancel" /\ r = q)
       PROVE  Watched(q)'
  <2> DEFINE a == h[q].agent
  <2>1. ASSUME NEW i \in DOMAIN mail[a], mail[a][i] = CancelOf(q)
        PROVE  \E j \in DOMAIN mail'[a] : mail'[a][j] = CancelOf(q)
    <3>1. CASE a = c
      <4>1. i # 1
        BY <1>10, <1>14, <2>1, <3>1 DEF f, r
      <4> QED
        BY <1>5, <2>1, <3>1, <4>1
    <3>2. CASE a # c
      BY <1>4, <1>14, <2>1, <3>2
    <3> QED
      BY <3>1, <3>2
  <2> QED
    BY <1>2, <1>14, <2>1 DEF Watched
<1>15. MailInOrder'
  <2> SUFFICES ASSUME NEW e \in Conns, NEW i \in DOMAIN mail'[e], NEW q,
                      q = mail'[e][i].req
               PROVE  /\ h[q].agent = e
                      /\ mail'[e][i].kind = "cancel" => h[q].pc = "done"
                      /\ mail'[e][i].kind = "exec" =>
                             /\ job'[q] = "none" /\ h[q].pc \notin {"idle", "send"}
                             /\ Watched(q)'
                             /\ \A j \in DOMAIN mail'[e] :
                                    j # i /\ mail'[e][j].req = q => i < j
    BY <1>2 DEF MailInOrder
  <2> DEFINE k == IF e = c THEN i + 1 ELSE i
  <2>1. /\ k \in DOMAIN mail[e] /\ mail'[e][i] = mail[e][k]
        /\ e = c => k # 1
    <3>1. CASE e = c
      BY <1>5, <3>1
    <3>2. CASE e # c
      BY <1>4, <3>2
    <3> QED
      BY <3>1, <3>2
  <2>2. q \in Reqs /\ k \in Nat /\ k >= 1 /\ q = mail[e][k].req
    BY <1>1, <2>1, MailFacts
  <2> HIDE DEF k
  <2>3. /\ h[q].agent = e
        /\ mail[e][k].kind = "cancel" => h[q].pc = "done"
        /\ mail[e][k].kind = "exec" =>
               /\ job[q] = "none" /\ h[q].pc \notin {"idle", "send"} /\ Watched(q)
               /\ \A j \in DOMAIN mail[e] : j # k /\ mail[e][j].req = q => k < j
    BY <1>1, <2>1, <2>2 DEF MailInOrder
  <2>4. ASSUME mail[e][k].kind = "exec" PROVE q # r
    <3> SUFFICES ASSUME q = r PROVE FALSE
      OBVIOUS
    <3>1. e = c
      BY <1>7, <2>3
    <3>2. k < 1
      BY <1>5, <2>1, <2>3, <2>4, <3>1 DEF r, f
    <3> QED
      BY <2>2, <3>2
  <2>5. ASSUME mail[e][k].kind = "exec"
        PROVE  job'[q] = "none" /\ Watched(q)'
    BY <1>11, <1>14, <2>2, <2>3, <2>4, <2>5
  <2>6. ASSUME mail[e][k].kind = "exec", NEW j \in DOMAIN mail'[e], j # i,
               mail'[e][j].req = q
        PROVE  i < j
    <3>1. CASE e = c
      <4>1. /\ i \in Nat /\ j \in Nat /\ j + 1 \in DOMAIN mail[c]
            /\ mail'[c][j] = mail[c][j + 1]
        BY <1>5, <2>6, <3>1
      <4>2. k = i + 1 /\ j + 1 # k
        BY <2>6, <3>1, <4>1 DEF k
      <4>3. k < j + 1
        BY <2>3, <2>6, <3>1, <4>1, <4>2
      <4> QED
        BY <4>1, <4>2, <4>3
    <3>2. CASE e # c
      BY <1>4, <2>3, <2>6, <3>2 DEF k
    <3> QED
      BY <3>1, <3>2
  <2> QED
    BY <2>1, <2>3, <2>5, <2>6
<1>16. AllWatched'
  <2> SUFFICES ASSUME NEW q \in Reqs, Running(q)' PROVE Watched(q)'
    BY DEF AllWatched
  <2>1. job'[q] \in {"ack", "running"} /\ killed'[q] = FALSE
    BY <1>11 DEF Running
  <2>2. CASE q = r /\ f.kind = "exec"
    BY <1>7, <1>14, <2>2
  <2>3. CASE ~(q = r /\ f.kind = "exec")
    <3>1. Running(q) /\ ~(f.kind = "cancel" /\ r = q)
      BY <1>6, <1>11, <2>1, <2>3 DEF Running
    <3>2. h[q].agent \in Conns
      BY <3>1, RequestFacts DEF Lives, Running
    <3> QED
      BY <1>1, <1>14, <3>1, <3>2 DEF AllWatched
  <2> QED
    BY <2>2, <2>3
<1> QED
  BY <1>12, <1>13, <1>15, <1>16 DEF IInv

-----------------------------------------------------------------------------
LEMMA NextIInv == IInv /\ [Next]_vars => IInv'
<1> SUFFICES ASSUME IInv, [Next]_vars PROVE IInv'
  OBVIOUS
<1>1. ASSUME NEW c \in Conns, AgentStep(c) PROVE IInv'
  BY <1>1, SlotStep, LinkBreaksIInv, AgentTakesIInv DEF AgentStep
<1>2. ASSUME NEW r \in Reqs, HandlerStep(r) PROVE IInv'
  BY <1>2, HandlerIInv, CollectIInv, SendExecIInv, SendCancelIInv DEF HandlerStep
<1>3. ASSUME NEW r \in Reqs, JobEnds(r) \/ RouteResponse(r) \/ SkipStream(r)
      PROVE  IInv'
  BY <1>3, SilentIInv, RouteResponseIInv
<1>4. CASE UNCHANGED vars
  <2>1. UNCHANGED <<owner, spent, mail, linkUp, job, killed, sent, h>>
    BY <1>4 DEF vars
  <2> QED
    BY <2>1 DEF IInv, TypeOK, Requested, MailInOrder, AllWatched, Watched, Running
<1> QED
  BY <1>1, <1>2, <1>3, <1>4 DEF Next

\* The inductive invariant holds of every behaviour.
LEMMA SpecIInv == Spec => []IInv
BY InitIInv, NextIInv, PTL DEF Spec

\* Every variable has its type, and no queue exceeds its capacity.
THEOREM TypeCorrect == Spec => []TypeOK
<1>1. IInv => TypeOK
  BY DEF IInv
<1> QED
  BY <1>1, SpecIInv, PTL

\* Frames of a request reach only connections of the organisation it names
\* (handleExec), whoever registers for the device meanwhile.
THEOREM ExecStaysInTenantHolds == Spec => []ExecStaysInTenant
<1>1. IInv => ExecStaysInTenant
  <2> SUFFICES ASSUME IInv, NEW c \in Conns, NEW i \in DOMAIN mail[c]
               PROVE  ReqOrg[mail[c][i].req] = ConnOrg[c]
    BY DEF ExecStaysInTenant
  <2>1. mail[c][i].req \in Reqs /\ h[mail[c][i].req].agent = c
    BY MailFacts DEF IInv, MailInOrder
  <2> QED
    BY <2>1, RequestFacts, ExecApiAssumption DEF Lives
<1> QED
  BY <1>1, SpecIInv, PTL

\* routeAgentResponse never closes the session of a handler that waits: the
\* frames of a command fit in the channel (exec_api.go, collectExecResult).
THEOREM NeverClosedWhileWaitingHolds == Spec => []NeverClosedWhileWaiting
<1>1. IInv => NeverClosedWhileWaiting
  BY RequestFacts DEF NeverClosedWhileWaiting, Lives
<1> QED
  BY <1>1, SpecIInv, PTL

\* A result with the exit has all the output the agent sent for the command
\* (collectExecResult, routeAgentResponse).
THEOREM ResultIsCompleteHolds == Spec => []ResultIsComplete
<1>1. IInv => ResultIsComplete
  BY RequestFacts DEF ResultIsComplete, Collects
<1> QED
  BY <1>1, SpecIInv, PTL

\* A command that runs unkilled is waited for, or its Cancel is queued, or was
\* lost in one of the two ways the code accepts (handleExec).
THEOREM NoAbandonedProcessHolds == Spec => []NoAbandonedProcess
<1>1. IInv => NoAbandonedProcess
  BY DEF IInv, AllWatched, Watched, CancelOf, NoAbandonedProcess
<1> QED
  BY <1>1, SpecIInv, PTL

\* The exec API uses the agents' slots only as DeviceSlots lets it: it is one of
\* the environments the registry is proved to serve.
THEOREM UsesDeviceSlots == Spec => Slots!Spec
<1>1. Init => Slots!Init
  BY DEF Init
<1>2. ASSUME IInv, [Next]_vars PROVE [Slots!Next]_(Slots!vars)
  <2> USE DEF Slots!vars
  <2>1. ASSUME NEW c \in Conns, AgentStep(c) PROVE [Slots!Next]_(Slots!vars)
    <3>1. Device \in Devices
      BY DEF Devices
    <3>2. CASE AgentConnects(c) \/ AgentLeaves(c) \/ AgentTakes(c)
      BY <3>1, <3>2 DEF AgentConnects, AgentLeaves, AgentTakes, Slots!Next
    <3>3. CASE LinkBreaks(c)
      BY <3>3 DEF LinkBreaks, slotVars
    <3> QED
      BY <2>1, <3>2, <3>3 DEF AgentStep
  <2>2. ASSUME NEW r \in Reqs, SendExec(r) \/ SendCancel(r)
        PROVE  [Slots!Next]_(Slots!vars)
    <3>1. ExecOf(r) \in Requests /\ CancelOf(r) \in Requests
      BY DEF ExecOf, CancelOf, Requests
    <3>2. \/ Slots!Post(h[r].agent, ExecOf(r))
          \/ Slots!Post(h[r].agent, CancelOf(r))
          \/ UNCHANGED <<owner, spent, mail>>
      BY <2>2 DEF SendExec, SendCancel, ExecOf, CancelOf
    <3>3. h[r].pc \in {"send", "cancel"}
      BY <2>2 DEF SendExec, SendCancel
    <3>4. h[r].agent \in Conns
      BY <1>2, <3>3, RequestFacts DEF Lives
    <3> QED
      BY <3>1, <3>2, <3>4 DEF Slots!Next
  <2>3. ASSUME NEW r \in Reqs,
               HandlerStep(r) \/ JobEnds(r) \/ RouteResponse(r) \/ SkipStream(r)
        PROVE  [Slots!Next]_(Slots!vars)
    <3>1. SendExec(r) \/ SendCancel(r) \/ UNCHANGED <<owner, spent, mail>>
      BY <2>3 DEF HandlerStep, Accept, Refuse, SendExecFull, SendExecPanics, Collect,
         TakeFrame, TimesOut, SendCancelPanics, JobEnds, RouteResponse, SkipStream,
         agentVars, slotVars
    <3> QED
      BY <2>2, <3>1
  <2>4. CASE UNCHANGED vars
    BY <2>4 DEF vars
  <2> QED
    BY <1>2, <2>1, <2>3, <2>4 DEF Next
<1> QED
  BY <1>1, <1>2, SpecIInv, PTL DEF Spec, Slots!Spec
=============================================================================
