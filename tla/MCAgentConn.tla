---------------------------- MODULE MCAgentConn ----------------------------
(***************************************************************************)
(* Instances of AgentConn for TLC: two commands, two shells, or one of     *)
(* each.  Commands and shells meet only in the queue out and in the end of *)
(* the connection.                                                         *)
(***************************************************************************)
EXTENDS AgentConn, TLC

CONSTANTS e1, e2, p1, p2, s1, s2

\* Every exec frame has an identifier of its own.
OwnIds == [e \in Execs |-> e]

Taken == {e \in Execs : cmd[e].pc # "new"}
Spawned == {p \in Ptys : pty[p].shell # "none"}

\* Commands, shells and sessions are interchangeable: they come in one order.
WithinBounds ==
    /\ Taken \in {{}, {e1}, {e1, e2}}
    /\ Spawned \in {{}, {p1}, {p1, p2}}
    /\ p1 \in Ptys => pty[p1].sid \in {s1, NoSid}
    /\ Taken # {} /\ Spawned # {} => Taken = {e1} /\ Spawned = {p1}

\* No fairness is needed of the shells.
MCSpec == Init /\ [][Next /\ WithinBounds']_vars /\ ConnFairness /\ ExecFairness
=============================================================================
