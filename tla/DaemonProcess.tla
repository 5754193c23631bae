--------------------------- MODULE DaemonProcess ---------------------------
(***************************************************************************)
(* The daemon's process, as its long-running parts see it (cmd/agent/      *)
(* main.go): runAgent comes up, starts its goroutines and returns some     *)
(* time after its context is cancelled.  How it enrols and connects is in  *)
(* Enrollment and AgentConn.                                               *)
(***************************************************************************)

VARIABLES
    cancelled,  \* the context given to runAgent is cancelled
    revoked,    \* Hasfy-App no longer accepts the device
    agent,      \* runAgent: "starting", "running", "returned"
    alive       \* the process exists

processVars == <<cancelled, revoked, agent, alive>>

ProcessInit ==
    cancelled = FALSE /\ revoked = FALSE /\ agent = "starting" /\ alive = TRUE

\* The goroutines of runAgent have been started, and nobody waits for them.
Started == alive /\ agent # "starting"

\* Configuration, enrollment and identity are there: goroutines are started.
AgentStarts ==
    /\ alive /\ agent = "starting"
    /\ agent' = "running"
    /\ UNCHANGED <<cancelled, revoked, alive>>

\* One of them cannot be had: os.Exit, from wherever runAgent was called.
AgentExits ==
    /\ alive /\ agent = "starting"
    /\ alive' = FALSE
    /\ UNCHANGED <<cancelled, revoked, agent>>

\* Its wait for approval or for a token, its connection or its backoff ends
\* with the context.
AgentReturns ==
    /\ alive /\ agent # "returned" /\ cancelled
    /\ agent' = "returned"
    /\ UNCHANGED <<cancelled, revoked, alive>>

\* An administrator revokes the device.
Revoke ==
    /\ ~revoked /\ revoked' = TRUE
    /\ UNCHANGED <<cancelled, agent, alive>>
=============================================================================
