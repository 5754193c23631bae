--------------------------- MODULE WindowsService ---------------------------
(***************************************************************************)
(* What starts and stops the daemon (cmd/agent/main.go and                 *)
(* service_windows.go): under the Windows service control manager, Execute *)
(* of agentService; elsewhere main itself, with a signal.                  *)
(*                                                                         *)
(* Interrogate and unknown controls change nothing.  Nor does the branch   *)
(* for a daemon that returned on its own: runAgent returns only when its   *)
(* context is cancelled, and only Execute cancels it.                      *)
(***************************************************************************)
EXTENDS DaemonProcess

VARIABLE svc    \* the state last reported, or "console" if not a service

ServiceInit == svc \in {"start_pending", "console"}

\* Execute has started runAgent in a goroutine of its own.
ReportRunning ==
    /\ alive /\ svc = "start_pending"
    /\ svc' = "running"
    /\ UNCHANGED processVars

\* Stop or Shutdown: StopPending is reported and the context cancelled.
StopControl ==
    /\ alive /\ svc = "running"
    /\ svc' = "stop_pending" /\ cancelled' = TRUE
    /\ UNCHANGED <<revoked, agent, alive>>

\* Stopped is reported, Execute returns and with it the process.
ReportStopped ==
    /\ alive /\ svc = "stop_pending"
    /\ svc' = "stopped" /\ alive' = FALSE
    /\ UNCHANGED <<cancelled, revoked, agent>>

\* The daemon has unwound ...
StopUnwound == agent = "returned" /\ ReportStopped

\* ... or twenty seconds have passed.
StopNeverTimesOut == FALSE /\ ReportStopped

StopTimesOut == agent # "returned" /\ ReportStopped

\* On a console, SIGINT or SIGTERM cancels the context ...
Signal ==
    /\ alive /\ svc = "console" /\ ~cancelled
    /\ cancelled' = TRUE
    /\ UNCHANGED <<revoked, agent, alive, svc>>

\* ... and the process ends when runAgent has returned.
MainReturns ==
    /\ alive /\ svc = "console" /\ agent = "returned"
    /\ alive' = FALSE
    /\ UNCHANGED <<cancelled, revoked, agent, svc>>

ServiceStep ==
    \/ ReportRunning \/ StopControl \/ StopUnwound \/ StopTimesOut
    \/ Signal \/ MainReturns

\* The twenty seconds of a stop pass.  Nothing is assumed of runAgent: AgentConn
\* shows that a connection may never unwind.
ServiceFairness == WF_svc(StopUnwound \/ StopTimesOut)

-----------------------------------------------------------------------------
(* Properties *)

\* service_windows.go, "Bounded, because a stop that never completes is a
\* machine that will not reboot": once asked to stop, the service reports
\* Stopped, whether or not the daemon unwinds.
StopCompletes ==
    ServiceFairness => ((svc = "stop_pending") ~> (svc = "stopped" \/ ~alive))

-----------------------------------------------------------------------------
(* Statements of the repository that the code does not meet *)

\* service_windows.go:62-64, "The daemon returned on its own - an unrecoverable
\* start error, for instance.  Reporting Stopped lets the SCM's restart policy
\* take over": a service whose daemon is gone has reported Stopped.
StartErrorReported == ~alive /\ svc # "console" => svc = "stopped"
=============================================================================
