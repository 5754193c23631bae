------------------------------- MODULE Daemon -------------------------------
(***************************************************************************)
(* The daemon's process put together (cmd/agent/main.go): what starts and  *)
(* stops it, runAgent, and the reporters runAgent starts, which share its  *)
(* context and the device's standing with Hasfy-App.                       *)
(***************************************************************************)
EXTENDS WindowsService, InventoryReporter, MetricsReporter

vars == <<processVars, svc, inventoryVars, metricsVars>>

Init == ProcessInit /\ ServiceInit /\ InventoryInit /\ MetricsInit

Next ==
    \/ /\ AgentStarts \/ AgentExits \/ AgentReturns \/ Revoke
       /\ UNCHANGED <<svc, inventoryVars, metricsVars>>
    \/ ServiceStep /\ UNCHANGED <<inventoryVars, metricsVars>>
    \/ InventoryStep /\ UNCHANGED <<svc, metricsVars>>
    \/ MetricsStep /\ UNCHANGED <<svc, inventoryVars>>

Spec == Init /\ [][Next]_vars

\* Type correctness of the process.
TypeOK ==
    /\ cancelled \in BOOLEAN /\ revoked \in BOOLEAN /\ alive \in BOOLEAN
    /\ agent \in {"starting", "running", "returned"}
    /\ svc \in {"start_pending", "running", "stop_pending", "stopped", "console"}
    /\ osquery \in BOOLEAN /\ ipc \in {"wait", "post", "stopped"}
    /\ snapshots \in SUBSET Tables /\ cmdb \in SUBSET Tables
    /\ esKey \in 1..MaxRotations + 1 /\ creds \in 0..esKey /\ old \in BOOLEAN
    /\ stored \in [Docs -> Nat] /\ rejected \in SUBSET Docs /\ lost \in 0..MaxLost
    /\ mpc \in {"wait", "fetch", "sample", "ship", "stopped"}
    /\ buffer \in Seq(Docs)
    /\ taken \in 0..MaxDocs
=============================================================================
