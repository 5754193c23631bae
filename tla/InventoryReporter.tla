------------------------- MODULE InventoryReporter -------------------------
(***************************************************************************)
(* The inventory reporter of the daemon (cmd/agent/inventory.go):          *)
(* runInventoryReporter collects osquery tables and posts them to          *)
(* Hasfy-App, until the daemon's context is cancelled or the device        *)
(* refused.  osquery and Hasfy-App are external.                           *)
(***************************************************************************)
EXTENDS DaemonProcess

CONSTANT Tables     \* the tables of inventoryQueries that apply here

VARIABLES
    osquery,    \* osqueryi is installed
    ipc,        \* where runInventoryReporter is
    snapshots,  \* the tables collected, while they are posted
    cmdb        \* the tables Hasfy-App was last sent

inventoryVars == <<osquery, ipc, snapshots, cmdb>>

InventoryInit == osquery = FALSE /\ ipc = "wait" /\ snapshots = {} /\ cmdb = {}

\* The timer fires and osqueryi is not found: the reporter keeps looking.
NoOsqueryStops ==
    /\ Started /\ ipc = "wait" /\ ~osquery
    /\ ipc' = "stopped"
    /\ UNCHANGED <<processVars, osquery, snapshots, cmdb>>

NoOsquery ==
    /\ Started /\ ipc = "wait" /\ ~osquery
    /\ UNCHANGED <<processVars, inventoryVars>>

\* The queries are run one by one.  A table that fails is left out ...
Collect ==
    /\ Started /\ ipc = "wait" /\ osquery
    /\ snapshots' \in SUBSET Tables \ {{}}
    /\ ipc' = "post"
    /\ UNCHANGED <<processVars, osquery, cmdb>>

\* ... and if all fail there is nothing to post, and another attempt later.
CollectFails ==
    /\ Started /\ ipc = "wait" /\ osquery
    /\ ipc' = IF cancelled THEN "stopped" ELSE "wait"
    /\ UNCHANGED <<processVars, osquery, snapshots, cmdb>>

Posted(next) ==
    /\ Started /\ ipc = "post"
    /\ ipc' = next /\ snapshots' = {}
    /\ UNCHANGED <<processVars, osquery>>

Post == ~revoked /\ Posted("wait") /\ cmdb' = snapshots

\* The device is refused: the reporter ends for good.
PostRefused == revoked /\ Posted("stopped") /\ UNCHANGED cmdb

\* Any other failure, among them a lost answer: collected again later.
PostFails ==
    /\ Posted(IF cancelled THEN "stopped" ELSE "wait")
    /\ cmdb' \in {cmdb} \cup (IF revoked THEN {} ELSE {snapshots})

InventoryCancelled ==
    /\ Started /\ ipc = "wait" /\ cancelled
    /\ ipc' = "stopped"
    /\ UNCHANGED <<processVars, osquery, snapshots, cmdb>>

\* Somebody installs or removes osquery.
OsqueryChanges ==
    /\ Started /\ osquery' = ~osquery
    /\ UNCHANGED <<processVars, ipc, snapshots, cmdb>>

InventoryStep ==
    \/ NoOsquery \/ Collect \/ CollectFails \/ Post \/ PostRefused \/ PostFails
    \/ InventoryCancelled \/ OsqueryChanges

\* The goroutine runs; tables can be read and Hasfy-App answers now and then.
InventoryFairness ==
    /\ SF_inventoryVars(Collect)
    /\ SF_inventoryVars(Post) /\ SF_inventoryVars(PostRefused)

-----------------------------------------------------------------------------
(* Properties *)

\* inventory.go, "a machine where osquery arrived later": once osquery is there,
\* and stays, the device is inventoried without a restart.
OsqueryFoundLater ==
    InventoryFairness =>
        ((osquery /\ Started) ~> (cmdb # {} \/ ~osquery \/ revoked \/ cancelled \/ ~alive))

-----------------------------------------------------------------------------
(* Statements of the repository that the code does not meet *)

\* inventory.go:279-281, "Stops on a missing osquery too".
StopsWithoutOsquery ==
    InventoryFairness => ((Started /\ ~osquery) ~> (ipc = "stopped" \/ osquery \/ ~alive))
=============================================================================
