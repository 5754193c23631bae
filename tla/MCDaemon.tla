------------------------------ MODULE MCDaemon ------------------------------
(***************************************************************************)
(* Instances of Daemon for TLC.  The reporters meet only in the variables  *)
(* of DaemonProcess, which neither of them changes: it is enough to look   *)
(* at one at a time.  Each liveness property assumes the fairness of its   *)
(* own component only.                                                     *)
(***************************************************************************)
EXTENDS Daemon

OneReporter == InventoryInit \/ MetricsInit

MCSpec == Init /\ [][Next /\ OneReporter']_vars
=============================================================================
