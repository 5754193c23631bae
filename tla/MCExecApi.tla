----------------------------- MODULE MCExecApi -----------------------------
(***************************************************************************)
(* Instances of ExecApi for TLC: a device whose agent reconnects, for the  *)
(* same tenant or for another one, and two requests.                       *)
(***************************************************************************)
EXTENDS ExecApi, TLC

CONSTANTS c1, c2, o1, o2, r1, r2

MovedOrg == c1 :> o1 @@ c2 :> o2
OneTenant == r1 :> o1 @@ r2 :> o1
=============================================================================
