----------------------------- MODULE MCRegistry -----------------------------
(***************************************************************************)
(* Instances of Registry for TLC: one device contended for by several      *)
(* connections (the agent reconnecting faster than the relay notices), and *)
(* the same device moving between organisations.                           *)
(***************************************************************************)
EXTENDS Registry, TLC

CONSTANTS c1, c2, d1, o1, o2, f1, f2

\* Two connections for the same device, the second after it moved to o2.
MoveClaims == c1 :> [device |-> d1, org |-> o1]
           @@ c2 :> [device |-> d1, org |-> o2]
=============================================================================
