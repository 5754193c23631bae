----------------------------- MODULE MCConsole -----------------------------
(***************************************************************************)
(* Instances of Console for TLC.                                           *)
(***************************************************************************)
EXTENDS Console, TLC

CONSTANTS c1, c2, d1, o1, o2, s1, k1, k2

\* One device whose agent reconnects, the second time for another tenant.
OneDevice == c1 :> d1 @@ c2 :> d1
MovedOrg == c1 :> o1 @@ c2 :> o2
SameOrg == c1 :> o1 @@ c2 :> o1

\* A single connection.
LoneDevice == c1 :> d1
LoneOrg == c1 :> o1

\* One session.
OneSidDevice == s1 :> d1
OneSidOrg == s1 :> o1

\* One call, or two that present the same token.
LoneCall == k1 :> s1
SameToken == k1 :> s1 @@ k2 :> s1

\* Calls that present the same token are interchangeable.
CallSymmetry == Permutations({k1, k2})
=============================================================================
