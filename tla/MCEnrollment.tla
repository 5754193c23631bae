---------------------------- MODULE MCEnrollment ----------------------------
(***************************************************************************)
(* Instances of Enrollment for TLC: one daemon, or two that race at first  *)
(* boot, on one machine, and the ticket command beside one daemon.         *)
(***************************************************************************)
EXTENDS Enrollment, TLC

CONSTANTS p1, p2, k1, k2

\* The ticket command meets one daemon at a time, and so do a revocation and an
\* enrollment without an organisation, of which there is one, the first: none
\* of them makes use of a second daemon.
WithinBounds ==
    /\ ticket.pc # "idle" \/ orgless # {} \/ revoked => d[p2].pc = "down"
    /\ orgless \subseteq {1}

\* Under these bounds p2 cannot always be restarted, which StaysReachable has no
\* need of.
MCSpec ==
    /\ Init /\ [][Next /\ WithinBounds']_vars
    /\ \A p \in Daemons : ProcessFairness(p)
=============================================================================
