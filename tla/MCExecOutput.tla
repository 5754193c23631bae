--------------------------- MODULE MCExecOutput ---------------------------
(***************************************************************************)
(* Instances of ExecOutput for TLC.                                        *)
(***************************************************************************)
EXTENDS ExecOutput

=============================================================================
