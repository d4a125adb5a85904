------------------------------- MODULE MCIntake -------------------------------
(* Instances of Intake for TLC. *)
EXTENDS Intake, TLC

CONSTANTS k1, k2, k3, bad, n1, p1, p2

\* An address of both providers, one of each, a domain and a bad port.
MCOffer == p1 :> {k1, k2} @@ p2 :> {k1, n1, bad}
=============================================================================
