------------------------------- MODULE Families -------------------------------
(* What the lookups (Resolver) and the discovery (RealIps) of                 *)
(* proxybroker.resolver share: address families, and None where there is none. *)

CONSTANT None  \* Python's None

Family == {"v4", "v6"}

ASSUME FamiliesAssumption == None \notin Family
=============================================================================
