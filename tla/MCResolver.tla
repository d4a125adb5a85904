----------------------------- MODULE MCResolver -----------------------------
(* Instance of Resolver for TLC. *)
EXTENDS Resolver, TLC

CONSTANTS c1, c2, c3, h1, h2
=============================================================================
