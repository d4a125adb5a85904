---------------------------- MODULE PoolRegister ----------------------------
(***************************************************************************)
(* What the pool file promises to those who read it, and what the Broker   *)
(* module takes it for: a set of entries that a save replaces as a whole.  *)
(***************************************************************************)
CONSTANTS Run, Entry

VARIABLES
  content,  \* the stored entries
  offered   \* per run: the entries it last set out to save

vars == <<content, offered>>

Init ==
  /\ content = {}
  /\ offered = [r \in Run |-> {}]

\* A run sets out to save what it has verified, which is never nothing.
Offer(r) ==
  /\ \E es \in (SUBSET Entry) \ {{}} : offered' = [offered EXCEPT ![r] = es]
  /\ UNCHANGED content

\* The save takes effect.
Replace(r) ==
  /\ content' = offered[r] /\ offered[r] # {}
  /\ UNCHANGED offered

Spec == Init /\ [][\E r \in Run : Offer(r) \/ Replace(r)]_vars
=============================================================================
