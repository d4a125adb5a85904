------------------------------ MODULE DeadSet -------------------------------
(***************************************************************************)
(* What the negative cache promises its user: a set of addresses that      *)
(* gains an address only when that address has just failed, and may lose   *)
(* any at any time.  Broker's variable `dead' changes in these ways only.  *)
(***************************************************************************)
CONSTANT Key   \* addresses

VARIABLE dead

Init == dead = {}

Remember(k) == k \in dead' /\ dead' \subseteq dead \cup {k}

Forget == dead' \subseteq dead

Next == Forget \/ \E k \in Key : Remember(k)

Spec == Init /\ [][Next]_dead
=============================================================================
