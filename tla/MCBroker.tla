------------------------------ MODULE MCBroker ------------------------------
(* Instances of Broker for TLC. *)
EXTENDS Broker, TLC

CONSTANTS a1, a2, a3, n1, j1, p1, p2

MCCall(f, n, e, s, d) ==
  [fn |-> f, limit |-> n, forever |-> e, server |-> s, store |-> d, given |-> {}]

\* The calls that end by themselves: with a limit or without one, with a pool
\* store or not, from the providers, from given data, or unchecked.
MCFindCalls == {MCCall("find", n, FALSE, FALSE, FALSE) : n \in 0..2}
               \cup {MCCall("find", 1, FALSE, FALSE, TRUE)}
MCGrabCalls == {MCCall("grab", n, FALSE, FALSE, FALSE) : n \in 0..2}
MCDataCalls ==
  {[MCCall("data", n, FALSE, FALSE, d) EXCEPT !.given = {a1, a2, n1}] :
     n \in 0..2, d \in BOOLEAN}
MCBoundedCalls == MCFindCalls \cup MCGrabCalls \cup MCDataCalls

\* The calls that replenish the queue pass after pass: a local server, and
\* find(forever).
MCEndlessCalls == {MCCall("find", 1, FALSE, TRUE, TRUE),
                   MCCall("find", 0, TRUE, FALSE, FALSE)}
MCForeverCalls == {MCCall("find", 0, TRUE, FALSE, TRUE)}

MCLiveCalls == {MCCall("find", n, FALSE, FALSE, TRUE) : n \in 0..1}
               \cup {MCCall("grab", 1, FALSE, FALSE, FALSE)}
               \cup {[MCCall("data", 2, FALSE, FALSE, FALSE) EXCEPT !.given = {a1, n1}]}
               \cup MCForeverCalls

MCOffer == p1 :> {a1, a2, j1} @@ p2 :> {a2, a3, n1}
MCLiveOffer == p1 :> {a1, n1}
MCServeOffer == p1 :> {a1, a2} @@ p2 :> {n1}

MCChecks == Permutations(CheckId)
=============================================================================
