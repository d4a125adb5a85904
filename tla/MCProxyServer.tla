--------------------------- MODULE MCProxyServer ----------------------------
(* Instances of ProxyServer for TLC. *)
EXTENDS ProxyServer, TLC

CONSTANTS p1, p2, p3

\* One proxy of each kind.  The first two are one host:port.
MCSchemes == p1 :> {"HTTP", "HTTPS"} @@ p2 :> {"HTTP"} @@ p3 :> {"HTTPS"}
MCTwoSchemes == p1 :> {"HTTP", "HTTPS"} @@ p2 :> {"HTTP"}
MCHostPort == p1 :> 1 @@ p2 :> 1 @@ p3 :> 2
MCTwoHostPorts == p1 :> 1 @@ p2 :> 2
=============================================================================
