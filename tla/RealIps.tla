------------------------------- MODULE RealIps ------------------------------
(***************************************************************************)
(* proxybroker.resolver.Resolver.get_real_ext_ips: one probe task per      *)
(* address family, each trying the endpoints in turn; the caller waits for *)
(* the first success, gives the other family what is left of the timeout,  *)
(* and cleans up on every way out.                                         *)
(***************************************************************************)
EXTENDS Families, Integers, FiniteSets

CONSTANT Endpoints  \* len(_ip_hosts)

\* What an endpoint may show: an address of either family, an IPv4 address
\* mapped into IPv6, or nothing usable (an error page, a timeout, no address).
Shown == Family \cup {"mapped", "nothing"}

ASSUME RealIpsAssumption == Endpoints \in Nat \ {0}

VARIABLES
  pc,        \* where get_real_ext_ips is
  route,     \* families with a local route
  probe,     \* per family: its probe task
  left,      \* per family: endpoints not yet tried
  ip,        \* per family: the address its probe returned
  found,     \* the addresses found
  late,      \* the timeout has passed since the start
  cancelled  \* the caller has been cancelled

vars == <<pc, route, probe, left, ip, found, late, cancelled>>

Over  == {"returned", "raised", "cancelled"}
Alive == {"running", "cancelling"}
Done  == {"ok", "failed", "cancelled"}

Init ==
  /\ pc = "start"
  /\ route \in SUBSET Family
  /\ probe = [f \in Family |-> "off"]
  /\ left = [f \in Family |-> Endpoints]
  /\ ip = [f \in Family |-> None]
  /\ found = {}
  /\ late = FALSE /\ cancelled = FALSE

-----------------------------------------------------------------------------
(* The probes. *)

\* _validate_probe_response: the address, or None to try the next endpoint.
Validated(shown, f) ==
  CASE shown = f                       -> f
    [] shown = "mapped" /\ f = "v4"    -> "v4"
    [] OTHER                           -> None

\* An endpoint answers or times out; after the last one the probe fails.
EndpointEnds(f) ==
  /\ probe[f] = "running"
  /\ left' = [left EXCEPT ![f] = @ - 1]
  /\ \E shown \in Shown :
       /\ ip' = [ip EXCEPT ![f] = Validated(shown, f)]
       /\ probe' = [probe EXCEPT ![f] = IF Validated(shown, f) # None THEN "ok"
                                        ELSE IF left[f] = 1 THEN "failed" ELSE @]
  /\ UNCHANGED <<pc, route, found, late, cancelled>>

\* The connector cannot be made for the family.
ConnectorFails(f) ==
  /\ probe[f] = "running" /\ left[f] = Endpoints
  /\ probe' = [probe EXCEPT ![f] = "failed"]
  /\ UNCHANGED <<pc, route, left, ip, found, late, cancelled>>

\* A cancelled probe closes its session and ends.
ProbeCancelled(f) ==
  /\ probe[f] = "cancelling"
  /\ probe' = [probe EXCEPT ![f] = "cancelled"]
  /\ UNCHANGED <<pc, route, left, ip, found, late, cancelled>>

-----------------------------------------------------------------------------
(* The caller. *)

Living == {f \in Family : probe[f] \in Alive}
CancelProbes == [f \in Family |-> IF probe[f] = "running" THEN "cancelling" ELSE probe[f]]

\* Families without a route are skipped; without any there is nothing to do.
Discover ==
  /\ pc = "start"
  /\ pc' = IF route = {} THEN "raised" ELSE "first"
  /\ probe' = [f \in Family |-> IF f \in route THEN "running" ELSE "off"]
  /\ UNCHANGED <<route, left, ip, found, late, cancelled>>

\* The results of the probes that are done by now.
Results == {ip[f] : f \in {f \in Family : probe[f] = "ok"}}

\* _wait_for_first_success is over: a success, or all have failed.
FirstIsOver == Results # {} \/ Living = {}

FirstWake ==
  /\ pc = "first"
  /\ FirstIsOver
  /\ found' = Results
  /\ IF Living # {} /\ ~late
       THEN pc' = "grace" /\ UNCHANGED probe
       ELSE pc' = "clean" /\ probe' = CancelProbes
  /\ UNCHANGED <<route, left, ip, late, cancelled>>

\* _drain_with_budget is over: all done, or the timeout has passed.
WaitsForAll == Living = {}
GraceIsOver == Living = {} \/ late

GatheredInTime == IF late THEN found ELSE found \cup Results
Gathered == found \cup Results

GraceWake ==
  /\ pc = "grace"
  /\ GraceIsOver
  /\ found' = Gathered
  /\ pc' = "clean"
  /\ probe' = CancelProbes
  /\ UNCHANGED <<route, left, ip, late, cancelled>>

\* The timeout passes.
Late ==
  /\ pc \in {"first", "grace"} /\ ~late
  /\ late' = TRUE
  /\ UNCHANGED <<pc, route, probe, left, ip, found, cancelled>>

\* The caller is cancelled, anywhere in the try or in its finally.
Cancel ==
  /\ pc \in {"first", "grace", "clean"}
  /\ cancelled' = TRUE
  /\ pc' = "clean"
  /\ probe' = CancelProbes
  /\ UNCHANGED <<route, left, ip, found, late>>

\* The finally's gather() has seen every probe end.
NotAwaited == TRUE
AllEnded == Living = {}

Return ==
  /\ pc = "clean"
  /\ AllEnded
  /\ pc' = IF cancelled THEN "cancelled" ELSE IF found = {} THEN "raised" ELSE "returned"
  /\ UNCHANGED <<route, probe, left, ip, found, late, cancelled>>

-----------------------------------------------------------------------------
Next ==
  \/ Discover \/ FirstWake \/ GraceWake \/ Late \/ Cancel \/ Return
  \/ \E f \in Family : EndpointEnds(f) \/ ConnectorFails(f) \/ ProbeCancelled(f)

Spec == Init /\ [][Next]_vars

-----------------------------------------------------------------------------
(* Properties. *)

\* Every variable has its type; an address mapped into IPv6 never gets through.
TypeOK ==
  /\ pc \in {"start", "first", "grace", "clean"} \cup Over
  /\ route \subseteq Family
  /\ probe \in [Family -> {"off"} \cup Alive \cup Done]
  /\ left \in [Family -> 0..Endpoints]
  /\ ip \in [Family -> Family \cup {None}]
  /\ found \subseteq Family
  /\ late \in BOOLEAN /\ cancelled \in BOOLEAN

\* Whether it returns, raises or is cancelled (also while it cleans up), no
\* probe task outlives the call.
NoProbeLeft == pc \in Over => Living = {}

\* The answer holds the address of every family whose probe succeeded before
\* the end, and no other: the grace window loses no result that came in time.
FoundIsComplete ==
  pc = "returned" => found = {f \in route : probe[f] = "ok"}
=============================================================================
