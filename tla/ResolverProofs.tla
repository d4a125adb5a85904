---------------------------- MODULE ResolverProofs ----------------------------
(* Theorems about proxybroker.resolver: the discovery of the external           *)
(* addresses, on its own (RealIps) and in Cli, for any number of endpoints, and *)
(* resolve() (Resolver) for any number of calls and hosts; and about what the   *)
(* commands of Cli write, for any number of results.                            *)
EXTENDS Cli, Resolver, TLAPS

-----------------------------------------------------------------------------
(* RealIps. *)

Succeeded == {f \in Family : probe[f] = "ok"}

\* A probe under way has an endpoint left to try, one that succeeded has found an
\* address of its own family, and only families with a route have one.
ProbesSound ==
  \A f \in Family :
    /\ probe[f] = "running" => left[f] >= 1
    /\ probe[f] = "ok" => ip[f] = f
    /\ probe[f] # "off" => f \in route

\* What has been found, and what still runs, by where the caller is.
CallerSound ==
  /\ pc \in {"start", "first"} => found = {}
  /\ pc = "start" => \A f \in Family : probe[f] = "off" /\ left[f] = Endpoints
  /\ pc = "grace" => found \subseteq Succeeded
  /\ pc \in {"clean"} \cup Over => \A f \in Family : probe[f] # "running"
  /\ pc = "clean" /\ ~cancelled => found = Succeeded
  /\ pc = "returned" => found = Succeeded
  /\ pc \in Over => \A f \in Family : probe[f] # "cancelling"

DiscoveryInv == TypeOK /\ ProbesSound /\ CallerSound

\* The invariant holds before the call.
LEMMA DiscoveryInit == Init => DiscoveryInv
<1> SUFFICES ASSUME Init PROVE DiscoveryInv  OBVIOUS
<1>1. TypeOK
  <2>1. Endpoints \in 0..Endpoints  BY RealIpsAssumption
  <2>2. left \in [Family -> 0..Endpoints]  BY <2>1 DEF Init
  <2> QED  BY <2>2 DEF Init, TypeOK
<1>2. ProbesSound  BY DEF Init, ProbesSound
<1>3. CallerSound  BY DEF Init, CallerSound, Over
<1> QED  BY <1>1, <1>2, <1>3 DEF DiscoveryInv

\* What the endpoints showed is worth as much as the probes that succeeded.
LEMMA ResultsAreSuccesses == ProbesSound => Results = Succeeded
BY DEF ProbesSound, Results, Succeeded

\* The invariant holds after a step of a probe.
LEMMA ProbeKeeps ==
  ASSUME DiscoveryInv, NEW f \in Family,
         EndpointEnds(f) \/ ConnectorFails(f) \/ ProbeCancelled(f)
  PROVE  DiscoveryInv'
<1> USE DEF DiscoveryInv
<1>1. /\ probe \in [Family -> {"off"} \cup Alive \cup Done]
      /\ left \in [Family -> 0..Endpoints] /\ ip \in [Family -> Family \cup {None}]
      /\ Endpoints \in Nat
  BY RealIpsAssumption DEF TypeOK
<1>2. UNCHANGED <<pc, route, found, late, cancelled>>
  BY DEF EndpointEnds, ConnectorFails, ProbeCancelled
<1>3. CASE EndpointEnds(f)
  <2>1. PICK v \in {f, None} :
          /\ ip' = [ip EXCEPT ![f] = v]
          /\ probe' = [probe EXCEPT ![f] = IF v # None THEN "ok"
                                           ELSE IF left[f] = 1 THEN "failed" ELSE probe[f]]
    BY <1>3 DEF EndpointEnds, Validated
  <2>2. probe[f] = "running" /\ left' = [left EXCEPT ![f] = @ - 1] /\ f # None
    BY <1>3, FamiliesAssumption DEF EndpointEnds
  <2>3. left[f] \in 1..Endpoints /\ f \in route  BY <1>1, <2>2 DEF ProbesSound
  <2>4. probe'[f] \in {"ok", "failed", "running"}
        /\ \A g \in Family : g # f => probe'[g] = probe[g] /\ left'[g] = left[g] /\ ip'[g] = ip[g]
    BY <1>1, <2>1, <2>2
  <2>5. TypeOK'
    <3>1. probe' \in [Family -> {"off"} \cup Alive \cup Done]
      BY <1>1, <2>1, <2>2 DEF Alive, Done
    <3>2. left' \in [Family -> 0..Endpoints] /\ ip' \in [Family -> Family \cup {None}]
      BY <1>1, <2>1, <2>2, <2>3
    <3> QED  BY <1>2, <3>1, <3>2 DEF TypeOK
  <2>6. ProbesSound'
    <3>1. probe'[f] = "running" => left'[f] >= 1
      BY <1>1, <2>1, <2>2, <2>3
    <3>2. probe'[f] = "ok" => ip'[f] = f  BY <1>1, <2>1, <2>2
    <3> QED  BY <1>2, <2>3, <2>4, <3>1, <3>2 DEF ProbesSound
  <2>7. pc \in {"first", "grace"}
    BY <2>2 DEF CallerSound, TypeOK
  <2>8. Succeeded \subseteq Succeeded'  BY <2>2, <2>4 DEF Succeeded
  <2>9. CallerSound'  BY <1>2, <2>7, <2>8 DEF CallerSound, Over
  <2> QED  BY <2>5, <2>6, <2>9
<1>4. CASE ConnectorFails(f) \/ ProbeCancelled(f)
  <2>1. PICK st \in {"failed", "cancelled"} : probe' = [probe EXCEPT ![f] = st]
    BY <1>4 DEF ConnectorFails, ProbeCancelled
  <2>2. UNCHANGED <<left, ip>> /\ probe[f] \in {"running", "cancelling"}
    BY <1>4 DEF ConnectorFails, ProbeCancelled
  <2>3. probe'[f] = st /\ \A g \in Family : g # f => probe'[g] = probe[g]
    BY <1>1, <2>1
  <2>4. TypeOK'  BY <1>1, <1>2, <2>1, <2>2 DEF TypeOK, Done
  <2>5. ProbesSound'  BY <1>2, <2>2, <2>3 DEF ProbesSound
  <2>6. Succeeded' = Succeeded  BY <2>2, <2>3 DEF Succeeded
  <2>7. pc # "start"  BY <2>2 DEF CallerSound
  <2>8. CallerSound'  BY <1>2, <2>3, <2>6, <2>7 DEF CallerSound
  <2> QED  BY <2>4, <2>5, <2>8
<1> QED  BY <1>3, <1>4

\* Cancelling the probes leaves none running and takes no result away.
LEMMA CancelProbesKeeps ==
  ASSUME TypeOK, ProbesSound, probe' = CancelProbes, UNCHANGED <<route, left, ip>>
  PROVE  /\ probe' \in [Family -> {"off"} \cup Alive \cup Done]
         /\ ProbesSound' /\ Succeeded' = Succeeded
         /\ \A f \in Family : probe'[f] # "running"
<1>1. \A f \in Family :
        probe'[f] = (IF probe[f] = "running" THEN "cancelling" ELSE probe[f])
  BY DEF CancelProbes
<1>2. probe' \in [Family -> {"off"} \cup Alive \cup Done]
  BY DEF CancelProbes, TypeOK, Alive
<1>3. ProbesSound'  BY <1>1 DEF ProbesSound
<1>4. Succeeded' = Succeeded  BY <1>1 DEF Succeeded
<1> QED  BY <1>1, <1>2, <1>3, <1>4

\* The invariant is inductive.
LEMMA DiscoveryStep == DiscoveryInv /\ [Next]_vars => DiscoveryInv'
<1> SUFFICES ASSUME DiscoveryInv, [Next]_vars PROVE DiscoveryInv'  OBVIOUS
<1> USE DEF DiscoveryInv
<1>1. Results = Succeeded /\ Succeeded \subseteq Family
  BY ResultsAreSuccesses DEF Succeeded
<1>2. CASE Discover
  <2>1. TypeOK'  BY <1>2 DEF Discover, TypeOK, Alive, Over
  <2>2. pc = "start" /\ UNCHANGED <<route, left, ip, found, late, cancelled>>
        /\ pc' \in {"raised", "first"} /\ (pc' = "raised" => route = {})
    BY <1>2 DEF Discover
  <2>3. \A f \in Family : probe'[f] = (IF f \in route THEN "running" ELSE "off")
    BY <1>2 DEF Discover
  <2>4. \A f \in Family : left[f] = Endpoints  BY <2>2 DEF CallerSound
  <2>5. ProbesSound'  BY <2>2, <2>3, <2>4, RealIpsAssumption DEF ProbesSound
  <2>6. CallerSound'  BY <2>2, <2>3 DEF CallerSound, Over
  <2> QED  BY <2>1, <2>5, <2>6
<1>3. CASE FirstWake
  <2>1. found' = Succeeded /\ UNCHANGED <<route, left, ip, late, cancelled>>
    BY <1>1, <1>3 DEF FirstWake
  <2>2. CASE pc' = "grace" /\ UNCHANGED probe
    <3>1. TypeOK'  BY <1>1, <2>1, <2>2 DEF TypeOK
    <3>2. ProbesSound' /\ Succeeded' = Succeeded  BY <2>1, <2>2 DEF ProbesSound, Succeeded
    <3> QED  BY <2>1, <2>2, <3>1, <3>2 DEF CallerSound, Over
  <2>3. CASE pc' = "clean" /\ probe' = CancelProbes
    <3>1. TypeOK'  BY <1>1, <2>1, <2>3, CancelProbesKeeps DEF TypeOK
    <3> QED  BY <2>1, <2>3, <3>1, CancelProbesKeeps DEF CallerSound, Over
  <2> QED  BY <1>3, <2>2, <2>3 DEF FirstWake
<1>4. CASE GraceWake
  <2>1. found' = Succeeded /\ UNCHANGED <<route, left, ip, late, cancelled>>
        /\ pc' = "clean" /\ probe' = CancelProbes
    BY <1>1, <1>4 DEF GraceWake, Gathered, CallerSound
  <2>2. TypeOK'  BY <1>1, <2>1, CancelProbesKeeps DEF TypeOK
  <2> QED  BY <2>1, <2>2, CancelProbesKeeps DEF CallerSound, Over
<1>5. CASE Late
  <2>1. TypeOK'  BY <1>5 DEF Late, TypeOK
  <2> QED  BY <1>5, <2>1 DEF Late, ProbesSound, CallerSound, Succeeded
<1>6. CASE Cancel
  <2>1. UNCHANGED <<route, left, ip, found, late>> /\ cancelled' = TRUE
        /\ pc' = "clean" /\ probe' = CancelProbes
    BY <1>6 DEF Cancel
  <2>2. TypeOK'  BY <2>1, CancelProbesKeeps DEF TypeOK
  <2> QED  BY <2>1, <2>2, CancelProbesKeeps DEF CallerSound, Over
<1>7. CASE Return
  <2>1. TypeOK'  BY <1>7 DEF Return, TypeOK, Over
  <2>2. \A f \in Family : probe[f] # "cancelling"
    BY <1>7 DEF Return, AllEnded, Living, Alive
  <2>3. pc' \in Over /\ (pc' = "returned" => ~cancelled)  BY <1>7 DEF Return, Over
  <2> QED  BY <1>7, <2>1, <2>2, <2>3 DEF Return, ProbesSound, CallerSound, Succeeded, Over
<1>8. ASSUME NEW f \in Family, EndpointEnds(f) \/ ConnectorFails(f) \/ ProbeCancelled(f)
      PROVE  DiscoveryInv'
  BY <1>8, ProbeKeeps
<1>9. CASE UNCHANGED vars
  BY <1>9 DEF vars, TypeOK, ProbesSound, CallerSound, Succeeded
<1> QED  BY <1>2, <1>3, <1>4, <1>5, <1>6, <1>7, <1>8, <1>9 DEF Next

\* The invariant holds in every behaviour.
THEOREM DiscoveryInvariant == Spec => []DiscoveryInv
<1> QED  BY DiscoveryInit, DiscoveryStep, PTL DEF Spec

-----------------------------------------------------------------------------
(* Cli. *)

\* Whatever the command and the signals, the discovery runs as it does alone.
THEOREM CliDiscovers == CliSpec => Spec
<1>1. CliInit => Init  BY DEF CliInit
<1>2. [CliNext]_cliVars => [Next]_vars
  BY DEF CliNext, cliVars, Discovers, InFind, CliStep, Schedules, WriterStarts, Writes,
     GatherEnds, GatherRaises, ServerStarts, Finds, WorkEnds, ServerGivesUp, Sigint,
     KeyboardInterrupt
<1> QED  BY <1>1, <1>2, PTL DEF CliSpec, Spec

\* However the call ends (resolver.py:329), no probe outlives it: not when it
\* is cancelled, nor when it is cancelled again as it cleans up.
THEOREM NoProbeOutlivesTheCall == CliSpec => []NoProbeLeft
<1>1. DiscoveryInv => NoProbeLeft
  BY DEF DiscoveryInv, CallerSound, NoProbeLeft, Living, Alive
<1> QED  BY <1>1, CliDiscovers, DiscoveryInvariant, PTL

\* The call returns the address of every family whose probe succeeded before its
\* end (resolver.py:384), and of no other.
THEOREM EveryAddressIsReturned == CliSpec => []FoundIsComplete
<1>1. DiscoveryInv => FoundIsComplete
  BY DEF DiscoveryInv, CallerSound, ProbesSound, TypeOK, FoundIsComplete, Succeeded
<1> QED  BY <1>1, CliDiscovers, DiscoveryInvariant, PTL

\* The pieces of a document, and how many of them n items take.
Text == Proxy \cup {"[", "]", ","}
Pieces(n) == IF n = 0 THEN 1 ELSE 2 * n

\* The first n items are on the page, each in its place.
TextLaid(page, items, n) ==
  /\ page \in Seq(Text) /\ Len(page) = n
  /\ \A i \in 1..n : items[i] # None /\ page[i] = items[i]

JsonLaid(page, items, n) ==
  /\ page \in Seq(Text) /\ Len(page) >= Pieces(n)
  /\ page[1] = "["
  /\ \A i \in 1..n : items[i] # None /\ page[2 * i] = items[i]
  /\ \A i \in 2..n : page[2 * i - 1] = ","

\* handle() has written what it has got.
Reading ==
  IF json THEN JsonLaid(out, queue, taken) /\ Len(out) = Pieces(taken)
          ELSE TextLaid(out, queue, taken)

Ended ==
  /\ taken > 0 /\ queue[taken] = None
  /\ IF json THEN /\ JsonLaid(out, queue, taken - 1)
                  /\ Len(out) = Pieces(taken - 1) + 1 /\ out[Len(out)] = "]"
             ELSE TextLaid(out, queue, taken - 1)

Queued == queue \in Seq(Proxy \cup {None}) /\ taken \in 0..Len(queue) /\ json \in BOOLEAN

Written ==
  /\ writer = "ready" => taken = 0
  /\ writer = "reading" => Reading
  /\ writer = "ended" => Ended

\* With it, only the end of gather() ends a command that prints.
WriterInv ==
  /\ Queued /\ Written
  /\ command \in Prints => server = "none"
  /\ exit = "returned" /\ command \in Prints => writer = "ended"

\* What is appended comes last.
LEMMA OneMore ==
  ASSUME NEW S, NEW s \in Seq(S), NEW x \in S
  PROVE  /\ s \o <<x>> \in Seq(S) /\ Len(s \o <<x>>) = Len(s) + 1
         /\ (s \o <<x>>)[Len(s) + 1] = x
         /\ \A i \in 1..Len(s) : (s \o <<x>>)[i] = s[i]
<1>1. <<x>> \in Seq(S) /\ Len(<<x>>) = 1 /\ <<x>>[1] = x  OBVIOUS
<1> QED  BY <1>1

\* Writing a result lays one more item out.
LEMMA TextOneMore ==
  ASSUME NEW page, NEW items \in Seq(Proxy \cup {None}), NEW n \in Nat, n < Len(items),
         items[n + 1] # None, TextLaid(page, items, n)
  PROVE  TextLaid(page \o <<items[n + 1]>>, items, n + 1)
<1> DEFINE p == items[n + 1]
<1>1. p \in Proxy \cup {None} /\ p # None  OBVIOUS
<1>2. p \in Text /\ page \in Seq(Text) /\ Len(page) = n  BY <1>1 DEF Text, TextLaid
<1> HIDE DEF p
<1>3. page \o <<p>> \in Seq(Text) /\ Len(page \o <<p>>) = n + 1 /\ (page \o <<p>>)[n + 1] = p
      /\ \A i \in 1..n : (page \o <<p>>)[i] = page[i]
  BY <1>2
<1>4. \A i \in 1..n : items[i] # None /\ page[i] = items[i]  BY DEF TextLaid
<1>5. ASSUME NEW i \in 1..(n + 1) PROVE items[i] # None /\ (page \o <<p>>)[i] = items[i]
  BY <1>1, <1>3, <1>4 DEF p
<1>6. TextLaid(page \o <<p>>, items, n + 1)  BY <1>3, <1>5 DEF TextLaid
<1> QED  BY <1>6 DEF p

\* In JSON the first result follows the bracket,
LEMMA JsonFirst ==
  ASSUME NEW page, NEW items \in Seq(Proxy \cup {None}), 0 < Len(items),
         items[1] # None, JsonLaid(page, items, 0), Len(page) = 1
  PROVE  JsonLaid(page \o <<items[1]>>, items, 1) /\ Len(page \o <<items[1]>>) = 2
<1> DEFINE p == items[1]
<1>1. p \in Proxy \cup {None} /\ p # None  OBVIOUS
<1>2. p \in Text /\ page \in Seq(Text) /\ page[1] = "["  BY <1>1 DEF Text, JsonLaid
<1> HIDE DEF p
<1> DEFINE more == page \o <<p>>
<1>3. page \in Seq(Text) /\ p \in Text  BY <1>2
<1>4. more \in Seq(Text) /\ Len(more) = 2 /\ more[2] = p /\ more[1] = page[1]
  <2>1. Len(page) = 1 /\ 1 \in 1..Len(page)  OBVIOUS
  <2>2. \A s \in Seq(Text), x \in Text :
          /\ s \o <<x>> \in Seq(Text) /\ Len(s \o <<x>>) = Len(s) + 1
          /\ (s \o <<x>>)[Len(s) + 1] = x /\ \A i \in 1..Len(s) : (s \o <<x>>)[i] = s[i]
    BY OneMore
  <2>3. /\ more \in Seq(Text) /\ Len(more) = Len(page) + 1 /\ more[Len(page) + 1] = p
        /\ \A i \in 1..Len(page) : more[i] = page[i]
    BY <1>3, <2>2, Zenon
  <2> HIDE DEF more
  <2> QED  BY <2>1, <2>3
<1> HIDE DEF more
<1>5. more[1] = "["  BY <1>2, <1>4
<1>6. ASSUME NEW i \in 1..1 PROVE items[i] # None /\ more[2 * i] = items[i]
  <2>1. i = 1 /\ 2 * i = 2  OBVIOUS
  <2> QED  BY <1>1, <1>4, <2>1 DEF p
<1>7. Len(more) >= Pieces(1) /\ 2..1 = {}  BY <1>4 DEF Pieces
<1>8. JsonLaid(more, items, 1)  BY <1>4, <1>5, <1>6, <1>7 DEF JsonLaid
<1> QED  BY <1>4, <1>8 DEF more, p

\* and any other a comma.
LEMMA JsonOneMore ==
  ASSUME NEW page, NEW items \in Seq(Proxy \cup {None}), NEW n \in Nat, n < Len(items), n # 0,
         items[n + 1] # None, JsonLaid(page, items, n), Len(page) = Pieces(n)
  PROVE  LET more == page \o <<",", items[n + 1]>>
         IN  JsonLaid(more, items, n + 1) /\ Len(more) = Pieces(n + 1)
<1> DEFINE p == items[n + 1]
           c == ","
           more == page \o <<c, p>>
<1>1. p \in Proxy \cup {None} /\ p # None  OBVIOUS
<1>2. p \in Text /\ c \in Text /\ page \in Seq(Text) /\ page[1] = "["
  BY <1>1 DEF Text, JsonLaid
<1>0. Len(page) = 2 * n  BY DEF Pieces
<1> HIDE DEF p, c
<1>3. /\ more \in Seq(Text) /\ Len(more) = 2 * n + 2
      /\ more[2 * n + 1] = c /\ more[2 * n + 2] = p
      /\ \A i \in 1..(2 * n) : more[i] = page[i]
  <2>1. p \in Text /\ c \in Text /\ page \in Seq(Text)  BY <1>2
  <2>2. more \in Seq(Text) /\ Len(more) = 2 * n + 2  BY <1>0, <2>1
  <2>3. more[2 * n + 1] = c  BY <1>0, <2>1
  <2>4. more[2 * n + 2] = p  BY <1>0, <2>1
  <2>5. \A i \in 1..(2 * n) : more[i] = page[i]  BY <1>0, <2>1
  <2> QED  BY <2>2, <2>3, <2>4, <2>5
<1> HIDE DEF more
<1>4. more[1] = "["
  <2>1. 1 \in 1..(2 * n)  OBVIOUS
  <2>2. more[1] = page[1]  BY <1>3, <2>1
  <2> QED  BY <1>2, <2>2
<1>5. ASSUME NEW i \in 1..(n + 1) PROVE items[i] # None /\ more[2 * i] = items[i]
  <2>1. CASE i = n + 1
    <3>1. 2 * i = 2 * n + 2  BY <2>1
    <3> QED  BY <1>1, <1>3, <2>1, <3>1 DEF p
  <2>2. CASE i # n + 1
    <3>1. i \in 1..n /\ 2 * i \in 1..(2 * n)  BY <2>2
    <3>2. items[i] # None /\ page[2 * i] = items[i]  BY <3>1 DEF JsonLaid
    <3> QED  BY <1>3, <3>1, <3>2
  <2> QED  BY <2>1, <2>2
<1>6. ASSUME NEW i \in 2..(n + 1) PROVE more[2 * i - 1] = ","
  <2>1. CASE i = n + 1
    <3>1. 2 * i - 1 = 2 * n + 1  BY <2>1
    <3> QED  BY <1>3, <3>1 DEF c
  <2>2. CASE i # n + 1
    <3>1. i \in 2..n /\ 2 * i - 1 \in 1..(2 * n)  BY <2>2
    <3>2. page[2 * i - 1] = ","  BY <3>1 DEF JsonLaid
    <3> QED  BY <1>3, <3>1, <3>2
  <2> QED  BY <2>1, <2>2
<1>7. Pieces(n + 1) = 2 * n + 2  BY DEF Pieces
<1>8. Len(more) = Pieces(n + 1) /\ Len(more) >= Pieces(n + 1)  BY <1>3, <1>7
<1>9. JsonLaid(more, items, n + 1)  BY <1>3, <1>4, <1>5, <1>6, <1>8 DEF JsonLaid
<1> QED  BY <1>8, <1>9 DEF more, p, c

\* A marker closes the page.
LEMMA MarkerCloses ==
  ASSUME NEW page, NEW items, NEW n \in Nat, JsonLaid(page, items, n), Len(page) = Pieces(n)
  PROVE  LET more == Append(page, "]")
         IN  JsonLaid(more, items, n) /\ Len(more) = Pieces(n) + 1 /\ more[Len(more)] = "]"
<1> DEFINE c == "]"
           more == Append(page, c)
<1>1. page \in Seq(Text) /\ c \in Text /\ page[1] = "["  BY DEF Text, JsonLaid
<1>2. /\ Pieces(n) \in Nat /\ 1 \in 1..Pieces(n)
      /\ \A i \in 1..n : 2 * i \in 1..Pieces(n) /\ 2 * i - 1 \in 1..Pieces(n)
  BY DEF Pieces
<1> HIDE DEF c
<1>3. /\ more \in Seq(Text) /\ Len(more) = Pieces(n) + 1 /\ more[Len(more)] = c
      /\ \A i \in 1..Pieces(n) : more[i] = page[i]
  <2>1. page \in Seq(Text) /\ c \in Text  BY <1>1
  <2> QED  BY <2>1, <1>2
<1> HIDE DEF more
<1>4. more[1] = "["
  <2>1. more[1] = page[1]  BY <1>2, <1>3
  <2> QED  BY <1>1, <2>1
<1>5. ASSUME NEW i \in 1..n PROVE items[i] # None /\ more[2 * i] = items[i]
  <2>1. items[i] # None /\ page[2 * i] = items[i]  BY DEF JsonLaid
  <2> QED  BY <1>2, <1>3, <2>1
<1>6. ASSUME NEW i \in 2..n PROVE more[2 * i - 1] = ","
  <2>1. page[2 * i - 1] = ","  BY DEF JsonLaid
  <2>2. i \in 1..n  OBVIOUS
  <2>3. more[2 * i - 1] = page[2 * i - 1]  BY <1>2, <1>3, <2>2
  <2> QED  BY <2>1, <2>3
<1>7. Len(more) >= Pieces(n)  BY <1>2, <1>3
<1>8. JsonLaid(more, items, n)  BY <1>3, <1>4, <1>5, <1>6, <1>7 DEF JsonLaid
<1> QED  BY <1>3, <1>8 DEF more, c

\* What was ahead of the marker at which handle() ended.
LEMMA AheadOfMarker ==
  ASSUME NEW n \in Nat, queue \in Seq(Proxy \cup {None}), n + 1 \in 1..Len(queue),
         queue[n + 1] = None, \A i \in 1..n : queue[i] # None
  PROVE  /\ Ahead \in Seq(Proxy \cup {None}) /\ Len(Ahead) = n
         /\ \A i \in 1..n : Ahead[i] = queue[i]
<1> DEFINE I == {i \in 1..Len(queue) : queue[i] = None}
<1>1. n + 1 \in I /\ I \subseteq Nat /\ \A i \in I : n + 1 <= i  OBVIOUS
<1>2. Ahead = SubSeq(queue, 1, (IF I # {} THEN Min(I) ELSE 0) - 1)
  BY DEF Ahead, SelectInSeq
<1> HIDE DEF I
<1>3. Min(I) = n + 1
  <2>1. \A i \in I : (\A j \in I : i <= j) => i = n + 1  BY <1>1
  <2>2. \E i \in I : \A j \in I : i <= j  BY <1>1
  <2>3. Min(I) \in I /\ \A j \in I : Min(I) <= j  BY <2>2 DEF Min
  <2> QED  BY <2>1, <2>3
<1>4. (IF I # {} THEN Min(I) ELSE 0) - 1 = n  BY <1>1, <1>3
<1>5. Ahead = SubSeq(queue, 1, n)  BY <1>2, <1>4
<1> QED  BY <1>5

\* A closed page is the document of its items.
LEMMA ClosedIsDocument ==
  ASSUME NEW page, NEW items, NEW n \in Nat, JsonLaid(page, items, n),
         Len(page) = Pieces(n) + 1, page[Len(page)] = "]",
         NEW list \in Seq(Proxy \cup {None}), Len(list) = n, \A i \in 1..n : list[i] = items[i]
  PROVE  page = Document(list)
<1> DEFINE F == [i \in 1..2 * n - 1 |-> IF i % 2 = 1 THEN list[(i + 1) \div 2] ELSE ","]
           m == IF n = 0 THEN 0 ELSE 2 * n - 1
           S == Proxy \cup {None} \cup Text
<1>1. m \in Nat /\ 1..2 * n - 1 = 1..m  OBVIOUS
<1>2. \A i \in 1..m : F[i] = IF i % 2 = 1 THEN list[(i + 1) \div 2] ELSE ","  BY <1>1
<1>3. \A i \in 1..m : F[i] \in S
  <2>1. \A i \in 1..m : (i + 1) \div 2 \in 1..n  OBVIOUS
  <2>2. \A i \in 1..n : list[i] \in S  OBVIOUS
  <2>3. "," \in S  BY DEF Text
  <2> HIDE DEF F, m, S
  <2> QED  BY <1>2, <2>1, <2>2, <2>3
<1>4. F \in Seq(S) /\ Len(F) = m
  <2>1. F \in [1..m -> S]  BY <1>1, <1>3
  <2> HIDE DEF F, m, S
  <2> QED  BY <1>1, <2>1
<1>5. Document(list) = <<"[">> \o F \o <<"]">>  BY DEF Document
<1> DEFINE D == <<"[">> \o F \o <<"]">>
<1>6. "[" \in S /\ "]" \in S  BY DEF Text
<1>7. page \in Seq(S) /\ Len(page) = m + 2 /\ page[1] = "[" /\ page[m + 2] = "]"
  <2>1. page \in Seq(Text)  BY DEF JsonLaid
  <2>2. page \in Seq(S)  BY <2>1
  <2>3. page[1] = "["  BY DEF JsonLaid
  <2>4. Len(page) = m + 2  BY DEF Pieces
  <2> HIDE DEF m, S
  <2> QED  BY <2>2, <2>3, <2>4
<1>8. ASSUME NEW i \in 1..m PROVE page[i + 1] = F[i]
  <2>1. CASE i % 2 = 1
    <3>1. PICK j \in 1..n : i = 2 * j - 1
      <4>1. (i + 1) \div 2 \in 1..n /\ i = 2 * ((i + 1) \div 2) - 1  BY <2>1
      <4> QED  BY <4>1
    <3>2. (i + 1) \div 2 = j /\ i + 1 = 2 * j  BY <3>1
    <3> HIDE DEF F, m, S
    <3>3. F[i] = items[j]  BY <1>2, <2>1, <3>2
    <3>4. page[2 * j] = items[j]  BY DEF JsonLaid
    <3> QED  BY <3>2, <3>3, <3>4
  <2>2. CASE i % 2 # 1
    <3>1. PICK j \in 2..n : i + 1 = 2 * j - 1
      <4>1. i \div 2 + 1 \in 2..n /\ i + 1 = 2 * (i \div 2 + 1) - 1  BY <2>2
      <4> QED  BY <4>1
    <3> HIDE DEF F, m, S
    <3>2. F[i] = ","  BY <1>2, <2>2
    <3>3. page[2 * j - 1] = ","  BY DEF JsonLaid
    <3> QED  BY <3>1, <3>2, <3>3
  <2> QED  BY <2>1, <2>2
<1> HIDE DEF F, m, S
<1>9. /\ D \in Seq(S) /\ Len(D) = m + 2 /\ D[1] = "[" /\ D[m + 2] = "]"
      /\ \A i \in 1..m : D[i + 1] = F[i]
  BY <1>1, <1>4, <1>6
<1> HIDE DEF D
<1>10. ASSUME NEW k \in 1..(m + 2) PROVE page[k] = D[k]
  <2>1. k = 1 \/ k = m + 2 \/ \E i \in 1..m : k = i + 1
    <3>1. k # 1 /\ k # m + 2 => k - 1 \in 1..m /\ k = (k - 1) + 1  BY <1>1
    <3> QED  BY <3>1
  <2> QED  BY <1>7, <1>8, <1>9, <2>1
<1>11. page = D  BY <1>1, <1>7, <1>9, <1>10
<1> QED  BY <1>5, <1>11 DEF D

\* What handle() has written when it ends.
LEMMA EndedIsDocument ==
  ASSUME Queued, Ended
  PROVE  out = IF json THEN Document(Ahead) ELSE Ahead
<1>1. PICK n \in Nat : n = taken - 1  BY DEF Queued, Ended
<1>2. /\ queue \in Seq(Proxy \cup {None}) /\ n + 1 \in 1..Len(queue) /\ n + 1 = taken
      /\ queue[n + 1] = None
  BY <1>1 DEF Queued, Ended
<1>3. CASE json
  <2>1. JsonLaid(out, queue, n) /\ Len(out) = Pieces(n) + 1 /\ out[Len(out)] = "]"
    BY <1>1, <1>3 DEF Ended
  <2>2. \A i \in 1..n : queue[i] # None  BY <2>1 DEF JsonLaid
  <2>3. /\ Ahead \in Seq(Proxy \cup {None}) /\ Len(Ahead) = n
        /\ \A i \in 1..n : Ahead[i] = queue[i]
    BY <1>2, <2>2, AheadOfMarker
  <2>4. out = Document(Ahead)  BY <2>1, <2>3, ClosedIsDocument
  <2> QED  BY <1>3, <2>4
<1>4. CASE ~json
  <2>1. TextLaid(out, queue, n)  BY <1>1, <1>4 DEF Ended
  <2>2. out \in Seq(Text) /\ Len(out) = n /\ \A i \in 1..n : queue[i] # None /\ out[i] = queue[i]
    BY <2>1 DEF TextLaid
  <2>3. /\ Ahead \in Seq(Proxy \cup {None}) /\ Len(Ahead) = n
        /\ \A i \in 1..n : Ahead[i] = queue[i]
    BY <1>2, <2>2, AheadOfMarker
  <2>4. out = Ahead  BY <2>2, <2>3
  <2> QED  BY <1>4, <2>4
<1> QED  BY <1>3, <1>4

\* What is written stays right when more is put into the queue.
LEMMA QueueGrows ==
  ASSUME WriterInv, UNCHANGED <<json, taken, writer, out>>,
         queue' = queue \/ \E x \in Proxy \cup {None} : queue' = Append(queue, x)
  PROVE  Queued' /\ Written'
<1>1. queue \in Seq(Proxy \cup {None}) /\ taken \in 0..Len(queue) /\ Queued /\ Written
  BY DEF WriterInv, Queued
<1>2. /\ queue' \in Seq(Proxy \cup {None}) /\ taken \in 0..Len(queue')
      /\ \A i \in 1..taken : queue'[i] = queue[i]
  BY <1>1
<1>3. Queued'  BY <1>1, <1>2 DEF Queued
<1>4. ASSUME NEW n \in 0..taken
      PROVE  /\ JsonLaid(out, queue, n) => JsonLaid(out, queue', n)
             /\ TextLaid(out, queue, n) => TextLaid(out, queue', n)
  <2>1. \A i \in 1..n : queue'[i] = queue[i]  BY <1>1, <1>2
  <2> QED  BY <2>1 DEF JsonLaid, TextLaid
<1>5. taken \in 0..taken /\ (taken > 0 => taken - 1 \in 0..taken /\ taken \in 1..taken)
  BY <1>1
<1>6. Reading => Reading'  BY <1>4, <1>5 DEF Reading
<1>7. Ended => Ended'
  <2> SUFFICES ASSUME Ended PROVE Ended'  OBVIOUS
  <2>1. taken > 0 /\ queue'[taken] = None  BY <1>2, <1>5 DEF Ended
  <2>2. /\ JsonLaid(out, queue, taken - 1) => JsonLaid(out, queue', taken - 1)
        /\ TextLaid(out, queue, taken - 1) => TextLaid(out, queue', taken - 1)
    BY <1>4, <1>5, <2>1
  <2> QED  BY <2>1, <2>2 DEF Ended
<1> QED  BY <1>1, <1>3, <1>6, <1>7 DEF Written

\* And when handle() takes the next of it.
LEMMA WritesInPlace ==
  ASSUME Queued, Reading, writer = "reading", Writes
  PROVE  Queued' /\ Written'
<1>1. PICK n \in Nat : n = taken  BY DEF Queued
<1>2. /\ n < Len(queue) /\ taken' = n + 1 /\ queue \in Seq(Proxy \cup {None})
      /\ UNCHANGED <<queue, json>>
  BY <1>1 DEF Writes, broker, Queued
<1>3. Queued'
  <2>1. taken' \in 0..Len(queue')  BY <1>2
  <2> QED  BY <1>2, <2>1 DEF Queued
<1>4. taken' > 0 /\ taken' - 1 = n  BY <1>2
<1>5. CASE queue[n + 1] = None
  <2>1. writer' = "ended" /\ out' = IF json THEN Append(out, "]") ELSE out
    BY <1>1, <1>5 DEF Writes
  <2>2. CASE json
    <3>1. JsonLaid(out, queue, n) /\ Len(out) = Pieces(n)  BY <1>1, <2>2 DEF Reading
    <3>2. /\ JsonLaid(out', queue, n) /\ Len(out') = Pieces(n) + 1 /\ out'[Len(out')] = "]"
      BY <2>1, <2>2, <3>1, MarkerCloses
    <3>3. Ended'  BY <1>2, <1>4, <1>5, <2>2, <3>2 DEF Ended
    <3> QED  BY <1>3, <2>1, <3>3 DEF Written
  <2>3. CASE ~json
    <3>1. TextLaid(out', queue, n)  BY <1>1, <2>1, <2>3 DEF Reading
    <3>2. Ended'  BY <1>2, <1>4, <1>5, <2>3, <3>1 DEF Ended
    <3> QED  BY <1>3, <2>1, <3>2 DEF Written
  <2> QED  BY <2>2, <2>3
<1>6. CASE queue[n + 1] # None
  <2>1. writer' = "reading" /\ out' = out \o Separated(queue[n + 1])
    BY <1>1, <1>6 DEF Writes
  <2>2. CASE ~json
    <3>1. out' = out \o <<queue[n + 1]>>  BY <2>1, <2>2 DEF Separated
    <3>2. TextLaid(out, queue, n)  BY <1>1, <2>2 DEF Reading
    <3>3. TextLaid(out', queue, n + 1)  BY <1>2, <1>6, <3>1, <3>2, TextOneMore
    <3>4. Reading'  BY <1>2, <2>2, <3>3 DEF Reading
    <3> QED  BY <1>3, <2>1, <3>4 DEF Written
  <2>3. CASE json /\ n = 0
    <3>1. out' = out \o <<queue[1]>>  BY <1>1, <2>1, <2>3 DEF Separated, is_first
    <3>2. JsonLaid(out, queue, 0) /\ Len(out) = 1  BY <1>1, <2>3 DEF Reading, Pieces
    <3>3. JsonLaid(out', queue, 1) /\ Len(out') = 2  BY <1>2, <1>6, <2>3, <3>1, <3>2, JsonFirst
    <3>4. taken' = 1 /\ Pieces(1) = 2  BY <1>2, <2>3 DEF Pieces
    <3>5. Reading'  BY <1>2, <2>3, <3>3, <3>4 DEF Reading
    <3> QED  BY <1>3, <2>1, <3>5 DEF Written
  <2>4. CASE json /\ n # 0
    <3>1. out' = out \o <<",", queue[n + 1]>>  BY <1>1, <2>1, <2>4 DEF Separated, is_first
    <3>2. JsonLaid(out, queue, n) /\ Len(out) = Pieces(n)  BY <1>1, <2>4 DEF Reading
    <3>3. JsonLaid(out', queue, n + 1) /\ Len(out') = Pieces(n + 1)
      BY <1>2, <1>6, <2>4, <3>1, <3>2, JsonOneMore
    <3>4. Reading'  BY <1>2, <2>4, <3>3 DEF Reading
    <3> QED  BY <1>3, <2>1, <3>4 DEF Written
  <2> QED  BY <2>2, <2>3, <2>4
<1> QED  BY <1>5, <1>6

\* The invariant is inductive.
LEMMA WriterStep == WriterInv /\ [CliNext]_cliVars => WriterInv'
<1> SUFFICES ASSUME WriterInv, [CliNext]_cliVars PROVE WriterInv'  OBVIOUS
<1>1. ASSUME UNCHANGED <<json, taken, writer, out>>,
             queue' = queue \/ \E x \in Proxy \cup {None} : queue' = Append(queue, x),
             command' = command, command \in Prints => server' = "none",
             exit' = "returned" /\ command \in Prints => exit = "returned" \/ writer = "ended"
      PROVE  WriterInv'
  <2>1. Queued' /\ Written'  BY <1>1, QueueGrows
  <2> QED  BY <1>1, <2>1 DEF WriterInv
<1>2. CASE Discovers \/ Schedules \/ Finds \/ GatherEnds \/ GatherRaises
  BY <1>1, <1>2 DEF Discovers, InFind, Schedules, Finds, GatherEnds, GatherRaises, broker,
     writing, WriterInv
<1>3. CASE WorkEnds
  BY <1>1, <1>3 DEF WorkEnds, writing, WriterInv
<1>4. CASE ServerStarts \/ ServerGivesUp
  BY <1>1, <1>4 DEF ServerStarts, ServerGivesUp, broker, writing, WriterInv
<1>5. CASE Sigint
  BY <1>1, <1>5 DEF Sigint, Stops, Marked, writing, WriterInv
<1>6. CASE KeyboardInterrupt
  BY <1>1, <1>6 DEF KeyboardInterrupt, Stops, Marked, writing, WriterInv
<1>7. CASE UNCHANGED cliVars
  BY <1>1, <1>7 DEF cliVars, broker, writing, WriterInv
<1>8. CASE WriterStarts
  <2>1. /\ writer' = "reading" /\ taken = 0 /\ Queued
        /\ UNCHANGED <<queue, taken, json, command, server, exit>> /\ exit # "returned"
        /\ out' = IF json THEN <<"[">> ELSE <<>>
    BY <1>8 DEF WriterStarts, broker, WriterInv, Written, Running
  <2>2. Queued'  BY <2>1 DEF Queued
  <2>3. "[" \in Text  BY DEF Text
  <2>4. TextLaid(<<>>, queue, 0) /\ JsonLaid(<<"[">>, queue, 0) /\ Len(<<"[">>) = Pieces(0)
    BY <2>3 DEF TextLaid, JsonLaid, Pieces
  <2>5. Reading'  BY <2>1, <2>4 DEF Reading
  <2>6. Written'  BY <2>1, <2>5 DEF Written
  <2> QED  BY <2>1, <2>2, <2>6 DEF WriterInv
<1>9. CASE Writes
  <2>1. /\ writer = "reading" /\ UNCHANGED <<command, server, exit>> /\ exit # "returned"
        /\ Queued /\ Reading
    BY <1>9 DEF Writes, broker, WriterInv, Written, Running
  <2>2. Queued' /\ Written'  BY <1>9, <2>1, WritesInPlace
  <2> QED  BY <2>1, <2>2 DEF WriterInv
<1> QED  BY <1>2, <1>3, <1>4, <1>5, <1>6, <1>7, <1>8, <1>9 DEF CliNext, CliStep

\* handle(), outformat() and gather() (cli.py:452): however results, the end of the
\* work and signals interleave, a command that returns has written one document,
\* of all that came before the first marker and of nothing that came after it.
THEOREM DocumentIsComplete == CliSpec => []DocumentComplete
<1>1. CliInit => WriterInv
  BY DEF CliInit, WriterInv, Queued, Written, Prints
<1>2. WriterInv => DocumentComplete
  BY EndedIsDocument DEF WriterInv, Written, DocumentComplete
<1> QED  BY <1>1, <1>2, WriterStep, PTL DEF CliSpec

-----------------------------------------------------------------------------
(* Resolver. *)

\* A call that has not begun has neither queries nor an answer; one that has
\* has a host, and if it pins a family has asked for no other.
AsksWhatItPins ==
  \A c \in Caller :
    /\ call[c].st = "idle" =>
         call[c].answer = None /\ \A f \in Family : query[c][f] = "off"
    /\ call[c].st # "idle" =>
         /\ call[c].host \in Host
         /\ \A f \in Family : query[c][f] # "off" => f \in Asked(call[c].want)

ResolverInv == LookupTypeOK /\ AsksWhatItPins /\ NoQueryLeft /\ PinIsHonoured

\* The invariant holds before any call.
LEMMA ResolverInit == LookupInit => ResolverInv
<1> SUFFICES ASSUME LookupInit PROVE ResolverInv  OBVIOUS
<1> USE DEF LookupInit
<1>1. Default \in Want  BY DEF Default, Want
<1>2. LookupTypeOK  BY <1>1 DEF LookupTypeOK, CallType, QueryState
<1>3. AsksWhatItPins  BY DEF AsksWhatItPins, Pending
<1>4. NoQueryLeft  BY DEF NoQueryLeft, CallOver
<1>5. PinIsHonoured  BY DEF PinIsHonoured
<1> QED  BY <1>2, <1>3, <1>4, <1>5 DEF ResolverInv

\* What a call pins is one family.
LEMMA PinnedIsFamily ==
  ASSUME NEW w \in Want, w # Default
  PROVE  Pinned(w) \in Family /\ Asked(w) = {Pinned(w)}
<1>1. w.qtype \in Family \cup {None} /\ w.family \in Family \cup {None}  BY DEF Want
<1>2. w = [qtype |-> w.qtype, family |-> w.family]  BY DEF Want
<1>3. ~(w.qtype = None /\ w.family = None)  BY <1>2 DEF Default
<1> QED  BY <1>1, <1>3 DEF Pinned, Asked

\* The end of a race leaves no query running and changes no answered one.
LEMMA LoserIsCancelled ==
  ASSUME LookupTypeOK, NEW c \in Caller, query' = LoserCancelled(c)
  PROVE  /\ query' \in [Caller -> [Family -> QueryState]]
         /\ \A f \in Family : query'[c][f] # "running"
         /\ \A f \in Family : query[c][f] # "running" => query'[c][f] = query[c][f]
         /\ \A f \in Family : query'[c][f] # "off" => query[c][f] # "off"
         /\ \A d \in Caller : d # c => query'[d] = query[d]
<1> DEFINE q == [f \in Family |-> IF f \in Pending(c) THEN "cancelled" ELSE query[c][f]]
<1>1. query \in [Caller -> [Family -> QueryState]]  BY DEF LookupTypeOK
<1>2. q \in [Family -> QueryState]  BY <1>1 DEF QueryState
<1>3. query' = [query EXCEPT ![c] = q]  BY DEF LoserCancelled
<1>4. query'[c] = q  BY <1>1, <1>3
<1>5. \A f \in Family : q[f] # "running" /\ (query[c][f] # "running" => q[f] = query[c][f])
                        /\ (q[f] # "off" => query[c][f] # "off")
  BY DEF Pending
<1> HIDE DEF q
<1> QED  BY <1>1, <1>2, <1>3, <1>4, <1>5

\* A step of one call that leaves the others alone keeps the invariant if it
\* keeps the types and that call's part of it.
LEMMA OneCall ==
  ASSUME ResolverInv, LookupTypeOK', NEW c \in Caller,
         \A d \in Caller : d # c => call'[d] = call[d] /\ query'[d] = query[d],
         call'[c].st # "idle", call'[c].host \in Host,
         \A f \in Family : query'[c][f] # "off" => f \in Asked(call'[c].want),
         call'[c].st \in CallOver => Pending(c)' = {},
         call'[c].want # Default /\ call'[c].answer # None =>
           \/ call'[c].answer.fam = Pinned(call'[c].want)
           \/ \E f \in Family : query'[c][f] = "empty"
  PROVE  ResolverInv'
<1>1. \A d \in Caller : d # c => Pending(d)' = Pending(d)  BY DEF Pending
<1>2. AsksWhatItPins'  BY <1>1 DEF ResolverInv, AsksWhatItPins
<1>3. NoQueryLeft'  BY <1>1 DEF ResolverInv, NoQueryLeft
<1>4. PinIsHonoured'  BY DEF ResolverInv, PinIsHonoured
<1> QED  BY <1>2, <1>3, <1>4 DEF ResolverInv

\* The invariant holds after resolve() has begun.
LEMMA ResolveKeeps ==
  ASSUME ResolverInv, NEW c \in Caller, NEW h \in Host, NEW w \in Want, Resolve(c, h, w)
  PROVE  ResolverInv'
<1>1. call \in [Caller -> CallType] /\ query \in [Caller -> [Family -> QueryState]]
      /\ cache \in [Host -> Entry \cup {None}]
  BY DEF ResolverInv, LookupTypeOK
<1>2. call[c].st = "idle"  BY DEF Resolve
<1>3. call[c].answer = None /\ \A f \in Family : query[c][f] = "off"
  BY <1>2 DEF ResolverInv, AsksWhatItPins
<1>4. cache' = cache  BY DEF Resolve
<1>5. CASE cache[h] # None /\ Compatible(cache[h], w)
  <2> DEFINE r == [call[c] EXCEPT !.st = "answered", !.host = h, !.want = w, !.answer = cache[h]]
  <2>1. call' = [call EXCEPT ![c] = r] /\ query' = query  BY <1>5 DEF Resolve
  <2>2. r \in CallType /\ r.st = "answered" /\ r.want = w /\ r.host = h
      /\ r.answer = cache[h]
    BY <1>1, <1>5 DEF CallType, CallOver
  <2> HIDE DEF r
  <2>3. call'[c] = r /\ \A d \in Caller : d # c => call'[d] = call[d]  BY <1>1, <2>1
  <2>4. LookupTypeOK'  BY <1>1, <1>4, <2>1, <2>2 DEF LookupTypeOK
  <2>5. \A f \in Family : query'[c][f] = "off"  BY <1>3, <2>1
  <2>6. Pending(c)' = {}  BY <2>5 DEF Pending
  <2>7. w = Default \/ r.answer.fam = Pinned(w)  BY <1>5, <2>2 DEF Compatible
  <2> QED  BY <2>1, <2>2, <2>3, <2>4, <2>5, <2>6, <2>7, OneCall
<1>6. CASE ~(cache[h] # None /\ Compatible(cache[h], w))
  <2> DEFINE r == [call[c] EXCEPT !.st = "waiting", !.host = h, !.want = w]
             q == [f \in Family |-> IF f \in Asked(w) THEN "running" ELSE "off"]
  <2>1. call' = [call EXCEPT ![c] = r] /\ query' = [query EXCEPT ![c] = q]
    BY <1>6 DEF Resolve
  <2>2. r \in CallType /\ r.st = "waiting" /\ r.want = w /\ r.host = h
      /\ r.answer = None
    BY <1>1, <1>3 DEF CallType
  <2>3. q \in [Family -> QueryState] /\ \A f \in Family : q[f] # "off" => f \in Asked(w)
    BY DEF QueryState
  <2> HIDE DEF r, q
  <2>4. call'[c] = r /\ query'[c] = q
        /\ \A d \in Caller : d # c => call'[d] = call[d] /\ query'[d] = query[d]
    BY <1>1, <2>1
  <2>5. LookupTypeOK'  BY <1>1, <1>4, <2>1, <2>2, <2>3 DEF LookupTypeOK
  <2>6. r.st \notin CallOver  BY <2>2 DEF CallOver
  <2> QED  BY <2>2, <2>3, <2>4, <2>5, <2>6, OneCall
<1> QED  BY <1>5, <1>6

\* What holds of a call that waits, when a step ends it or lets it wait on.
\* `r' is its new record, `q' what becomes of its queries.
LEMMA WaiterKeeps ==
  ASSUME ResolverInv, NEW c \in Caller, call[c].st = "waiting",
         NEW r \in CallType, NEW q \in [Family -> QueryState],
         call' = [call EXCEPT ![c] = r], query' = [query EXCEPT ![c] = q],
         cache' \in [Host -> Entry \cup {None}],
         r.st # "idle", r.want = call[c].want, r.host = call[c].host,
         \A f \in Family : q[f] # "off" => query[c][f] # "off",
         r.st \in CallOver => \A f \in Family : q[f] # "running",
         r.want # Default /\ r.answer # None =>
           r.answer.fam = Pinned(r.want) \/ \E f \in Family : q[f] = "empty"
  PROVE  ResolverInv'
<1>1. call \in [Caller -> CallType] /\ query \in [Caller -> [Family -> QueryState]]
  BY DEF ResolverInv, LookupTypeOK
<1>2. call'[c] = r /\ query'[c] = q
      /\ \A d \in Caller : d # c => call'[d] = call[d] /\ query'[d] = query[d]
  BY <1>1
<1>3. LookupTypeOK'  BY <1>1 DEF LookupTypeOK
<1>4. \A f \in Family : q[f] # "off" => f \in Asked(r.want)
  BY DEF ResolverInv, AsksWhatItPins
<1>5. r.st \in CallOver => Pending(c)' = {}  BY <1>2 DEF Pending
<1>6. r.host \in Host  BY DEF ResolverInv, AsksWhatItPins
<1> QED  BY <1>2, <1>3, <1>4, <1>5, <1>6, OneCall

\* The queries of a call after the race: none runs, and what was answered is.
Cancelled(c) == [f \in Family |-> IF f \in Pending(c) THEN "cancelled" ELSE query[c][f]]

LEMMA CancelledQueries ==
  ASSUME ResolverInv, NEW c \in Caller
  PROVE  /\ LoserCancelled(c) = [query EXCEPT ![c] = Cancelled(c)]
         /\ Cancelled(c) \in [Family -> QueryState]
         /\ \A f \in Family : /\ Cancelled(c)[f] # "running"
                              /\ Cancelled(c)[f] # "off" => query[c][f] # "off"
                              /\ query[c][f] = "empty" => Cancelled(c)[f] = "empty"
<1>1. query \in [Caller -> [Family -> QueryState]]  BY DEF ResolverInv, LookupTypeOK
<1>2. LoserCancelled(c) = [query EXCEPT ![c] = Cancelled(c)]
  BY DEF LoserCancelled, Cancelled
<1>3. Cancelled(c) \in [Family -> QueryState]  BY <1>1 DEF Cancelled, QueryState
<1>4. ASSUME NEW f \in Family
      PROVE  /\ Cancelled(c)[f] # "running"
             /\ Cancelled(c)[f] # "off" => query[c][f] # "off"
             /\ query[c][f] = "empty" => Cancelled(c)[f] = "empty"
  BY DEF Cancelled, Pending
<1> QED  BY <1>2, <1>3, <1>4

\* The invariant holds after each step of a call under way.
LEMMA WaiterStep ==
  ASSUME ResolverInv, NEW c \in Caller,
         Wins(c) \/ Breaks(c) \/ NothingCame(c) \/ CancelCall(c)
  PROVE  ResolverInv'
<1>1. call \in [Caller -> CallType] /\ query \in [Caller -> [Family -> QueryState]]
      /\ cache \in [Host -> Entry \cup {None}]
  BY DEF ResolverInv, LookupTypeOK
<1>2. call[c].st = "waiting" /\ call[c] \in CallType /\ query[c] \in [Family -> QueryState]
  BY <1>1 DEF Wins, Breaks, NothingCame, CancelCall
<1>3. \A f \in Family : query[c][f] # "off" => f \in Asked(call[c].want)
  BY <1>2 DEF ResolverInv, AsksWhatItPins
<1>4. query = [query EXCEPT ![c] = query[c]]  BY <1>1
<1>5. call[c].want # Default /\ call[c].answer # None =>
        \/ call[c].answer.fam = Pinned(call[c].want)
        \/ \E f \in Family : query[c][f] = "empty"
  BY DEF ResolverInv, PinIsHonoured
<1>6. CASE Wins(c)
  <2>1. PICK f \in FirstReady(c) :
          /\ query[c][f] = "records"
          /\ cache' = [cache EXCEPT ![call[c].host] = EntryFor(c, f)]
          /\ call' = [call EXCEPT ![c] = [call[c] EXCEPT !.st = "answered",
                                                         !.answer = EntryFor(c, f)]]
    BY <1>6 DEF Wins
  <2>2. f \in Family /\ EntryFor(c, f) \in Entry /\ EntryFor(c, f).fam = f
    BY <2>1 DEF FirstReady, New, EntryFor, Entry
  <2>3. cache' \in [Host -> Entry \cup {None}]  BY <1>1, <2>1, <2>2
  <2> DEFINE r == [call[c] EXCEPT !.st = "answered", !.answer = EntryFor(c, f)]
  <2>4. r \in CallType /\ r.st = "answered" /\ r.want = call[c].want
      /\ r.host = call[c].host /\ r.answer.fam = f
    BY <1>2, <2>2 DEF CallType, CallOver
  <2>5. f \in Asked(call[c].want)  BY <1>3, <2>1, <2>2
  <2>6. call[c].want # Default => f = Pinned(call[c].want)
    BY <1>2, <2>5, PinnedIsFamily DEF CallType
  <2>7. call' = [call EXCEPT ![c] = r] /\ query' = LoserCancelled(c)  BY <1>6, <2>1 DEF Wins
  <2> HIDE DEF r
  <2>8. r.want # Default => r.answer.fam = Pinned(r.want)  BY <2>4, <2>6
  <2>9. r.st # "idle"  BY <2>4
  <2> QED  BY <1>2, <2>3, <2>4, <2>7, <2>8, <2>9, CancelledQueries, WaiterKeeps
<1>7. CASE Breaks(c) \/ CancelCall(c)
  <2>1. PICK st \in {"raised", "cancelled"} : call' = [call EXCEPT ![c].st = st]
    BY <1>7 DEF Breaks, CancelCall
  <2>2. query' = LoserCancelled(c) /\ cache' = cache  BY <1>7 DEF Breaks, CancelCall
  <2> DEFINE r == [call[c] EXCEPT !.st = st]
  <2>3. r \in CallType /\ r.st = st /\ r.want = call[c].want
      /\ r.host = call[c].host /\ r.answer = call[c].answer
    BY <1>2 DEF CallType, CallOver
  <2>4. call' = [call EXCEPT ![c] = r]  BY <1>1, <2>1
  <2> HIDE DEF r
  <2>5. r.want # Default /\ r.answer # None =>
          r.answer.fam = Pinned(r.want) \/ \E f \in Family : Cancelled(c)[f] = "empty"
    BY <1>5, <2>3, CancelledQueries
  <2>6. r.st # "idle" /\ cache' \in [Host -> Entry \cup {None}]  BY <1>1, <2>2, <2>3
  <2> QED  BY <1>2, <2>2, <2>3, <2>4, <2>5, <2>6, CancelledQueries, WaiterKeeps
<1>8. CASE NothingCame(c)
  <2>1. New(c) # {} /\ (\A f \in New(c) : query[c][f] \in {"empty", "error"})
        /\ query' = [query EXCEPT ![c] = query[c]] /\ cache' = cache
    BY <1>4, <1>8 DEF NothingCame
  <2>2. call[c].host \in Host /\ cache[call[c].host] \in Entry \cup {None}
    BY <1>1, <1>2 DEF ResolverInv, AsksWhatItPins
  <2>3. CASE ~LastOne(c)
    <3> DEFINE r == [call[c] EXCEPT !.seen = @ \cup New(c)]
    <3>0. LastOne(c) = FALSE  BY <2>3 DEF LastOne
    <3>1. call' = [call EXCEPT ![c] = r]  BY <1>8, <3>0, Zenon DEF NothingCame
    <3>2. r \in CallType /\ r.st = "waiting" /\ r.want = call[c].want
          /\ r.host = call[c].host /\ r.answer = call[c].answer
      BY <1>2 DEF CallType, New
    <3> HIDE DEF r
    <3>3. r.st \notin CallOver  BY <3>2 DEF CallOver
    <3>4. r.want # Default /\ r.answer # None =>
            r.answer.fam = Pinned(r.want) \/ \E f \in Family : query[c][f] = "empty"
      BY <1>5, <3>2
    <3> QED  BY <1>1, <1>2, <2>1, <3>1, <3>2, <3>3, <3>4, WaiterKeeps
  <2>4. CASE LastOne(c) /\ \E f \in Family : query[c][f] = "error"
    <3> DEFINE r == [call[c] EXCEPT !.st = "failed"]
    <3>1. call' = [call EXCEPT ![c] = r]  BY <1>8, <2>4 DEF NothingCame
    <3>2. r \in CallType /\ r.st = "failed" /\ r.want = call[c].want
          /\ r.host = call[c].host /\ r.answer = call[c].answer
      BY <1>2 DEF CallType, CallOver
    <3> HIDE DEF r
    <3>3. \A f \in Family : query[c][f] # "running"  BY <2>4 DEF LastOne, Pending
    <3>4. r.want # Default /\ r.answer # None =>
            r.answer.fam = Pinned(r.want) \/ \E f \in Family : query[c][f] = "empty"
      BY <1>5, <3>2
    <3> QED  BY <1>1, <1>2, <2>1, <3>1, <3>2, <3>3, <3>4, WaiterKeeps
  <2>5. CASE LastOne(c) /\ ~\E f \in Family : query[c][f] = "error"
    <3> DEFINE r == [call[c] EXCEPT !.st = "answered", !.answer = cache[call[c].host]]
    <3>1. call' = [call EXCEPT ![c] = r]  BY <1>8, <2>5 DEF NothingCame
    <3>2. r \in CallType /\ r.st = "answered" /\ r.want = call[c].want
          /\ r.host = call[c].host
      BY <1>2, <2>2 DEF CallType, CallOver
    <3> HIDE DEF r
    <3>3. \A f \in Family : query[c][f] # "running"  BY <2>5 DEF LastOne, Pending
    <3>4. \E f \in Family : query[c][f] = "empty"  BY <2>1, <2>5 DEF New
    <3> QED  BY <1>1, <1>2, <2>1, <3>1, <3>2, <3>3, <3>4, WaiterKeeps
  <2> QED  BY <2>3, <2>4, <2>5
<1> QED  BY <1>6, <1>7, <1>8

\* The invariant is inductive.
LEMMA ResolverStep == ResolverInv /\ [LookupNext]_lookupVars => ResolverInv'
<1> SUFFICES ASSUME ResolverInv, [LookupNext]_lookupVars PROVE ResolverInv'  OBVIOUS
<1>1. ASSUME NEW c \in Caller, NEW h \in Host, NEW w \in Want, Resolve(c, h, w)
      PROVE  ResolverInv'
  BY <1>1, ResolveKeeps
<1>2. ASSUME NEW c \in Caller, NEW f \in Family, QueryEnds(c, f) PROVE ResolverInv'
  <2>1. call \in [Caller -> CallType] /\ query \in [Caller -> [Family -> QueryState]]
    BY DEF ResolverInv, LookupTypeOK
  <2>2. PICK a \in Answers : query' = [query EXCEPT ![c] = [query[c] EXCEPT ![f] = a]]
    BY <1>2, <2>1 DEF QueryEnds
  <2> DEFINE q == [query[c] EXCEPT ![f] = a]
  <2>3. query[c][f] = "running" /\ UNCHANGED <<cache, call>>  BY <1>2 DEF QueryEnds
  <2>4. q \in [Family -> QueryState] /\ q[f] = a /\ a # "running"
        /\ \A g \in Family : g # f => q[g] = query[c][g]
    BY <2>1, <2>2 DEF QueryState, Answers
  <2>5. LookupTypeOK'  BY <2>1, <2>2, <2>3, <2>4 DEF ResolverInv, LookupTypeOK
  <2>6. \A d \in Caller : d # c => query'[d] = query[d]  BY <2>1, <2>2
  <2>7. query'[c] = q  BY <2>1, <2>2
  <2> HIDE DEF q
  <2>8. call[c].st # "idle" /\ call[c].st \notin CallOver
    BY <2>3 DEF ResolverInv, AsksWhatItPins, NoQueryLeft, Pending
  <2>9. \A g \in Family : query'[c][g] # "off" => g \in Asked(call[c].want)
    BY <2>3, <2>4, <2>7, <2>8 DEF ResolverInv, AsksWhatItPins
  <2>10. \A g \in Family : query[c][g] = "empty" => query'[c][g] = "empty"
    BY <2>3, <2>4, <2>7
  <2>11. call'[c] = call[c] /\ call[c].host \in Host
    BY <2>3, <2>8 DEF ResolverInv, AsksWhatItPins
  <2>12. call[c].want # Default /\ call[c].answer # None =>
           \/ call[c].answer.fam = Pinned(call[c].want)
           \/ \E g \in Family : query'[c][g] = "empty"
    BY <2>10 DEF ResolverInv, PinIsHonoured
  <2> QED  BY <2>3, <2>5, <2>6, <2>8, <2>9, <2>11, <2>12, OneCall
<1>3. ASSUME NEW c \in Caller, Wake(c) \/ CancelCall(c) PROVE ResolverInv'
  BY <1>3, WaiterStep DEF Wake
<1>4. CASE UNCHANGED lookupVars
  BY <1>4 DEF lookupVars, ResolverInv, LookupTypeOK, AsksWhatItPins, NoQueryLeft, PinIsHonoured, Pending
<1> QED  BY <1>1, <1>2, <1>3, <1>4 DEF LookupNext

\* The invariant holds in every behaviour.
THEOREM ResolverInvariant == LookupSpec => []ResolverInv
<1> QED  BY ResolverInit, ResolverStep, PTL DEF LookupSpec

\* However resolve() ends (resolver.py:600), none of its queries runs on.
THEOREM ResolverLeavesNoQuery == LookupSpec => []NoQueryLeft
<1>1. ResolverInv => NoQueryLeft  BY DEF ResolverInv
<1> QED  BY <1>1, ResolverInvariant, PTL

\* However many calls share the cache (resolver.py:486), one that pins a family
\* is served the other only after an empty answer of its own.
THEOREM ResolverHonoursPin == LookupSpec => []PinIsHonoured
<1>1. ResolverInv => PinIsHonoured  BY DEF ResolverInv
<1> QED  BY <1>1, ResolverInvariant, PTL
=============================================================================
