----------------------------- MODULE ProxyPool ------------------------------
(***************************************************************************)
(* proxybroker.server.ProxyPool: the proxies a local server hands out.     *)
(*                                                                         *)
(* The heap of (avg_resp_time, proxy) pairs is a set of entries: popping   *)
(* takes one with the least time.  Comparing two entries of equal time     *)
(* compares two Proxy objects, which raises TypeError; whether an          *)
(* operation reaches such a comparison depends on the heap's layout, so    *)
(* with a tie in the heap it may raise or not.                             *)
(***************************************************************************)
EXTENDS Integers, Sequences, FiniteSets

CONSTANTS
  Proxy,             \* Proxy objects the broker may deliver
  Schemes,           \* the schemes each one supports
  HostPort,          \* the host:port of each one; several may share it
  Times,             \* average response times, rounded
  MinQueue,          \* min_queue
  MaxImportRetries,  \* max_import_retries
  None               \* Python's None

Scheme == {"HTTP", "HTTPS"}

ASSUME PoolAssumption ==
  /\ None \notin Proxy
  /\ Schemes \in [Proxy -> SUBSET Scheme]
  /\ Times \subseteq Nat /\ Times # {}
  /\ MinQueue \in Nat /\ MaxImportRetries \in Nat \ {0}

VARIABLES
  supply,     \* the broker's result queue
  newcomers,  \* _newcomers
  pool,       \* _pool
  grade,      \* a proxy's statistics: "new" while it has fewer requests than
              \* min_req_proxy, then "good" or "bad" by error rate and time
  time,       \* its avg_resp_time
  gone        \* history: how a proxy left for good, or "no"

poolVars == <<supply, newcomers, pool, grade, time, gone>>

Grade == {"new", "good", "bad"}
Entry == [time : Times, proxy : Proxy]
Address == {HostPort[p] : p \in Proxy}

\* A proxy leaves when put() drops it or the control API removes it, or is lost
\* to an exception: _choice_proto's, the heap's, or request.decode()'s.
Loss == {"protoError", "heapError", "decodeError"}
Gone == {"no", "discarded", "removed"} \cup Loss

Tie(S) == \E e, f \in S : e # f /\ e.time = f.time

\* put(): by its statistics a proxy joins the newcomers, is dropped or joins
\* the heap.  `g' and `t' are its statistics by now.
PutTwice(p, g, t) ==
  /\ grade' = [grade EXCEPT ![p] = g]
  /\ time' = [time EXCEPT ![p] = t]
  /\ newcomers' = IF g = "new" THEN Append(newcomers, p) ELSE newcomers
  /\ pool' = IF g # "bad" THEN pool \cup {[time |-> t, proxy |-> p]} ELSE pool
  /\ gone' = IF g = "bad" THEN [gone EXCEPT ![p] = "discarded"] ELSE gone
PutOldKey(p, g, t) ==
  /\ grade' = [grade EXCEPT ![p] = g]
  /\ time' = [time EXCEPT ![p] = t]
  /\ newcomers' = IF g = "new" THEN Append(newcomers, p) ELSE newcomers
  /\ pool' = IF g = "good" THEN pool \cup {[time |-> time[p], proxy |-> p]} ELSE pool
  /\ gone' = IF g = "bad" THEN [gone EXCEPT ![p] = "discarded"] ELSE gone
Put(p, g, t) ==
  /\ grade' = [grade EXCEPT ![p] = g]
  /\ time' = [time EXCEPT ![p] = t]
  /\ newcomers' = IF g = "new" THEN Append(newcomers, p) ELSE newcomers
  /\ pool' = IF g = "good" THEN pool \cup {[time |-> t, proxy |-> p]} ELSE pool
  /\ gone' = IF g = "bad" THEN [gone EXCEPT ![p] = "discarded"] ELSE gone

\* heappush appends the entry before it compares: if that raises, the entry
\* is in the heap all the same.
PutMayRaise(g, t) == g = "good" /\ \E e \in pool : e.time = t

\* get(), on an established pool: the suitable entry with the least time.
Suitable(scheme) == {e \in pool : scheme \in Schemes[e.proxy]}
Best(scheme) ==
  {e \in Suitable(scheme) : \A f \in Suitable(scheme) : e.time <= f.time}

\* What get() pops on its way: everything no slower than its choice.  When a
\* comparison raises, entries popped and not yet pushed back are lost.
Popped(scheme) ==
  {e \in pool : \A f \in Best(scheme) : e.time <= f.time}

=============================================================================
