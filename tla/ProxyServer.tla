---------------------------- MODULE ProxyServer -----------------------------
(***************************************************************************)
(* proxybroker.server.Server over its ProxyPool: one _handle task per      *)
(* client connection, the control API, and the shutdown that a             *)
(* NoProxyError triggers.  A step runs up to the next await that suspends. *)
(***************************************************************************)
EXTENDS ProxyPool, SequencesExt

CONSTANTS
  Client,    \* client connections
  MaxTries   \* max_tries, attempts per request

ASSUME ServerAssumption == MaxTries \in Nat \ {0} /\ None \notin Client

VARIABLES
  handler,   \* per client: its _handle task
  listening, \* the server is up (_server is not None)
  turn,      \* the handler that holds the event loop between two attempts
  delivered  \* history: proxies the broker has delivered

vars == <<poolVars, handler, listening, turn, delivered>>

\* States of a handler: "idle" before the connection, "get" about to call
\* pool.get(), "import" awaiting the broker's queue, "use" connected through a
\* proxy, "cancelling" the same with a cancellation on its way.
Busy  == {"get", "import", "use", "cancelling"}
Ended == {"served", "exhausted", "cancelled", "noProxy", "closed",
          "protoError", "heapError", "decodeError"}
Handler == [st : {"idle"} \cup Busy \cup Ended, scheme : Scheme \cup {None},
            proxy : Proxy \cup {None}, tries : 0..MaxTries,
            retries : 0..MaxImportRetries]

Using(c) == handler[c].st \in {"use", "cancelling"}

-----------------------------------------------------------------------------
Init ==
  /\ supply = <<>> /\ newcomers = <<>> /\ pool = {}
  /\ grade \in [Proxy -> Grade]
  /\ time \in [Proxy -> Times]
  /\ gone = [p \in Proxy |-> "no"]
  /\ handler = [c \in Client |-> [st |-> "idle", scheme |-> None, proxy |-> None,
                                  tries |-> 0, retries |-> 0]]
  /\ listening = TRUE
  /\ turn = None
  /\ delivered = {}

\* The broker delivers a proxy; its checks already gave it statistics.  Every
\* pass of a discovery makes new objects, so that an object comes once but its
\* host:port may come again, while the earlier object is in use or in the pool.
Supply(p) ==
  /\ turn = None
  /\ p \notin delivered
  /\ delivered' = delivered \cup {p}
  /\ supply' = Append(supply, p)
  /\ UNCHANGED <<newcomers, pool, grade, time, gone, handler, listening, turn>>

\* The broker puts its end-of-stream marker.
SupplyEnds ==
  /\ turn = None
  /\ \A i \in DOMAIN supply : supply[i] # None
  /\ supply' = Append(supply, None)
  /\ UNCHANGED <<newcomers, pool, grade, time, gone, handler, listening, turn, delivered>>

\* A connection is accepted and its request read.
Request(c, scheme) ==
  /\ turn = None /\ listening
  /\ handler[c].st = "idle"
  /\ handler' = [handler EXCEPT ![c].st = "get", ![c].scheme = scheme]
  /\ UNCHANGED <<poolVars, listening, turn, delivered>>

\* get() returned proxy p.  _choice_proto comes before the try: when p does
\* not speak the scheme it raises, and p is never put back.
Choose(c, p) ==
  IF handler[c].scheme \in Schemes[p]
    THEN /\ handler' = [handler EXCEPT ![c].st = "use", ![c].proxy = p]
         /\ UNCHANGED gone
    ELSE /\ handler' = [handler EXCEPT ![c].st = "protoError"]
         /\ gone' = [gone EXCEPT ![p] = "protoError"]

MyTurn(c) == turn \in {None, c} /\ handler[c].st = "get"

\* get(): too few proxies to choose from, or none that suits: import.
Scarce == Len(newcomers) + Cardinality(pool) < MinQueue
GetImports(c) ==
  /\ MyTurn(c)
  /\ Scarce \/ (newcomers = <<>> /\ Suitable(handler[c].scheme) = {})
  /\ handler' = [handler EXCEPT ![c].st = "import", ![c].retries = 0]
  /\ turn' = None
  /\ UNCHANGED <<poolVars, listening, delivered>>

\* get(): the oldest newcomer, whatever it speaks.
GetNewcomer(c) ==
  /\ MyTurn(c)
  /\ ~Scarce /\ newcomers # <<>>
  /\ newcomers' = Tail(newcomers)
  /\ Choose(c, Head(newcomers))
  /\ turn' = None
  /\ UNCHANGED <<supply, pool, grade, time, listening, delivered>>

\* get(): the best established proxy.
GetBest(c) ==
  /\ MyTurn(c)
  /\ ~Scarce /\ newcomers = <<>>
  /\ \E e \in Best(handler[c].scheme) :
       /\ pool' = pool \ {e}
       /\ Choose(c, e.proxy)
  /\ turn' = None
  /\ UNCHANGED <<supply, newcomers, grade, time, listening, delivered>>

\* get(): the heap compares two proxies; what was popped and not pushed back
\* is lost and the connection fails.
GetRaises(c) ==
  /\ MyTurn(c)
  /\ ~Scarce /\ newcomers = <<>> /\ Tie(pool)
  /\ \E lost \in SUBSET Popped(handler[c].scheme) :
       /\ pool' = pool \ lost
       /\ gone' = [p \in Proxy |-> IF p \in {e.proxy : e \in lost} THEN "heapError" ELSE gone[p]]
  /\ handler' = [handler EXCEPT ![c].st = "heapError"]
  /\ turn' = None
  /\ UNCHANGED <<supply, newcomers, grade, time, listening, delivered>>

\* _import(): the next proxy of the broker's queue suits.
ImportMatch(c) ==
  /\ turn = None /\ handler[c].st = "import"
  /\ supply # <<>> /\ Head(supply) # None
  /\ handler[c].scheme \in Schemes[Head(supply)]
  /\ supply' = Tail(supply)
  /\ Choose(c, Head(supply))
  /\ UNCHANGED <<newcomers, pool, grade, time, listening, turn, delivered>>

\* _import(): it does not: into the pool with it, and once more.  put() may
\* raise; out of retries, _import gives up.
ImportMismatch(c) ==
  /\ turn = None /\ handler[c].st = "import"
  /\ supply # <<>> /\ Head(supply) # None
  /\ LET p == Head(supply) IN
       /\ handler[c].scheme \notin Schemes[p]
       /\ Put(p, grade[p], time[p])
       /\ \/ handler' = [handler EXCEPT ![c].retries = @ + 1,
                           ![c].st = IF handler[c].retries + 1 < MaxImportRetries
                                       THEN "import" ELSE "noProxy"]
          \/ /\ PutMayRaise(grade[p], time[p])
             /\ handler' = [handler EXCEPT ![c].st = "heapError"]
  /\ supply' = Tail(supply)
  /\ UNCHANGED <<listening, turn, delivered>>

\* _import(): the broker is done, or nothing came in time: NoProxyError.
ImportEnds(c) ==
  /\ turn = None /\ handler[c].st = "import"
  /\ \/ supply # <<>> /\ Head(supply) = None /\ supply' = Tail(supply)
     \/ UNCHANGED supply
  /\ handler' = [handler EXCEPT ![c].st = "noProxy"]
  /\ UNCHANGED <<newcomers, pool, grade, time, gone, listening, turn, delivered>>

\* How a use may change a proxy's statistics: requests only grow.
Used(p) == IF grade[p] = "new" THEN Grade ELSE {"good", "bad"}

\* A handler that lets its proxy go, with one try less.
Released(c, st) ==
  [handler EXCEPT ![c] = [@ EXCEPT !.st = st, !.proxy = None, !.tries = handler[c].tries + 1]]

\* request.decode() of a request that is not UTF-8, which parse_headers let
\* pass, raises before close() and put(): the proxy is lost, however the attempt
\* went.  A request that is retried has been decoded before.
DecodeRaises(c) ==
  /\ handler[c].tries = 0
  /\ gone' = [gone EXCEPT ![handler[c].proxy] = "decodeError"]
  /\ handler' = Released(c, "decodeError") /\ turn' = None
  /\ UNCHANGED <<newcomers, pool, grade, time>>

\* The `finally' of an attempt: proxy.log(request.decode()), close() and put().
\* If decode() or put() raises, that is how the connection ends.
PutBack(c, next) ==
  \/ DecodeRaises(c)
  \/ \E g \in Used(handler[c].proxy), t \in Times :
       /\ Put(handler[c].proxy, g, t)
       /\ \/ handler' = Released(c, next) /\ turn' = (IF next = "get" THEN c ELSE None)
          \/ PutMayRaise(g, t) /\ handler' = Released(c, "heapError") /\ turn' = None

\* The attempt ends the connection: answered, closed, or failed in a way that
\* is not retried.
UseEnds(c) ==
  /\ turn = None /\ handler[c].st = "use"
  /\ PutBack(c, "served")
  /\ UNCHANGED <<supply, listening, delivered>>

\* A proxy or stream error: the next attempt follows without a suspension.
UseFails(c) ==
  /\ turn = None /\ handler[c].st = "use"
  /\ PutBack(c, IF handler[c].tries + 1 < MaxTries THEN "get" ELSE "exhausted")
  /\ UNCHANGED <<supply, listening, delivered>>

\* The CancelledError arrives in the attempt: break, and the `finally' runs.
UseCancelled(c) ==
  /\ turn = None /\ handler[c].st = "cancelling"
  /\ PutBack(c, "cancelled")
  /\ UNCHANGED <<supply, listening, delivered>>

StopSparesUses ==
  [c \in Client |-> IF handler[c].st \in {"get", "import"}
                      THEN [handler[c] EXCEPT !.st = "cancelled"] ELSE handler[c]]

\* stop(): every connection whose task is not done is cancelled.  One that awaits
\* the queue ends there and then, one that uses a proxy still has to put it back.
StopConnections ==
  [c \in Client |->
     CASE handler[c].st = "use"               -> [handler[c] EXCEPT !.st = "cancelling"]
       [] handler[c].st \in {"get", "import"} -> [handler[c] EXCEPT !.st = "cancelled"]
       [] OTHER                               -> handler[c]]

\* Broker.stop(), or aclose().
ServerStops ==
  /\ turn = None /\ listening
  /\ listening' = FALSE
  /\ handler' = StopConnections
  /\ UNCHANGED <<poolVars, turn, delivered>>

\* _on_completion of a handler that raised NoProxyError: stop().
NoProxyStops(c) ==
  /\ turn = None /\ handler[c].st = "noProxy"
  /\ listening' = FALSE
  /\ handler' = [(IF listening THEN StopConnections ELSE handler) EXCEPT ![c].st = "closed"]
  /\ UNCHANGED <<poolVars, turn, delivered>>

\* The control API: remove(host, port).  One object with that host:port leaves
\* the pool: the oldest newcomer, else a heap entry that is popped first.  Any
\* other with it, in the pool, in the broker's queue or in use, is left alone.
\* The client is told 204 in every case.
NewcomersAt(a) == {i \in DOMAIN newcomers : HostPort[newcomers[i]] = a}
RemoveNewcomer(a) ==
  /\ turn = None /\ listening
  /\ \E i \in NewcomersAt(a) :
       /\ \A k \in NewcomersAt(a) : i <= k
       /\ newcomers' = RemoveAt(newcomers, i)
       /\ gone' = [gone EXCEPT ![newcomers[i]] = "removed"]
  /\ UNCHANGED <<supply, pool, grade, time, handler, listening, turn, delivered>>

RemoveEstablished(a) ==
  /\ turn = None /\ listening
  /\ NewcomersAt(a) = {}
  /\ \E e \in pool :
       /\ HostPort[e.proxy] = a
       /\ \A f \in pool : HostPort[f.proxy] = a => e.time <= f.time
       /\ pool' = pool \ {e}
       /\ gone' = [gone EXCEPT ![e.proxy] = "removed"]
  /\ UNCHANGED <<supply, newcomers, grade, time, handler, listening, turn, delivered>>

\* remove() walks the heap by popping it: with a tie that may raise, and what
\* was popped is lost.
RemoveRaises(a) ==
  /\ turn = None /\ listening
  /\ NewcomersAt(a) = {} /\ Tie(pool)
  /\ \E lost \in SUBSET pool :
       /\ pool' = pool \ lost
       /\ gone' = [p \in Proxy |-> IF p \in {e.proxy : e \in lost} THEN "heapError" ELSE gone[p]]
  /\ UNCHANGED <<supply, newcomers, grade, time, handler, listening, turn, delivered>>

-----------------------------------------------------------------------------
\* The steps that nothing outside the process can hold up: get() does not wait,
\* wait_for bounds the import, the loop delivers a cancellation.
OwnStep(c) ==
  \/ GetImports(c) \/ GetNewcomer(c) \/ GetBest(c) \/ GetRaises(c)
  \/ ImportMatch(c) \/ ImportMismatch(c) \/ ImportEnds(c)
  \/ UseCancelled(c) \/ NoProxyStops(c)

\* The end of an attempt is the peers': _stream bounds a single read, not the
\* loop around it, and drain() is not bounded at all.
HandlerStep(c) == OwnStep(c) \/ UseEnds(c) \/ UseFails(c)

Next ==
  \/ \E p \in Proxy : Supply(p)
  \/ \E a \in Address : RemoveNewcomer(a) \/ RemoveEstablished(a) \/ RemoveRaises(a)
  \/ SupplyEnds \/ ServerStops
  \/ \E c \in Client : HandlerStep(c) \/ \E s \in Scheme : Request(c, s)

Spec == Init /\ [][Next]_vars

\* A handler goes on while that is up to the process.  No attempt need end.
FairSpec == Spec /\ \A c \in Client : WF_vars(OwnStep(c))

-----------------------------------------------------------------------------
(* Properties. *)

\* Every variable has its type.
TypeOK ==
  /\ supply \in Seq(Proxy \cup {None}) /\ newcomers \in Seq(Proxy)
  /\ pool \subseteq Entry
  /\ grade \in [Proxy -> Grade] /\ time \in [Proxy -> Times]
  /\ gone \in [Proxy -> Gone]
  /\ handler \in [Client -> Handler]
  /\ listening \in BOOLEAN /\ turn \in Client \cup {None}
  /\ delivered \subseteq Proxy

\* Everything that holds proxy p.
Holders(p) ==
  {<<"supply", i>> : i \in {i \in DOMAIN supply : supply[i] = p}}
  \cup {<<"newcomers", i>> : i \in {i \in DOMAIN newcomers : newcomers[i] = p}}
  \cup {<<"pool", e.time>> : e \in {e \in pool : e.proxy = p}}
  \cup {<<"client", c>> : c \in {c \in Client : Using(c) /\ handler[c].proxy = p}}
  \cup (IF gone[p] = "no" THEN {} ELSE {<<"gone", 0>>})

\* A proxy object the broker delivered is always in exactly one place: two
\* clients never share it, it is never both in use and on offer, never twice in
\* the pool, and it leaves only in the ways `gone' names (server.py:76, 191, 193,
\* 205, 510).  One that _choice_proto or request.decode() cost was the last of
\* its connection, which ended with that exception.
Custody ==
  \A p \in Proxy :
    /\ Cardinality(Holders(p)) = IF p \in delivered THEN 1 ELSE 0
    /\ gone[p] \in {"protoError", "decodeError"} =>
         \E c \in Client : handler[c].st = gone[p]

\* The order of the heap is not stale: its key is the proxy's present response
\* time, what sits in it has proved itself, and newcomers have not yet.
PoolIsCurrent ==
  /\ \A e \in pool : time[e.proxy] = e.time /\ grade[e.proxy] = "good"
  /\ \A i \in DOMAIN newcomers : grade[newcomers[i]] = "new"

\* Whatever happens to the proxies, the broker and the other connections, a
\* request is over at some point, unless one of its attempts goes on forever
\* (server.py:553), and then only while the server is up: stop() ends it.
RequestEnds ==
  \A c \in Client :
    handler[c].st = "get" ~>
      \/ handler[c].st \in Ended
      \/ [](handler[c].st = "use" /\ listening)

=============================================================================
