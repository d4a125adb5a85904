------------------------------- MODULE Broker -------------------------------
(***************************************************************************)
(* proxybroker.api.Broker: how candidates become results.                  *)
(*                                                                         *)
(* asyncio is single threaded: code between two real suspensions is        *)
(* atomic.  `active' is the loader (the _load or _grab coroutine) that     *)
(* holds the event loop; every other action needs active = None.  The      *)
(* loader runs through its program counter until an await really blocks.   *)
(***************************************************************************)
EXTENDS Integers, Sequences, FiniteSets

CONSTANTS
  Addr,          \* addresses (host, port) whose host is an IP literal
  Name,          \* candidates whose host is a domain that must be resolved
  Junk,          \* candidates Proxy.create refuses (port above 65535)
  Provider,      \* the configured providers
  Offer,         \* what each provider lists when its fetch succeeds
  Abroad,        \* addresses outside the requested countries
  Calls,         \* the calls a behaviour may start with, see CallType
  MaxConn,       \* max_conn, the bound on concurrent checks
  MaxProviders,  \* max_concurrent_providers
  CheckId,       \* names of check tasks; enough of them never to run out
  MaxPasses,     \* bound: provider passes started
  MaxStops,      \* bound: calls of stop()
  None           \* Python's None

Cand == Addr \cup Name \cup Junk
Loaders == {"load", "warm", "grab"}

\* The public call: grab(limit), find(limit | forever) and find(data=...),
\* each inside a local server (serve) or not, with a pool store or not.
CallType == [fn : {"grab", "find", "data"}, limit : Nat, forever : BOOLEAN,
             server : BOOLEAN, store : BOOLEAN, given : SUBSET Cand]

\* find() refuses limit with forever, serve() refuses limit <= 0, and grab()
\* has no forever and is not what serve() calls.
ValidCall(c) ==
  /\ c.forever => c.limit = 0 /\ c.fn # "grab"
  /\ c.server  => c.limit > 0 /\ c.fn # "grab"
  /\ c.fn # "data" => c.given = {}

ASSUME BrokerAssumption ==
  /\ None \notin Cand \cup Loaders
  /\ Addr \cap Name = {} /\ Addr \cap Junk = {} /\ Name \cap Junk = {}
  /\ Offer \in [Provider -> SUBSET Cand]
  /\ Abroad \subseteq Addr
  /\ Calls \subseteq {c \in CallType : ValidCall(c)}
  /\ MaxConn \in Nat \ {0} /\ MaxProviders \in Nat \ {0}
  /\ MaxPasses \in Nat \ {0} /\ MaxStops \in Nat
  /\ IsFiniteSet(CheckId) /\ IsFiniteSet(Provider)

VARIABLES
  call,        \* the call being served
  calling,     \* find() is awaiting get_real_ext_ips(): nothing is tracked yet
  pc,          \* where each loader is
  active,      \* the loader holding the event loop, or None
  doomed,      \* the active loader has cancelled itself (Task._must_cancel)
  todo,        \* per loader: candidates of the current batch not yet handled
  hand,        \* per loader: the candidate inside _handle, or None
  fetch,       \* per provider: its _fetch task in the current pass
  checks,      \* the check tasks
  slots,       \* _on_check.qsize()
  unfinished,  \* _on_check's unfinished task count, what join() waits for
  limit,       \* _limit
  results,     \* everything ever put into _proxies, in order
  taken,       \* how many of them the consumer has taken (task_done called)
  unique,      \* keys of unique_proxies
  dead,        \* keys of the negative cache
  server,      \* _server is not None
  stat,        \* PoolStats counters, and `dropped' (see Dropped)
  verified,    \* keys of _verified
  stored,      \* addresses in the pool file
  autosaving,  \* the autosave task is alive
  stops        \* number of stop() calls so far

loaderVars == <<pc, active, doomed, todo, hand>>
checkVars  == <<checks, slots, unfinished>>
resultVars == <<limit, results, verified, stored, autosaving>>
vars == <<call, calling, loaderVars, fetch, checkVars, resultVars, taken, unique,
          dead, server, stat, stops>>

Check == call.fn # "grab"    \* the `check' argument of _grab and _load

Waiting == {"ready", "fetch", "resolve", "pause", "put", "sleep", "join", "finish"}
Over    == {"ended", "cancelled", "raised"}

Free == [st |-> "free", addr |-> None]
Outcomes == {"good", "bad", "error", "cancelled"}
CheckType == [st : {"running"} \cup Outcomes, addr : Addr] \cup {Free}
Live == {t \in CheckId : checks[t] # Free}

-----------------------------------------------------------------------------
(* What the nested handlers do to the state. *)

\* _push_to_result(x) followed by _update_limit(): the put takes one from the
\* limit; at zero, outside a server, _done() runs and puts None, which takes
\* one more.  The same holds when x is itself the None that _done() puts.
HitsLimit == limit = 1 /\ ~server

PushedOffByOne(x) == IF limit = 0 /\ ~server THEN <<x, None>> ELSE <<x>>
Pushed(x) == IF HitsLimit THEN <<x, None>> ELSE <<x>>

PushToResult(x) ==
  /\ results' = results \o Pushed(x)
  /\ limit' = limit - Len(Pushed(x))

\* save_pool() with the given verified set.
SavedOnlyOnce(v) == IF call.store /\ stored = {} THEN v ELSE stored
Saved(v) == IF call.store /\ v # {} THEN v ELSE stored

\* _done() cancels every task it tracks: a check that has already returned is
\* left alone, and the coroutine that holds the loop only notices later.
CancelledChecks(cs) ==
  [t \in CheckId |-> IF cs[t].st = "running" THEN [cs[t] EXCEPT !.st = "cancelled"]
                                             ELSE cs[t]]

NoLoaderCancelled(pcs, self) == pcs
CancelledLoaders(pcs, self) ==
  [l \in Loaders |-> IF l # self /\ pcs[l] \in Waiting THEN "cancelled" ELSE pcs[l]]

CancelledFetches ==
  [p \in Provider |-> IF fetch[p] = "running" THEN "cancelled" ELSE fetch[p]]

\* An await of loader l that blocks.  A loader that cancelled itself gets its
\* CancelledError here.
Suspend(l, at) ==
  /\ pc' = [pc EXCEPT ![l] = IF doomed THEN "cancelled" ELSE at]
  /\ active' = None
  /\ doomed' = FALSE

Goto(l, at) ==
  /\ pc' = [pc EXCEPT ![l] = at]
  /\ active' = l
  /\ UNCHANGED doomed

Count(field) == stat' = [stat EXCEPT ![field] = @ + 1]

-----------------------------------------------------------------------------
(* The call. *)

Init ==
  /\ call \in Calls
  /\ calling = (call.fn # "grab")
  /\ pc = [l \in Loaders |-> IF l = "grab" /\ call.fn = "grab" THEN "ready" ELSE "off"]
  /\ active = None /\ doomed = FALSE
  /\ todo = [l \in Loaders |-> {}] /\ hand = [l \in Loaders |-> None]
  /\ fetch = [p \in Provider |-> "idle"]
  /\ checks = [t \in CheckId |-> Free] /\ slots = 0 /\ unfinished = 0
  /\ limit = IF call.fn = "grab" THEN call.limit ELSE 0
  /\ results = <<>> /\ taken = 0
  /\ unique = {} /\ dead = {}
  /\ server = call.server
  /\ stat = [candidates |-> 0, knownDead |-> 0, duplicates |-> 0, geoRejected |-> 0,
             checked |-> 0, passed |-> 0, passes |-> 0, dropped |-> 0]
  /\ verified = {}
  /\ stored \in IF call.store THEN SUBSET Addr ELSE {{}}
  /\ autosaving = FALSE
  /\ stops = 0

\* find() once the external addresses are known: the loader tasks are created
\* and tracked.  `known' is what pool_store.load(countries) returns: the entries
\* that are young enough.
Find ==
  /\ calling /\ active = None
  /\ calling' = FALSE
  /\ limit' = call.limit
  /\ \E known \in SUBSET (stored \ Abroad) :
       /\ call.fn = "data" => known = {}
       /\ todo' = [todo EXCEPT !["load"] = call.given, !["warm"] = known]
       /\ pc' = [l \in Loaders |->
                   CASE l = "load" -> IF call.fn = "data" THEN "ready" ELSE "off"
                     [] l = "warm" -> IF known # {} THEN "ready" ELSE "off"
                     [] l = "grab" -> IF call.fn = "find" THEN "ready" ELSE "off"]
  /\ autosaving' = call.store
  /\ UNCHANGED <<call, active, doomed, hand, fetch, checkVars, results, verified,
                 stored, taken, unique, dead, server, stat, stops>>

\* get_real_ext_ips() raised: find() raises and schedules nothing.
FindRaises ==
  /\ calling /\ active = None
  /\ calling' = FALSE
  /\ UNCHANGED <<call, loaderVars, fetch, checkVars, resultVars, taken, unique, dead,
                 server, stat, stops>>

\* stop(), by the caller or the SIGINT handler: _done(), then the server.
Stop ==
  /\ active = None /\ stops < MaxStops
  /\ stops' = stops + 1
  /\ stored' = Saved(verified)
  /\ checks' = CancelledChecks(checks)
  /\ pc' = CancelledLoaders(pc, None)
  /\ fetch' = CancelledFetches
  /\ autosaving' = FALSE
  /\ PushToResult(None)
  /\ server' = FALSE
  /\ UNCHANGED <<call, calling, active, doomed, todo, hand, slots, unfinished, verified,
                 taken, unique, dead, stat>>

\* The autosave task, every pool_save_interval.
Autosave ==
  /\ active = None /\ autosaving
  /\ stored' = Saved(verified)
  /\ UNCHANGED <<call, calling, loaderVars, fetch, checkVars, limit, results, verified,
                 autosaving, taken, unique, dead, server, stat, stops>>

\* The consumer of the queue takes a result (get and task_done).  The waiters
\* of _proxies.join() are woken when nothing is left, and stay woken even if a
\* result is put before they run.
Take ==
  /\ active = None /\ taken < Len(results)
  /\ taken' = taken + 1
  /\ pc' = [l \in Loaders |-> IF taken' = Len(results) /\ pc[l] = "pause"
                                THEN "put" ELSE pc[l]]
  /\ UNCHANGED <<call, calling, active, doomed, todo, hand, fetch, checkVars, resultVars,
                 unique, dead, server, stat, stops>>

\* Time passes or the cache overflows: a dead address is forgotten.
Forget ==
  /\ active = None
  /\ \E a \in dead : dead' = dead \ {a}
  /\ UNCHANGED <<call, calling, loaderVars, fetch, checkVars, resultVars, taken, unique,
                 server, stat, stops>>

-----------------------------------------------------------------------------
(* The loaders: _load ("load", "warm") and _grab ("grab"). *)

\* The loop runs a loader task for the first time.
Begin(l) ==
  /\ active = None /\ pc[l] = "ready"
  /\ Goto(l, IF l = "grab" THEN "wave" ELSE "handle")
  /\ UNCHANGED <<call, calling, todo, hand, fetch, checkVars, resultVars, taken, unique,
                 dead, server, stat, stops>>

\* _get_tasks yields the next max_concurrent_providers providers.
StartWave ==
  /\ active = "grab" /\ pc["grab"] = "wave"
  /\ LET idle == {p \in Provider : fetch[p] = "idle"}
         size == IF Cardinality(idle) < MaxProviders THEN Cardinality(idle)
                                                     ELSE MaxProviders
     IN \E wave \in SUBSET idle :
          /\ wave # {} /\ Cardinality(wave) = size
          /\ fetch' = [p \in Provider |-> IF p \in wave THEN "running" ELSE fetch[p]]
  /\ Goto("grab", "fetch")
  /\ UNCHANGED <<call, calling, todo, hand, checkVars, resultVars, taken, unique, dead,
                 server, stat, stops>>

\* A provider answers, fails or times out: _fetch returns in every case.
FetchEnds(p) ==
  /\ active = None /\ fetch[p] = "running"
  /\ fetch' = [fetch EXCEPT ![p] = "ready"]
  /\ UNCHANGED <<call, calling, loaderVars, checkVars, resultVars, taken, unique, dead,
                 server, stat, stops>>

\* as_completed hands over a finished provider; a failed one lists nothing.
NextProvider(p) ==
  /\ pc["grab"] = "fetch" /\ active \in {None, "grab"}
  /\ fetch[p] = "ready"
  /\ fetch' = [fetch EXCEPT ![p] = "taken"]
  /\ \E listed \in {Offer[p], {}} : todo' = [todo EXCEPT !["grab"] = listed]
  /\ Goto("grab", "handle")
  /\ UNCHANGED <<call, calling, hand, checkVars, resultVars, taken, unique, dead, server,
                 stat, stops>>

\* No provider of the wave has an answer: wait for one, or go to the next wave.
AwaitProvider ==
  /\ active = "grab" /\ pc["grab"] = "fetch"
  /\ \A p \in Provider : fetch[p] # "ready"
  /\ IF \E p \in Provider : fetch[p] \in {"running", "cancelled"}
       THEN Suspend("grab", "fetch")
       ELSE Goto("grab", "wave")
  /\ UNCHANGED <<call, calling, todo, hand, fetch, checkVars, resultVars, taken, unique,
                 dead, server, stat, stops>>

\* The pass is over: sleep and start again, or wait for the checks.
PassEnds ==
  /\ active = "grab" /\ pc["grab"] = "wave"
  /\ \A p \in Provider : fetch[p] # "idle"
  /\ Count("passes")
  /\ IF server \/ call.forever THEN Suspend("grab", "sleep") ELSE Goto("grab", "join")
  /\ UNCHANGED <<call, calling, todo, hand, fetch, checkVars, resultVars, taken, unique,
                 dead, server, stops>>

\* grab_pause is over: unique_proxies is cleared for the next pass.
NextPass ==
  /\ active = None /\ pc["grab"] = "sleep" /\ stat.passes < MaxPasses
  /\ unique' = {}
  /\ fetch' = [p \in Provider |-> "idle"]
  /\ Goto("grab", "wave")
  /\ UNCHANGED <<call, calling, todo, hand, checkVars, resultVars, taken, dead, server,
                 stat, stops>>

\* The batch is exhausted.
BatchEnds(l) ==
  /\ active = l /\ pc[l] = "handle" /\ todo[l] = {}
  /\ Goto(l, IF l = "grab" THEN "fetch" ELSE "join")
  /\ UNCHANGED <<call, calling, todo, hand, fetch, checkVars, resultVars, taken, unique,
                 dead, server, stat, stops>>

\* _handle, from the top: a candidate that failed recently is skipped.
SkipDeadUncounted(l) ==
  /\ active = l /\ pc[l] = "handle" /\ Check
  /\ \E c \in todo[l] \cap dead :
       todo' = [todo EXCEPT ![l] = @ \ {c}]
  /\ Count("candidates")
  /\ UNCHANGED <<call, calling, pc, active, doomed, hand, fetch, checkVars, resultVars,
                 taken, unique, dead, server, stops>>
SkipDead(l) ==
  /\ active = l /\ pc[l] = "handle" /\ Check
  /\ \E c \in todo[l] \cap dead :
       todo' = [todo EXCEPT ![l] = @ \ {c}]
  /\ stat' = [stat EXCEPT !.candidates = @ + 1, !.knownDead = @ + 1]
  /\ UNCHANGED <<call, calling, pc, active, doomed, hand, fetch, checkVars, resultVars,
                 taken, unique, dead, server, stops>>

\* Otherwise Proxy.create is awaited with the candidate in hand.  A domain
\* that is not in the resolver's cache suspends the loader.
Handle(l) ==
  /\ active = l /\ pc[l] = "handle"
  /\ \E c \in todo[l] :
       /\ Check => c \notin dead
       /\ todo' = [todo EXCEPT ![l] = @ \ {c}]
       /\ hand' = [hand EXCEPT ![l] = c]
       /\ \/ Goto(l, "created")
          \/ c \in Name /\ Suspend(l, "resolve")
  /\ Count("candidates")
  /\ UNCHANGED <<call, calling, fetch, checkVars, resultVars, taken, unique, dead, server,
                 stops>>

\* The resolver raised something other than ResolveError.  A broker that runs
\* forever treats the pass as over; otherwise the loader's task fails.
ResolverRaises(l) ==
  /\ active = None /\ pc[l] = "resolve"
  /\ hand' = [hand EXCEPT ![l] = None]
  /\ IF l = "grab" /\ (server \/ call.forever)
       THEN /\ pc' = [pc EXCEPT ![l] = "sleep"]
            /\ stat' = [stat EXCEPT !.dropped = @ + 1, !.passes = @ + 1]
       ELSE /\ pc' = [pc EXCEPT ![l] = "raised"]
            /\ Count("dropped")
  /\ UNCHANGED <<call, calling, active, doomed, todo, fetch, checkVars, resultVars, taken,
                 unique, dead, server, stops>>

\* ResolveError or ValueError: _handle returns without counting the candidate.
CreateFails(l) ==
  /\ \/ active = l /\ pc[l] = "created"
     \/ active = None /\ pc[l] = "resolve"
  /\ hand[l] \notin Addr
  /\ hand' = [hand EXCEPT ![l] = None]
  /\ Count("dropped")
  /\ Goto(l, "handle")
  /\ UNCHANGED <<call, calling, todo, fetch, checkVars, resultVars, taken, unique, dead,
                 server, stops>>

\* What Proxy.create can make of a candidate.
Created(c) == CASE c \in Addr -> {c}
                [] c \in Name -> Addr
                [] OTHER      -> {}

\* The ones _is_unique and _geo_passed let through.
FreshOrSeen(c) == Created(c) \ Abroad
Fresh(c) == Created(c) \ (unique \cup Abroad)

\* _push_to_check: a server that has enough proxies pauses while any is queued.
PausedAtLimitOnly == server /\ taken < Len(results) /\ limit = 0
Paused == server /\ taken < Len(results) /\ limit <= 0

\* _is_unique and _geo_passed: a proxy already seen in this pass, or from the
\* wrong country, is counted and forgotten.
Reject(l) ==
  /\ \/ active = l /\ pc[l] = "created"
     \/ active = None /\ pc[l] = "resolve"
  /\ \E a \in Created(hand[l]) :
       \/ a \in unique /\ Count("duplicates") /\ UNCHANGED unique
       \/ /\ a \notin unique /\ a \in Abroad
          /\ unique' = unique \cup {a}
          /\ Count("geoRejected")
  /\ hand' = [hand EXCEPT ![l] = None]
  /\ Goto(l, "handle")
  /\ UNCHANGED <<call, calling, todo, fetch, checkVars, resultVars, taken, dead, server,
                 stops>>

\* The proxy is new.  With check it goes to _push_to_check.
Admit(l) ==
  /\ \/ active = l /\ pc[l] = "created"
     \/ active = None /\ pc[l] = "resolve"
  /\ Check
  /\ \E a \in Fresh(hand[l]) :
       /\ unique' = unique \cup {a}
       /\ hand' = [hand EXCEPT ![l] = a]
  /\ IF Paused THEN Suspend(l, "pause") ELSE Goto(l, "put")
  /\ UNCHANGED <<call, calling, todo, fetch, checkVars, resultVars, taken, dead, server,
                 stat, stops>>

\* Without check (grab) it goes straight to the results.  If that reaches the
\* limit, _done() cancels this very coroutine, which keeps the loop for now.
Deliver(l) ==
  /\ \/ active = l /\ pc[l] = "created"
     \/ active = None /\ pc[l] = "resolve"
  /\ ~Check
  /\ \E a \in Fresh(hand[l]) :
       /\ unique' = unique \cup {a}
       /\ PushToResult(a)
       /\ verified' = IF call.store THEN verified \cup {a} ELSE verified
  /\ hand' = [hand EXCEPT ![l] = None]
  /\ active' = l
  /\ IF HitsLimit
       THEN /\ stored' = Saved(verified')
            /\ pc' = [CancelledLoaders(pc, l) EXCEPT ![l] = "handle"]
            /\ fetch' = CancelledFetches
            /\ autosaving' = FALSE
            /\ doomed' = TRUE
       ELSE /\ pc' = [pc EXCEPT ![l] = "handle"]
            /\ UNCHANGED <<stored, fetch, autosaving, doomed>>
  /\ UNCHANGED <<call, calling, todo, checkVars, taken, dead, server, stat, stops>>

\* _on_check.put(None) blocks while max_conn checks are in flight.
AwaitSlot(l) ==
  /\ active = l /\ pc[l] = "put" /\ slots >= MaxConn
  /\ Suspend(l, "put")
  /\ UNCHANGED <<call, calling, todo, hand, fetch, checkVars, resultVars, taken, unique,
                 dead, server, stat, stops>>

\* A slot is taken and the check task created, in one step.
StartCheck(l) ==
  /\ pc[l] = "put" /\ active \in {None, l} /\ slots < MaxConn
  /\ slots' = slots + 1
  /\ unfinished' = unfinished + 1
  /\ \E t \in CheckId \ Live :
       checks' = [checks EXCEPT ![t] = [st |-> "running", addr |-> hand[l]]]
  /\ hand' = [hand EXCEPT ![l] = None]
  /\ Goto(l, "handle")
  /\ UNCHANGED <<call, calling, todo, fetch, resultVars, taken, unique, dead, server, stat,
                 stops>>

\* _on_check.join() at the end of the loader.
Join(l) ==
  /\ active = l /\ pc[l] = "join"
  /\ IF unfinished = 0 THEN Goto(l, "finish") ELSE Suspend(l, "join")
  /\ UNCHANGED <<call, calling, todo, hand, fetch, checkVars, resultVars, taken, unique,
                 dead, server, stat, stops>>

\* The loader's last statement is _done(), whatever the other loader is doing.
Finish(l) ==
  /\ pc[l] = "finish" /\ active \in {None, l}
  /\ stored' = Saved(verified)
  /\ checks' = CancelledChecks(checks)
  /\ pc' = [CancelledLoaders(pc, l) EXCEPT ![l] = "ended"]
  /\ fetch' = CancelledFetches
  /\ autosaving' = FALSE
  /\ PushToResult(None)
  /\ active' = None
  /\ doomed' = FALSE
  /\ UNCHANGED <<call, calling, todo, hand, slots, unfinished, verified, taken, unique,
                 dead, server, stat, stops>>

-----------------------------------------------------------------------------
(* The check tasks and the callback _task_done of _push_to_check. *)

\* checker.check returns its verdict or raises; it is bounded by timeouts.
CheckEnds(t) ==
  /\ active = None /\ checks[t].st = "running"
  /\ \E o \in Outcomes \ {"cancelled"} : checks' = [checks EXCEPT ![t].st = o]
  /\ UNCHANGED <<call, calling, loaderVars, fetch, slots, unfinished, resultVars, taken,
                 unique, dead, server, stat, stops>>

\* What every callback does first: the slot is freed, join() is woken when it
\* was the last one.
FreeSlotKeepsItem(t) ==
  /\ active = None
  /\ unfinished' = unfinished - 1
  /\ slots' = slots
FreeSlot(t) ==
  /\ active = None
  /\ unfinished' = unfinished - 1
  /\ slots' = IF slots > 0 THEN slots - 1 ELSE slots

NobodyWoken == pc
Woken == [l \in Loaders |-> IF unfinished = 1 /\ pc[l] = "join" THEN "finish" ELSE pc[l]]

\* The check failed, raised or was cancelled.
CheckFailed(t) ==
  /\ checks[t].st \in {"bad", "error", "cancelled"}
  /\ FreeSlot(t)
  /\ checks' = [checks EXCEPT ![t] = Free]
  /\ pc' = Woken
  /\ Count("checked")
  /\ dead' = IF checks[t].st = "bad" THEN dead \cup {checks[t].addr} ELSE dead
  /\ UNCHANGED <<call, calling, active, doomed, todo, hand, fetch, resultVars, taken,
                 unique, server, stops>>

\* The proxy works: it becomes a result, and the limit may be reached.
CheckPassed(t) ==
  /\ checks[t].st = "good"
  /\ FreeSlot(t)
  /\ stat' = [stat EXCEPT !.checked = @ + 1, !.passed = @ + 1]
  /\ verified' = IF call.store THEN verified \cup {checks[t].addr} ELSE verified
  /\ PushToResult(checks[t].addr)
  /\ LET left == [checks EXCEPT ![t] = Free]
     IN IF HitsLimit
          THEN /\ stored' = Saved(verified')
               /\ checks' = CancelledChecks(left)
               /\ pc' = CancelledLoaders(Woken, None)
               /\ fetch' = CancelledFetches
               /\ autosaving' = FALSE
          ELSE /\ checks' = left
               /\ pc' = Woken
               /\ UNCHANGED <<stored, fetch, autosaving>>
  /\ UNCHANGED <<call, calling, active, doomed, todo, hand, taken, unique, dead, server,
                 stops>>

-----------------------------------------------------------------------------
LoaderStep(l) ==
  \/ Begin(l) \/ BatchEnds(l) \/ SkipDead(l) \/ Handle(l) \/ ResolverRaises(l)
  \/ CreateFails(l) \/ Reject(l) \/ Admit(l) \/ Deliver(l)
  \/ AwaitSlot(l) \/ StartCheck(l) \/ Join(l) \/ Finish(l)

GrabStep ==
  \/ StartWave \/ AwaitProvider \/ PassEnds \/ NextPass
  \/ \E p \in Provider : NextProvider(p)

CheckStep(t) == CheckEnds(t) \/ CheckFailed(t) \/ CheckPassed(t)

Next ==
  \/ Find \/ FindRaises \/ Stop \/ Autosave \/ Take \/ Forget
  \/ \E l \in Loaders : LoaderStep(l)
  \/ GrabStep
  \/ \E p \in Provider : FetchEnds(p)
  \/ \E t \in CheckId : CheckStep(t)

Spec == Init /\ [][Next]_vars

\* asyncio runs every ready task and callback; wait_for bounds fetches and
\* checks, the resolver has its own timeout.  Nothing forces stop(), the
\* autosave, forgetting, or a consumer.
Fairness ==
  /\ WF_vars(Find \/ FindRaises)
  /\ \A l \in Loaders : WF_vars(LoaderStep(l))
  /\ WF_vars(GrabStep)
  /\ \A p \in Provider : WF_vars(FetchEnds(p))
  /\ \A t \in CheckId : WF_vars(CheckStep(t))

FairSpec == Spec /\ Fairness

-----------------------------------------------------------------------------
(* Properties. *)

\* Every variable has its type.
PcType == [Loaders -> Waiting \cup Over \cup {"off", "wave", "handle", "created"}]
FetchType == [Provider -> {"idle", "running", "ready", "taken", "cancelled"}]
StatType == [candidates : Nat, knownDead : Nat, duplicates : Nat, geoRejected : Nat,
             checked : Nat, passed : Nat, passes : Nat, dropped : Nat]
LoadersOK == /\ pc \in PcType
             /\ active \in Loaders \cup {None} /\ doomed \in BOOLEAN
             /\ todo \in [Loaders -> SUBSET Cand]
             /\ hand \in [Loaders -> Cand \cup {None}]
ChecksOK  == /\ checks \in [CheckId -> CheckType]
             /\ slots \in Nat /\ unfinished \in Int
ResultsOK == /\ limit \in Int /\ results \in Seq(Addr \cup {None}) /\ taken \in Nat
             /\ verified \subseteq Addr /\ stored \subseteq Addr
RestOK    == /\ call \in Calls /\ calling \in BOOLEAN
             /\ fetch \in FetchType
             /\ unique \subseteq Addr /\ dead \subseteq Addr
             /\ server \in BOOLEAN /\ stat \in StatType
             /\ autosaving \in BOOLEAN /\ stops \in Nat
TypeOK == LoadersOK /\ ChecksOK /\ ResultsOK /\ RestOK

\* The queue _on_check is a semaphore: its size and its count of unfinished
\* tasks both are the number of check tasks whose callback has not run, whether
\* they pass, fail, raise or are cancelled, and max_conn bounds them.
SlotAccounting ==
  /\ slots = Cardinality(Live)
  /\ unfinished = Cardinality(Live)
  /\ Cardinality(Live) <= MaxConn

Found == {i \in DOMAIN results : results[i] # None}
EndOfStream == \E i \in DOMAIN results : results[i] = None

\* Outside a server a consumer that reads up to the end-of-stream marker gets
\* at most `limit' proxies: the marker comes no later than right after the
\* limit-th result, whoever pushed it.
LimitRespected ==
  ~call.server /\ call.limit > 0 /\ Len(results) >= call.limit =>
    \E i \in 1..(call.limit + 1) : i \in DOMAIN results /\ results[i] = None

\* A candidate is never lost or counted twice: each one noted is in exactly one
\* stage of the funnel that PoolStats reports, in flight, in hand (for good if
\* its loader was cancelled), delivered unchecked, or dropped.
FunnelConservation ==
  /\ stat.candidates = stat.knownDead + stat.duplicates + stat.geoRejected + stat.dropped
                       + (IF Check THEN stat.checked + Cardinality(Live)
                                   ELSE Cardinality(Found))
                       + Cardinality({l \in Loaders : hand[l] # None})
  /\ Check => stat.passed = Cardinality(Found)

\* Where the address of a result is: in flight, about to be, or delivered.
Places(a) == {<<"check", t>> : t \in {t \in Live : checks[t].addr = a}}
             \cup {<<"hand", l>> : l \in {l \in Loaders : pc[l] \in {"put", "pause"}
                                                           /\ hand[l] = a}}
             \cup {<<"result", i>> : i \in {i \in DOMAIN results : results[i] = a}}

\* Two loaders, two providers or a domain and its address may bring the same
\* proxy: within one pass it is checked and delivered at most once.
OncePerPass ==
  ~call.server /\ ~call.forever => \A a \in Addr : Cardinality(Places(a)) <= 1

\* A loader that waits has something to wait for: the wake-up of _proxies.join()
\* or _on_check.join() is never lost.
NoLostWakeup ==
  \A l \in Loaders :
    /\ pc[l] = "pause" => taken < Len(results)
    /\ pc[l] = "join" /\ active # l => unfinished > 0

\* serve(): once the limit is used up checking pauses, so what waits in the
\* queue stays bounded although the limit itself no longer stops anything: the
\* checks in flight and one candidate per loader may still arrive.
BacklogBounded ==
  server => Cardinality({i \in Found : i > taken})
              <= call.limit + (MaxConn - 1) + Cardinality({"warm", "grab"})

\* Whatever ends the run (limit, last pass, stop) has persisted what was
\* verified by the time the end-of-stream marker is put.
SavedWithMarker ==
  \A i \in DOMAIN results' \ DOMAIN results :
    results'[i] = None /\ call.store /\ verified' # {} => stored' = verified'
PersistedAtEnd == [][SavedWithMarker]_vars

\* For the consumer that stops at the first marker the broker is a stream: what is
\* in front of that marker, bounded by the limit (which a server uses up without
\* ending), without repetition in a call that makes one pass, and all of it in
\* the pool file by the time the marker is there and ever after.
ReadsTo(s, n) == /\ \A i \in 1..n : s[i] # None
                 /\ n < Len(s) => s[n + 1] = None
UpToMarker(s) == SubSeq(s, 1, CHOOSE n \in 0..Len(s) : ReadsTo(s, n))
Stream == INSTANCE ResultStream WITH
            Proxy <- Addr, most <- IF call.server THEN 0 ELSE call.limit,
            once <- ~call.server /\ ~call.forever, given <- UpToMarker(results),
            over <- EndOfStream, keeps <- call.store, kept <- stored
ImplementsStream == Stream!Spec

\* Without forever and without a server, the consumer is eventually told that
\* the stream is over, unless find() or a loader failed.
EventuallyEnds ==
  ~call.server /\ ~call.forever =>
    <>(\/ EndOfStream
       \/ \E l \in Loaders : pc[l] = "raised"
       \/ ~calling /\ \A l \in Loaders : pc[l] = "off")

\* Once a loader has ended or been cancelled (limit, last pass, stop, warm
\* start) every loader and every check ends: cancellation reaches them all.
EndsEverything ==
  (\E l \in Loaders : pc[l] \in {"ended", "cancelled"}) ~>
    (Live = {} /\ \A l \in Loaders : pc[l] \in Over \cup {"off"})

-----------------------------------------------------------------------------
(* What the documentation says and the code does not do. *)

\* find(forever) replenishes "indefinitely" (api.py:325), with "no end-of-stream
\* sentinel while running forever" (tests/test_api.py:257).  The warm start's
\* _load() ends with _done(), which cancels discovery and pushes None.
ForeverNeverEnds == call.forever /\ stops = 0 => ~EndOfStream

=============================================================================
