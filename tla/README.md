# proxybroker2 in TLA+

A verification development for proxybroker2: TLA+ models of the program's own
logic, TLC runs that check them on small instances, and theorems proved with
TLAPS for every value of the constants. Every definition was translated from the
Python source; `PROJECT.json` maps each one to the lines it stands for.

proxybroker2 finds public proxies, checks them against judges, and either hands
them to a consumer through a queue (`grab`, `find`) or serves them from a local
proxy server (`serve`). It is one asyncio program: code between two awaits that
really suspend is atomic, everything else interleaves. That is where its
difficult behaviour is, and where these models put their effort.

## The system

| Part (source) | State | Operations | Hard behaviour | What makes it correct |
|---|---|---|---|---|
| **Broker** (`api.py`) | `_limit`, `_proxies` (result queue), `_on_check` (a queue used as a semaphore), `unique_proxies`, `_all_tasks`, `_verified`, `_server` | `grab`, `find`, `serve`, `stop`; internally `_load`, `_grab`, `_handle`, `_push_to_check`, `_push_to_result`, `_done` | Two loaders, provider fetches, check tasks and their callbacks, `stop()` and the autosave interleave; `_done()` is called from callbacks, loaders and `stop()`, and cancels its own caller | slots are returned exactly once; the end-of-stream marker comes, and in time; no candidate is lost or counted twice; nothing verified is lost at the end |
| **Checker**, **Judge** (`checker.py`, `judge.py`) | class-wide `Judge.available` and `Judge.ev`, `_ngtrs`, `_req_*_proto`, `proxy.types` | `check_judges`, `check` | checks wait for judges that are still being probed; a set changes under an iteration; state left by an earlier Checker | a good verdict is earned; nobody waits in vain |
| **Server**, **ProxyPool** (`server.py`) | `_newcomers`, `_pool` (a heap), connections | `get`, `_import`, `put`, `remove`, `_handle`, `stop` | connections share proxies; retries and cancellations pass through a `finally` that puts the proxy back | a proxy is in exactly one place; every request ends, but for a tunnel that goes on |
| **Resolver** (`resolver.py`) | class-wide `_cached_hosts`, one DNS query or probe per address family | `resolve`, `get_real_ext_ips` | races between A and AAAA, a grace window, cancellation anywhere | no task outlives its call; failure only when all failed; a silent family does not hold up the other |
| **NegativeCache** (`negative_cache.py`) | an ordered dict with times | `remember`, `is_known_dead`, `clear` | eviction order, expiry on reading | bounded; never calls a proxy dead that did not just fail |
| **PoolStore** (`pool_store.py`) | a JSON file | `save`, `load` | crash or error at any step of a save | the file is always whole |
| **PoolStats** (`stats.py`) | counters of the funnel | `note_*` | counts kept from many places | stages add up |
| **Providers** (`providers.py`, `provider_utils.py`) | per provider object, for the life of the process: `_session`, `_sem_provider`, `_proxies`, `charEqNum` | `get_proxies`, `_pipe`, `get`, `find_proxies`; configured kinds | pages fetched concurrently with retries under one semaphore; the first exception leaves the other tasks running; a cancelled fetch; objects shared between Brokers | connections bounded; what is listed is handed over and nothing else; every fetch ends |
| **Proxy**, **Negotiators** (`proxy.py`, `negotiators.py`) | `_reader` and `_writer` (plain and TLS), `_closed`, statistics, types | `create`, `connect`, `send`, `recv`, `close`, `negotiate` | the peer may stop at any point of a handshake; TLS upgrade; cancellation | nothing stays open, nothing of an attempt leaks into the next, errors are counted once, a finished handshake has read all of the reply |
| **CLI** (`cli.py`) | a command, `handle()` and its document, the SIGINT handler | `find`, `grab`, `serve` | SIGINT at any point, also before the Broker has anything to stop; the marker may come from five places | the document is whole; SIGINT ends the process |
| `utils.py`, `errors.py` | none | patterns, declarations | none | (data) |

Interactions: `Broker` starts providers and the warm start (`PoolStore.load`),
passes each candidate through the negative cache and `Proxy.create` (which
resolves), then to `Checker.check` in a task of its own; the task's callback puts
the proxy into the result queue. A consumer, or the local server's `ProxyPool`,
takes from that queue. `_done()` saves the pool, cancels what is tracked and puts
`None`, the end of the stream. The objects in `PROVIDERS` belong to the module, not
to a Broker: they keep their state from pass to pass and may be used by two Brokers.

## The modules

**`Broker.tla`** models `api.py`. `pc[l]` is where each loader is (`load` for
`find(data=...)`, `warm` for the warm start, `grab` for the providers). `active` is
the loader that holds the event loop: it runs until an await really suspends, and
every other action requires `active = None`; so the atomicity of asyncio is in the
model and not assumed away. `results` is everything ever put into the queue, in
order, and `taken` how much of it was consumed. `slots` and `unfinished` are the
two faces of `_on_check` (its size, and what its `join()` waits for). `doomed` says
that the active loader has cancelled itself and will find out at its next await.
`_push_to_result` and `_done()` call each other through `_update_limit`; `Pushed`
is the closed form of that recursion (the `None` takes one from the limit too).
`Handle`/`Created`/`Reject`/`Admit`/`Deliver` are `_handle` in pieces, cut where it
awaits; `CheckPassed` and `CheckFailed` are the callback `_task_done` in full.

**`ResultStream.tla`** is what the reader of that queue is promised who stops at the
first `None`: each proxy once, at most the limit, an end, and all of it in the pool file
by then. `Broker` implements it (`ImplementsStream`): what it gives is `results` up to
the first marker (`UpToMarker`), what comes behind that is read by nobody.

**`ProxyPool.tla`, `ProxyServer.tla`** model `server.py`: the pool's operations,
and a `_handle` task per connection that goes through `get`, perhaps `_import`, a
use, and the `finally` that puts the proxy back. The heap is a set of (time, proxy)
pairs; popping takes one with the least time. Two pairs with equal times make
`heapq` compare two `Proxy` objects, which raises; whether an operation meets such a
comparison depends on the heap's layout, so with a tie it may. A member of `Proxy` is an
object: each pass makes new ones, and two with one `HostPort` are the same proxy found
again; only `remove` goes by `HostPort`. `PutBack` is the `finally`, which may raise at its
first step (`DecodeRaises`) or in `put`; `gone` says how a proxy left. `turn` keeps the loop
with a handler that retries, because no await that suspends lies between an attempt
and the next `get`.

**`Checker.tla`** models `checker.py` and `judge.py`: one Checker whose judges are
being probed, and check tasks that wait for them. What an earlier Checker left in the
class-wide state is part of the initial states. The network side of an attempt is
its four outcomes (timeout, error, an exception `_check` does not name, success with
a level).

**`Connection.tla`** models `proxy.py` and `negotiators.py` with the two places that
drive them: a proxy is first checked protocol by protocol (`Checker._check`,
`_check_conn_25`) and then serves attempts (`Server._handle`, `_stream`). `rest` is
what the exchange still has to do, one item per await: `Script` puts together
`connect`, the items of the negotiator (`Handshake`) and what the caller does with
the connection. `refs` are the keys of `_writer` that are not `None`, `live` the
sockets that are open; `close()` relates the two. Replies are counted in bytes
(`Reply` is what the peer sends, `Wanted` what is read), because the address in a
SOCKS5 reply has the length the peer chooses. The peer answers, refuses, is silent,
resets, or closes in the middle of a reply; the task may be cancelled at each item.
`Ends` is the `finally` of both callers with what follows it: it closes (`Finishes`), or the
server's raises before it does (`DecodeRaises`).

**`Resolver.tla`** models `resolve` with the shared cache and the A/AAAA race,
**`RealIps.tla`** models `get_real_ext_ips`: a probe per family going through the
endpoints, the wait for the first success, the grace window, the clean-up. `Families`
has the two address families for both.

**`Cli.tla`** extends `RealIps` with the process around it: `command` is `find`,
`grab`, `serve` or a program of its own that awaits `find()`; `handler` says whether
SIGINT calls `Broker.stop()` or raises `KeyboardInterrupt` (`serve` gives the handler
back before it stops the server); `called` that the call has got past the discovery of
the external addresses and scheduled its `work`. `writer`, `taken` and `out` are
`handle()`: where it is in the document, what it has got from the queue, and what it
has written. What the Broker does with candidates is reduced to results and markers
that it puts into `queue`.

**`Provider.tla`, `ProviderFormats.tla`** model one provider object that is fetched
`Fetches` times. `fetch[f]` is where `get_proxies()` is, `task[f][u]` the task that
gets the page at `u`, `via` the session its request uses. The shapes of `_pipe()` are
a fixed list of pages, pages linked from index pages, those with the index itself,
page numbers, one index after the other, and a list behind a session id (`Pages`,
`Linked`). `FetchFails` is `gather()` passing on an exception while the other tasks go
on; `TimeOut`, `Cancelled` and `TimedOut` are the cancellation by `wait_for()`. A
request of a stray meets a closed session, or the session of the next fetch.
`ProviderFormats` is pure: what each reader of a page (pattern, CSV, JSON, HTML, Base64,
ports written in symbols, pairing by position) finds in it, and which pages are
`Documented` for a reader. `MCProvider` names a provider of each shape and reader.

**`NegativeCache.tla`** is the cache; **`DeadSet.tla`** is what the Broker needs of it:
a set to which an address is added and from which any may disappear. The first is shown
to implement the second, and `Broker.tla` uses the second (`dead`, `Forget`), and no
more of it (`BrokerProofs!DeadIsADeadSet`). **`Intake.tla`** extends the cache with its
two users: `_handle()`, which asks it before the candidate is resolved and waits for a
slot, and `_task_done()`, which tells it of a failure much later. It also has what is
cleared between the passes, `unique_proxies` and `_source_of`, and the credit of each
provider.

**`PoolStore.tla`** is the file with the steps of a save (temporary file, text,
close, rename) under crashes and errors; **`PoolRegister.tla`** is what the Broker
takes it for: a value replaced at one instant. The first implements the second.
`Broker.tla` has the second (`stored`, `Saved`).

`MC*.tla` name the model values of the instances. Eight modules hold the theorems:
`BrokerProofs`, `NegativeCacheProofs` (with `Intake`), `ProxyServerProofs`,
`CheckerProofs`, `ConnectionProofs`, `ResolverProofs` (with `RealIps` and `Cli`),
`ProviderProofs` and `PoolStoreProofs`.

Three modules thus stand for what `Broker.tla` leaves abstract: `Checker` for
"a check ends with a verdict", `DeadSet` for the cache, `PoolRegister` for the file.
`Provider` stands for the fetches that `Broker` takes as one step with an outcome.
`Connection` stands for the single attempts that `Checker` (a timeout, an error, a
success) and `ProxyServer` (`UseEnds`, `UseFails`, `UseCancelled`) take as one step.

## What the runs check

| Run | Question | Instance | Distinct states |
|---|---|---|---|
| `broker_find` | Are slots, funnel, uniqueness and persistence right in calls that end by themselves, and is the queue the stream its reader is promised? | `find`, `find(data)`, `grab`, limit 0 to 2, with and without a store; 3 addresses, a domain that resolves to any of them, a candidate that cannot be created, two providers that overlap; 2 concurrent checks; one `stop()` at any time | 905,000 |
| `broker_serve` | Is nobody left waiting, and is the backlog of a server bounded, when the queue is replenished for ever? | a server with limit 1 and `find(forever)`, warm start and two passes, 2 addresses and a domain, 1 concurrent check | 3,030,000 |
| `broker_live` | Does the stream end, and does the end reach everything? | four kinds of call, `stop()` allowed, fairness | 187,000 |
| `server` | Is a proxy always in one place, or gone in a way that is named; are heap keys current; does every request end, unless its tunnel goes on while the server is up? | 2 connections, 2 proxies with one host:port (one without HTTPS), 2 response times (so ties happen), 2 attempts, 2 imports | 507,000 |
| `checker` | Is a verdict earned, and does waiting for judges work? | 2 checks, one with expected types; judges of three schemes, one of them left by an earlier Checker; strict mode, blocklist, `verify_url`; 2 tries | 83,000 |
| `resolver` | Do lookups that share the cache answer rightly and leave nothing behind? | 2 lookups of one host, each of the five ways to pin a family | 35,000 |
| `cli` | Is the set of external addresses complete and found in bounded time, the document whole, and does SIGINT end the process? | four commands, both families, 3 endpoints, 3 entries in the queue, 2 SIGINTs | 90,000 |
| `connection` | However an attempt ends, is everything closed (a request that is not UTF-8 excepted), counted once and read to the end? | one proxy expected to have any of the six protocols, each judge or host of either family, 2 tries, exchanges begun until 4 requests (so three protocols can be checked and a request be served), `verify_ssl` or not | 367,000 |
| `cache` | Is the cache bounded and right, does it implement `DeadSet`, and is a failure or a success put down to the right address and provider? | 3 addresses, a bad port and a domain from 2 providers, 1 address from the pool, 1 slot, 2 passes; capacity 2, ttl 1, 2 ticks, 3 failures | 854,000 |
| `store` | Is the file whole whatever fails, and does it implement `PoolRegister`? | 2 runs sharing a file, 2 proxies, 2 ticks | 308,000 |
| `provider` | Do fetches hand over what is listed, bound their connections, and end? | each shape of `_pipe()`, each way to read a page; 2 fetches, one after the other or (two Brokers) at a time; 2 tries, 2 connections | 158,000 |

The bounds are named in the modules (`MaxPasses`, `MaxStops`, `MaxNow`,
`MaxSerial`, `MaxTime`, `MaxQueued`, `MaxSigints`, `Fetches`; the others are parameters
of the program). Why they are
enough: a limit of 2 with 2 concurrent checks lets several checks pass before the
first callback runs; 3 addresses fill the queue beyond the limit; a domain and two
overlapping providers bring the same proxy twice; two passes cross the clearing of
`unique_proxies`; two connections and two proxies leave one connection without a
proxy and a tie in the heap; capacity 2 with 3 failures evicts, and with a ttl of 1 and
2 ticks an entry expires while another is fresh; four requests let a proxy be checked
with two or three protocols and then serve a request that is tried twice; three entries
in the queue leave a result behind a marker; two fetches of a provider let a stray of
the first meet the session of the second.
Symmetry is used in the two safety runs of the Broker only, for the names of check
tasks. The type invariants are in no run: each is proved (below), for every value of the
constants, as is all that the passing runs check on an instance except liveness.

One run is meant to fail. It states what a doc and a test say and shows that the code
does otherwise:

- `broker_warm_ends` (`ForeverNeverEnds`): with a stored pool the warm start ends
  in `_done()`, which cancels the discovery of `find(forever=True)` and puts `None`
  (`api.py:325` and `tests/test_api.py:257` promise no end).

Other disagreements met while modelling. The models contain the behaviour, no run is
spent on them.

Server and connections:

- the README says that encrypted traffic cannot get a header (`README.md:475`); for a
  CONNECT request served through SOCKS4 or SOCKS5 the server has written the `200`
  itself, and `_inject_headers` (`server.py:562`) works on the first TLS data of the
  tunnel. With a line end in that data the header is put into it, without one
  `ValueError` ends the connection. `TunnelAlteredOnlyBehindSocks` is what does hold;
- the `finally` of an attempt begins with `proxy.log(request.decode(), ...)`
  (`server.py:510`). A request with a body that is not UTF-8 has got that far, as
  `parse_headers` decodes with "ignore" (`utils.py:177`); `UnicodeDecodeError` then ends
  the connection, whatever the outcome of the attempt was, and neither `close()` nor
  `put()` runs: the sockets stay open and the pool has lost the proxy (`DecodeRaises` in
  `ProxyServer` and in `Connection`). `Custody` says that nothing else is lost with it,
  `SocketsOwned` excepts the sockets;
- a tunnel has no time limit: `_stream` (`server.py:553`) bounds each read, but neither
  the loop around it nor `drain()`. `RequestEnds` excepts it, until `stop()`;
- `find(forever)` clears `unique_proxies` at each pass (`api.py:659`), so the server gets a
  host:port again as another object while the first is in the pool or in use. Both are
  handed out, and `remove(host, port)` takes one of them and answers 204;
- `get(scheme)` is documented to return a proxy that supports it (`server.py:61`) but
  hands out a newcomer whatever it supports; `_choice_proto` then raises before the
  `try`, and the proxy is lost (`Choose`, `server.py:76`);
- `verify_ssl=True` makes `_ssl_context` the value `True` (`proxy.py:147`), which
  `start_tls` does not take: every HTTPS check raises `TypeError`, which ends the check
  of that proxy with all its protocols (`TlsRaises`);
- a reply that is cut short is indexed all the same: `IndexError` ends the whole check
  and is not counted as an error of the proxy, and a SOCKS4 reply of two bytes is
  taken for a grant (`CutShortRaises`, `CutShortPasses`);
- when the stream of a plain HTTP request fails after a part of the answer was
  delivered, the request is sent to another proxy and its answer appended
  (`server.py:506`); once a CONNECT has been answered nothing is tried again;
- below `min_queue` the pool is never consulted: `NoProxyError` is raised although a
  suitable proxy waits (`server.py:73`);
- `remove` answers 204 for a proxy in use or still in the broker's queue, which joins
  the pool later (`server.py:197`);
- two proxies with equal response times make a heap operation raise `TypeError`
  (`server.py:193`); the model has these outcomes, `Custody` shows that even then a
  proxy is not duplicated (it may be lost, as `gone` then says).

Broker, cache and store:

- `limit` is documented as the maximum number of proxies (`api.py:320`); checks that
  had passed when it was reached are pushed too, after the marker (`api.py:725`).
  `LimitRespected`, proved below, is what does hold: a consumer that stops at the
  first `None` never sees more than `limit` proxies;
- a run that ends one proxy short of its limit puts two `None`s (`api.py:790`);
- `stop()` while `find()` awaits the external addresses does not stop what `find()`
  schedules afterwards (`api.py:369`);
- the negative cache is asked for a candidate's host and told the resolved address,
  so a domain is checked again on every pass (`api.py:669`, `api.py:722`);
- every save stamps all entries with its own time as `verified_at`
  (`pool_store.py:94`), and a save that fails leaves its temporary file behind;
- `useless_providers` may list a provider whose proxy passed, when the pass had ended
  and `_source_of` was cleared before the check did (`api.py:660`); the same check may
  make "passed" exceed "unique".

Checker and resolver:

- a probe that raises what `Judge.check` does not catch ends `check_judges()` before
  it wakes the checks that wait (`checker.py:114`): `ChecksEnd` excludes that case;
- a lookup that pins a family and gets an empty answer is served what the cache
  holds by then, of either family (`resolver.py:470`): `PinIsHonoured` excludes it.

Providers:

- two of the proxyscrape lists are declared with `proto=("SOCKS4")` and
  `proto=("SOCKS5")` (`providers.py:832`), which are strings: `find()` intersects types
  with their letters and never fetches them. In a YAML configuration
  `protocols: HTTP` becomes a tuple of letters too, and `protocols:` without a value
  raises `TypeError`;
- `SimpleProvider` takes a text list with a comma in its first line for CSV, and finds
  nothing usable in lines of the form `scheme://host:port`; it and `APIProvider` find
  no IPv6 address (`Documented` says what each reader does read);
- `Gatherproxy_com` overwrites `urls` for each kind of list: only the last that answers
  is read (`Linked`);
- `_proxies` only grows: a source that is dead goes on yielding what it once listed, and
  an address that a later list marks with another protocol keeps both entries;
- the table of symbols of `Spys_ru` carries over from pass to pass, as the object does,
  contrary to the comment at `providers.py:586`;
- a second Broker that fetches the same provider replaces and then closes the session
  under the first; `_fetch` takes that for the noise of a shutdown;
- `Proxyb_net` pairs hosts and ports by position: one row without a host shifts all
  that follow.

Command line:

- a `find()` that raises, or a second SIGINT, leaves the JSON document without its `]`;
- SIGINT while `serve()` awaits `Server.start()` stops nothing: the server goes on to
  listen until a second SIGINT (excepted in `StopEnds`).

## Fairness

Fairness is what the event loop and the timeouts in the code justify, and no more.

- A ready task, callback or woken waiter runs at some point: weak fairness of each
  loader, check task, handler, caller.
- Provider fetches, checks and imports end because `wait_for` or a client timeout bounds
  them (`api.py`, `server.py`, `checker.py`). `broker_live`
  assumes that a check ends; `checker` shows it (`ChecksEnd`), from the timeouts of
  single attempts, unless a judge's probe raises an unforeseen exception.
- No attempt of the server need end: the peers may keep a tunnel busy for ever, or stop
  reading, which the untimed `drain()` waits for (`proxy.py:454`, `server.py:567`). The
  fairness of `ProxyServer` is that of `OwnStep`, which leaves out `UseEnds` and `UseFails`.
  `RequestEnds` says what remains true: a request is over unless one attempt lasts for
  ever with the server up. `stop()` ends it, as a cancellation reaches any await.
- Nothing forces `stop()`, the autosave, forgetting, a consumer, or a client.
- In `Resolver`, `RealIps` and `Cli` no fairness at all is assumed of name servers and
  endpoints: `FirstAnswerSuffices` and `BlackholeIsBounded` hold although the other
  family never answers; the clock (`Late`) does advance. `Cli` assumes the event loop
  only: nothing of what is found, or of signals.
- In `Provider` each fetch takes a step as long as it has one: every request has a
  timeout, so it ends with an answer or without. Nothing forces the Broker's own
  timeout (`TimeOut`), and nothing a fetch to start.
- `Server.stop()` calls `loop.stop()`: `RequestEnds` is about a loop that is run on,
  as a caller's `run_until_complete` does to let the cancelled handlers finish.

Modelling decisions: a cancellation is delivered at the next suspension (the lost
cancellation of `asyncio.wait_for` in Python before 3.12 is not modelled); in `Resolver` a
query is `"cancelled"` from the request on, as nobody awaits or reads it any more, while
`RealIps` has the wait for its probes step by step; whether a request is UTF-8 is chosen
at the end of its first attempt, and stays so; a crash in `PoolStore` is the death of a
process: what the machine's crash leaves of a file that was not synced is not modelled
(`pool_store.py` does no `fsync`); `grab` and
`find` are called once per Broker; a `save_pool()` inside the Broker succeeds, its
failures are in `PoolStore`; a Checker has requested types, as `find()` makes sure.

## What is proved

For every value of the constants that satisfies the modules' assumptions (named
`...Assumption`), with TLAPS:

- `BrokerProofs!TypeCorrect`: `Spec => [](TypeOK /\ HandOK)`. `HandOK` (a loader on
  its way to the check holds an address, not a domain) is needed to type the check
  tasks: `TypeOK` alone is not inductive.
- `BrokerProofs!SlotsCorrect`: `Spec => []SlotAccounting`, for any `max_conn` and
  number of checks. `SlotAccounting` is inductive relative to `TypeOK`; the argument
  is about the cardinality of `Live` when a task is added, freed or cancelled
  (a cancelled task keeps its slot until its callback runs).
- `BrokerProofs!StreamRefines`: `Spec => ImplementsStream`, for every kind of call, the
  endless ones and those inside a server included (which may give a proxy again, or give
  without a limit). `StreamImplemented` maps each step to `Give`, `End`, `Autosave` or
  `SaveLate` of `ResultStream`, or to none. It needs that the limit is used up exactly by
  the last proxy asked for (`HitsWithLast`, from `LimitInv` below), that no address is
  queued twice (`OnceInv`), and `StreamInv`: what is verified is what has been put, a
  server stays one until there is a marker, a call without a limit never reaches it.
- `BrokerProofs!LimitCorrect`: `Spec => []LimitRespected`, for any limit. The
  inductive invariant `LimitInv` ties `limit` to the length of `results`
  (`limit = call.limit - Len(results)` as soon as the call has begun) and says that
  a limit used up outside a server has left a marker in time; before that nothing
  has happened but `stop()` (`Nothing`), which may push markers of its own.
- `BrokerProofs!PersistCorrect`: `Spec => PersistedAtEnd`: every step that puts the
  end-of-stream marker, whoever takes it, has saved all that was verified.
- `BrokerProofs!WaitersAreWoken`: `Spec => []NoLostWakeup`. Inductive with
  `SlotAccounting`: the check whose callback wakes the loaders is the one that leaves
  `unfinished` at 0, and the consumer wakes those that pause when it takes the last.
- `BrokerProofs!RestsAtTheEnd`: `Spec => []RestIsEnd`, the safety half of `EventuallyEnds`
  and `EndsEverything`, without fairness: where the event loop has nothing to run
  (`Resting` spells out the guards, as `ENABLED` is out of reach), nobody waits for
  another coroutine. It follows from `SlotAccounting`, `NoLostWakeup` and `RestInv`:
  only the loader that holds the loop is between two awaits (`InTurn`); who has ended or
  was cancelled has taken everyone with it, but for a loader that cancelled itself and
  does not know yet (`ReachesAll`); discovery waits only for fetches that answer
  (`FetchesAnswer`). What fairness adds is that the loop does come to rest.
- `BrokerProofs!FunnelConserved`: `Spec => []FunnelConservation`. The counters say where
  a candidate has been, not where it is: `HandFits` ties a loader's place to whether it
  holds one, and `Balanced` writes the equation in terms of `unfinished`, so that each
  step moves one candidate from one term to another.
- `BrokerProofs!CheckedOnce`: `Spec => []OncePerPass`. `OnceInv` says that an address
  that is in a check, about to be checked or in the queue is there only (`Single`) and is
  in `unique`, which stops the next; a call that ends by itself never sleeps for another
  pass, and so never clears `unique`.
- `BrokerProofs!BacklogIsBounded`: `Spec => []BacklogBounded`, for any limit and `max_conn`.
  A check that passes moves into the queue, so `Flow` bounds what is queued, what is
  checked and the loaders about to start a check together, and knows that while the
  server is there `limit` counts down from the call's.
- `NegativeCacheProofs!CacheBounded`, `CacheNeverWrong`, `CacheRefines`: the cache
  never exceeds its cap, never calls a key dead that did not fail within the ttl, and
  implements `DeadSet`. `CacheInv` says (`EntriesCurrent`) that entries have distinct
  keys and serials and agree with the history `lastFail`; without the first the eviction
  of the oldest could drop two, without the second the refinement has no link between
  an entry and a failure. `IntakeUsesCache` (`IntakeSpec => Spec`) carries all three over
  to the cache among its callers.
- `NegativeCacheProofs!CacheRemembers` is the converse of `CacheNeverWrong`: a key that
  failed within the ttl is in the cache unless as many others failed since as it has room
  for. `MemoryInv` adds that no two failures have one serial (`InOrder`); the keys behind
  the one that is evicted are as many as the capacity. `NotCheckedAgain`
  (`IntakeSpec => NoRecheck`) follows with `AskedInv`: as long as a candidate waits for
  its slot, a failure of its address within the ttl is later than the question, or was
  pushed out (`Answered`).
- `NegativeCacheProofs!CreditedToFirst`: from `CreditInv`, by which whatever is between
  the creation of a proxy and the end of its check is attributed to its source while its
  pass lasts (`Attributed`), and addresses not seen to nobody.
- `ProxyServerProofs!ServerCustody`, `ServerPoolIsCurrent`: for any number of connections
  and proxies, whatever host:port they have. `Custody` counts places; the inductive
  `ServerInv` says which place a delivered proxy is in (`Placed`), that no sequence or heap has it twice
  (`NoDuplicates`), that a handler holds a proxy exactly while it uses one
  (`HandlersSound`), and that a proxy lost to an exception of a connection has one that
  ended with it (`Traced`, which holds on because a connection that ended stays so,
  `EndsStay`); each operation of the pool is a lemma.
- `CheckerProofs!VerdictsAreSound`, `NobodyWaitsInVain`, `JudgesComeFirst`: for any judges,
  checks, types and tries. `CheckerInv` adds what the probes guarantee of events and
  flags (`ProbesSound`), and per check what its loop may rely on (`RunSound`,
  `TaskSound`): a check that iterates over `_ngtrs` itself has had all events it needs
  set, which is why that set does not change under it.
- `ConnectionProofs!SocketsAreOwned`, `RateNeverExceedsOne`, `NegotiatorsReadAll`,
  `TunnelsOfOthersAreIntact`: for any lengths and numbers of tries. `ConnectionInv` states
  the order of the items of an exchange as a relation (`After`, `Remains`), so that every item knows what
  came before it, and gives at each item the sockets (`Sockets`, which after a request that
  does not decode knows that nothing follows), the counters (`Rate`) and the
  bytes the peer still owes (`Stream`, `Owed`).
- `ResolverProofs!ResolverLeavesNoQuery`, `ResolverHonoursPin`: for any number of lookups
  and hosts; `ResolverInv` adds that a call asks only families it may use
  (`AsksWhatItPins`).
- `ResolverProofs!NoProbeOutlivesTheCall`, `EveryAddressIsReturned`: for any number of
  endpoints, of `CliSpec`, by `CliDiscovers` (`CliSpec => Spec` of `RealIps`). The
  invariant says what a probe has found (`ProbesSound`) and what the caller may still
  wait for (`CallerSound`).
- `ResolverProofs!DocumentIsComplete`: `CliSpec => []DocumentComplete`, for queues of any
  length. `WriterInv` says at which index of `out` each item stands (`TextLaid`,
  `JsonLaid`), so that a write is one more item and nothing is computed over the whole.
- `ProviderProofs!ProviderBoundsConnections`, `ProviderStraysAreOfFailures`,
  `ProviderHandsOver`, `ProviderInventsNothing`: for any sites of finitely many URLs and
  well-formed pages (`SourcesAssumption`), any number of tries, connections and fetches.
  `ProviderInv` says whose tasks there are (`TasksOfFetches`), whose session is open
  (`SessionsInTurn`), that a page is read once (`ReadOnce`), that all of it is in the set
  (`PagesFound`) and nothing else (`NothingElse`). What a reader finds is what a page
  lists, by lemmas about each reader. The table of symbols is a recursive function over
  the definitions on a page: that it exists is proved by the least page without one
  (`TablesExist`), and then that in the end it satisfies them all (`TableMeans`).
- `PoolStoreProofs!StorePoolSurvives`, `StoreRefines`: for any number of processes; a save
  under way has in hand what it was given (`SaveInHand`), so that the rename is the
  instant at which the register changes.

The type invariant of each of these components is a conjunct of its inductive
invariant and is proved with it.

Only model-checked: liveness (`EventuallyEnds`, `EndsEverything`, `RequestEnds`,
`ChecksEnd`, `FirstAnswerSuffices`, `BlackholeIsBounded`, `StopEnds`, `FetchesEnd`), which
is out of the prover's reach, as is `ENABLED`; `RestsAtTheEnd` is the part of the first
two that is not.

## What is not modelled

What each regular expression matches, headers and raw data; the content of messages and
of the streams between client and proxy (`recv` of an answer is one item: its framing by
Content-Length, chunks or the end of the stream is not); anonymity levels (chosen
freely); geolocation (a fixed set of addresses abroad); `show_stats` and other printing;
the per-pass deltas and rates of `PoolStats`; the request history of the server.

In `provider_utils.py` the loading of a directory of configurations, the registry and the
writer of templates: files and dictionaries, nothing that goes on at the same time. Of
the provider classes `Proxylistplus_com` and the two lists behind it, which have the
shape `linked`. Of the CLI the argument parser, `update-geo` and the provider
directories, and an error on writing the output. `NegativeCache.clear()` and
`Judge.clear()` are called by nothing in the package. `utils.py` and `errors.py` are data.

Two calls on one Broker that overlap are not modelled either (see the plan).

## Plan

Done: every component with state of its own; the theorems above. Next, the most
important first:

1. `Broker` with its `ProxyPool` behind one queue: that the pause, the pool's import
   and the end of the stream agree.
2. Repeated and overlapping calls on one Broker: `_pool_save_task` is never reset, and
   `grab()` does not set `_grab_task` (`api.py:761`).
3. An abstract specification of an attempt (it ends in one of the outcomes `Checker` and
   `ProxyServer` assume, and leaves nothing open) that `Connection` implements.
