-------------------------------- MODULE Intake --------------------------------
(***************************************************************************)
(* The negative cache at work in proxybroker.api.Broker, with the          *)
(* attribution of results to providers: _handle() asks the cache before a  *)
(* candidate is resolved and waits for a slot, _task_done() tells it of a  *)
(* failure much later, and unique_proxies and _source_of are cleared       *)
(* between passes, under the checks in flight.  Broker models the slots,   *)
(* the limit and the ends; here a set of dead addresses is the real cache. *)
(***************************************************************************)
EXTENDS NegativeCache

CONSTANTS
  Name,       \* candidates whose host is a domain
  Provider,   \* providers
  Offer,      \* per provider: the candidates it yields
  Stored,     \* the addresses loaded from the pool store
  Slots,      \* max_conn
  MaxPasses,  \* bound: passes
  None        \* Python's None

Candidate == Key \cup Name
Address == Key \ Garbage
Loader == {"warm", "grab"}

ASSUME IntakeAssumption ==
  /\ Name \cap Key = {} /\ Offer \in [Provider -> SUBSET Candidate]
  /\ Stored \subseteq Address /\ Slots \in Nat \ {0} /\ MaxPasses \in Nat
  /\ None \notin Provider

VARIABLES
  pass,      \* the pass
  fetched,   \* providers whose proxies _grab() has got in this pass
  todo,      \* per loader: candidates still to be handled
  from,      \* the provider that those of the grab are from
  hand,      \* per loader: the candidate _handle() is at
  unique,    \* unique_proxies
  sourceOf,  \* _source_of
  checks,    \* the checks in flight
  passed,    \* per provider: "passed" of PoolStats.providers
  good       \* stats.passed

intake == <<pass, fetched, todo, from, hand, unique, sourceOf, checks, passed, good>>
intakeVars == <<vars, intake>>

Idle == [st |-> "idle"]

IntakeInit ==
  /\ Init
  /\ pass = 1 /\ fetched = {} /\ from = None
  /\ todo = [l \in Loader |-> IF l = "warm" THEN Stored ELSE {}]
  /\ hand = [l \in Loader |-> Idle]
  /\ unique = {}
  /\ sourceOf = [a \in Key |-> None]
  /\ checks = {}
  /\ passed = [p \in Provider |-> 0]
  /\ good = 0

-----------------------------------------------------------------------------
(* _grab(): the providers of a pass. *)

IsIdle(l) == hand[l].st = "idle" /\ todo[l] = {}

\* The proxies of the next provider, in whatever order they come.
Fetched(p) ==
  /\ IsIdle("grab") /\ p \notin fetched
  /\ fetched' = fetched \cup {p}
  /\ from' = p
  /\ todo' = [todo EXCEPT !["grab"] = Offer[p]]
  /\ UNCHANGED <<vars, pass, hand, unique, sourceOf, checks, passed, good>>

\* After the pause: what the pass has seen is forgotten, its checks go on.
NextPass ==
  /\ IsIdle("grab") /\ fetched = Provider /\ pass < MaxPasses
  /\ pass' = pass + 1
  /\ fetched' = {} /\ from' = None
  /\ unique' = {}
  /\ sourceOf' = [a \in Key |-> None]
  /\ UNCHANGED <<vars, todo, hand, checks, passed, good>>

-----------------------------------------------------------------------------
(* _handle(): one candidate. *)

Takes(l, c) ==
  /\ hand[l].st = "idle" /\ c \in todo[l]
  /\ todo' = [todo EXCEPT ![l] = @ \ {c}]

Holds(l, h) == hand' = [hand EXCEPT ![l] = h]

\* The source of what a loader handles, and what _handle() notes of it: the
\* first to bring an address in a pass has its credit.
Source(l) == IF l = "grab" THEN from ELSE None
NotedForLast(l, a) == IF Source(l) = None THEN sourceOf ELSE [sourceOf EXCEPT ![a] = Source(l)]
Noted(l, a) ==
  IF Source(l) = None \/ a \in unique THEN sourceOf ELSE [sourceOf EXCEPT ![a] = Source(l)]

\* A proxy new to the pass is pushed to the check, where the loader waits.
Created(l, a, c, asked) ==
  /\ IF a \in unique THEN Holds(l, Idle)
     ELSE Holds(l, [st |-> "waiting", addr |-> a, named |-> c \in Name, asked |-> asked,
                    by |-> Source(l), pass |-> pass])
  /\ unique' = unique \cup {a}
  /\ sourceOf' = Noted(l, a)

\* An address known dead is skipped.
Skip(l, c) ==
  /\ Takes(l, c)
  /\ IsKnownDead(c)
  /\ UNCHANGED <<vars, pass, fetched, from, hand, unique, sourceOf, checks, passed, good>>

\* Asking deletes an entry that has expired.
Asks(c) == AskExpired(c) \/ (UNCHANGED vars /\ \A e \in entries : e.key # c)

\* Any other address goes on without a suspension, unless its port is bad.
TakeAddress(l, c) ==
  /\ Takes(l, c)
  /\ c \in Key /\ ~IsKnownDead(c) /\ Asks(c)
  /\ IF c \in Garbage THEN UNCHANGED <<hand, unique, sourceOf>> ELSE Created(l, c, c, serial)
  /\ UNCHANGED <<pass, fetched, from, checks, passed, good>>

\* The cache knows no domains; one is resolved, which suspends.
TakeName(l, c) ==
  /\ Takes(l, c)
  /\ c \in Name
  /\ Holds(l, [st |-> "resolving", name |-> c, asked |-> serial])
  /\ UNCHANGED <<vars, pass, fetched, from, unique, sourceOf, checks, passed, good>>

Resolved(l, a) ==
  /\ hand[l].st = "resolving"
  /\ Created(l, a, hand[l].name, hand[l].asked)
  /\ UNCHANGED <<vars, pass, fetched, from, todo, checks, passed, good>>

ResolveFails(l) ==
  /\ hand[l].st = "resolving"
  /\ Holds(l, Idle)
  /\ UNCHANGED <<vars, pass, fetched, from, todo, unique, sourceOf, checks, passed, good>>

\* A slot is free; the cache is not asked again.
StartCheck(l) ==
  /\ hand[l].st = "waiting"
  /\ Cardinality(checks) < Slots
  /\ checks' = checks \cup {[addr |-> hand[l].addr, by |-> hand[l].by, pass |-> hand[l].pass]}
  /\ Holds(l, Idle)
  /\ UNCHANGED <<vars, pass, fetched, from, todo, unique, sourceOf, passed, good>>

-----------------------------------------------------------------------------
(* _task_done(): a check is over. *)

CheckFails(c) ==
  /\ c \in checks
  /\ checks' = checks \ {c}
  /\ Remember(c.addr)
  /\ UNCHANGED <<pass, fetched, from, todo, hand, unique, sourceOf, passed, good>>

CheckPasses(c) ==
  /\ c \in checks
  /\ checks' = checks \ {c}
  /\ good' = good + 1
  /\ passed' = [p \in Provider |-> passed[p] + (IF sourceOf[c.addr] = p THEN 1 ELSE 0)]
  /\ UNCHANGED <<vars, pass, fetched, from, todo, hand, unique, sourceOf>>

TimePasses == Tick /\ UNCHANGED intake

-----------------------------------------------------------------------------
IntakeNext ==
  \/ NextPass \/ TimePasses
  \/ \E p \in Provider : Fetched(p)
  \/ \E l \in Loader : \/ ResolveFails(l) \/ StartCheck(l)
                       \/ \E a \in Address : Resolved(l, a)
                       \/ \E c \in Candidate : Skip(l, c) \/ TakeAddress(l, c) \/ TakeName(l, c)
  \/ \E c \in checks : CheckFails(c) \/ CheckPasses(c)

IntakeSpec == IntakeInit /\ [][IntakeNext]_intakeVars

-----------------------------------------------------------------------------
(* Properties. *)

\* An address that failed within ttl is checked again only if it came as a
\* domain, which the cache is not asked about after it is resolved; if the
\* failure came after the cache was asked, from a check of an earlier pass; or
\* if max_entries failures since have pushed it out.
Excused(h) ==
  \/ h.named
  \/ lastFail[h.addr].serial >= h.asked
  \/ Cardinality(FailedSince(h.addr)) >= Cap

NoRecheck ==
  [][\A l \in Loader : StartCheck(l) /\ FailedWithinTtl(hand[l].addr) => Excused(hand[l])]_intakeVars

\* A proxy that passes while its pass lasts is to the credit of the provider
\* that brought it first, and of nobody if the pool store did: duplicates from
\* others in between take nothing away.  (A check that outlives its pass
\* counts for whoever brings the address next, or for nobody.)
CreditedRight ==
  [][\A c \in checks : CheckPasses(c) /\ c.pass = pass =>
       passed' = [p \in Provider |-> passed[p] + (IF p = c.by THEN 1 ELSE 0)]]_intakeVars

=============================================================================
