------------------------------ MODULE Resolver ------------------------------
(***************************************************************************)
(* proxybroker.resolver.Resolver.resolve: concurrent lookups that share    *)
(* the class-wide cache _cached_hosts.  A caller that pins no family races *)
(* an A against an AAAA query.  An address is represented by its family.   *)
(***************************************************************************)
EXTENDS Families, Integers, FiniteSets

CONSTANTS
  Caller,   \* concurrent calls of resolve()
  Host      \* domains

\* What a call pins: qtype ("A" is v4, "AAAA" is v6), family, or neither.
Want == {w \in [qtype : Family \cup {None}, family : Family \cup {None}] :
           w.qtype = None \/ w.family = None}
Default == [qtype |-> None, family |-> None]
Pinned(w) == IF w.qtype # None THEN w.qtype ELSE w.family

\* A cache entry: an address, or, for a call that pins `family', the list of
\* dicts that such a call returns.
Entry == [fam : Family, list : BOOLEAN]

VARIABLES
  cache,   \* _cached_hosts
  call,    \* the calls
  query    \* per call and family: its DNS query

lookupVars == <<cache, call, query>>

CallOver == {"answered", "failed", "raised", "cancelled"}
CallType == [st : {"idle", "waiting"} \cup CallOver, host : Host \cup {None}, want : Want,
             seen : SUBSET Family, answer : Entry \cup {None}]
Answers == {"records", "empty", "error", "broken"}
\* A query that is "cancelled" has been asked to end, and does at its next step;
\* nobody reads what it would have found.
QueryState == {"off", "running", "cancelled"} \cup Answers

\* The record types _fetch_records asks for.
Asked(w) == IF w = Default THEN Family ELSE {Pinned(w)}

-----------------------------------------------------------------------------
LookupInit ==
  /\ cache = [h \in Host |-> None]
  /\ call = [c \in Caller |-> [st |-> "idle", host |-> None, want |-> Default,
                               seen |-> {}, answer |-> None]]
  /\ query = [c \in Caller |-> [f \in Family |-> "off"]]

\* _cache_compatible: without a pin anything will do, even a list.
CompatibleAlways(e, w) == TRUE
Compatible(e, w) == w = Default \/ e.fam = Pinned(w)

\* resolve(), up to its first suspension.
Resolve(c, h, w) ==
  /\ call[c].st = "idle"
  /\ IF cache[h] # None /\ Compatible(cache[h], w)
       THEN /\ call' = [call EXCEPT ![c] = [@ EXCEPT !.st = "answered", !.host = h,
                                                     !.want = w, !.answer = cache[h]]]
            /\ UNCHANGED query
       ELSE /\ call' = [call EXCEPT ![c] = [@ EXCEPT !.st = "waiting", !.host = h,
                                                     !.want = w]]
            /\ query' = [query EXCEPT ![c] =
                 [f \in Family |-> IF f \in Asked(w) THEN "running" ELSE "off"]]
  /\ UNCHANGED cache

\* _resolve: an answer, ResolveError (also on a timeout) or another exception.
QueryEnds(c, f) ==
  /\ query[c][f] = "running"
  /\ \E a \in Answers : query' = [query EXCEPT ![c][f] = a]
  /\ UNCHANGED <<cache, call>>

\* asyncio.wait returned: what has been answered and not yet looked at.
New(c) == {f \in Family : query[c][f] \in Answers /\ f \notin call[c].seen}
Pending(c) == {f \in Family : query[c][f] = "running"}

\* The `finally' of the race asks the slower query to end, and does not await it.
LoserKept(c) == query
LoserCancelled(c) ==
  [query EXCEPT ![c] = [f \in Family |-> IF f \in Pending(c) THEN "cancelled" ELSE @[f]]]

\* A non-empty answer wins, is cached under the bare host name and returned.
\* Whether an entry is a list depends on `family' only, not on qtype.
AllReady(c) == IF Pending(c) = {} THEN New(c) ELSE {}
FirstReady(c) == New(c)

EntryFor(c, f) == [fam |-> f, list |-> call[c].want.family # None]

Wins(c) ==
  /\ call[c].st = "waiting"
  /\ \E f \in FirstReady(c) :
       /\ query[c][f] = "records"
       /\ cache' = [cache EXCEPT ![call[c].host] = EntryFor(c, f)]
       /\ call' = [call EXCEPT ![c] =
            [@ EXCEPT !.st = "answered", !.answer = EntryFor(c, f)]]
  /\ query' = LoserCancelled(c)

\* Another exception than ResolveError leaves the race at once.
Breaks(c) ==
  /\ call[c].st = "waiting"
  /\ \E f \in New(c) : query[c][f] = "broken"
  /\ call' = [call EXCEPT ![c].st = "raised"]
  /\ query' = LoserCancelled(c)
  /\ UNCHANGED cache

\* Nothing came: wait for the other query, if it is under way.  After the last,
\* an error is raised again; empty answers return what the cache holds by now,
\* whatever its family.
LastOne(c) == Pending(c) = {}

NothingCame(c) ==
  /\ call[c].st = "waiting" /\ New(c) # {}
  /\ \A f \in New(c) : query[c][f] \in {"empty", "error"}
  /\ call' = [call EXCEPT ![c] =
       IF ~LastOne(c) THEN [@ EXCEPT !.seen = call[c].seen \cup New(c)]
       ELSE IF \E f \in Family : query[c][f] = "error" THEN [@ EXCEPT !.st = "failed"]
       ELSE [@ EXCEPT !.st = "answered", !.answer = cache[call[c].host]]]
  /\ UNCHANGED <<cache, query>>

\* The caller's task is cancelled while it waits.
CancelCall(c) ==
  /\ call[c].st = "waiting"
  /\ call' = [call EXCEPT ![c].st = "cancelled"]
  /\ query' = LoserCancelled(c)
  /\ UNCHANGED cache

Wake(c) == Wins(c) \/ Breaks(c) \/ NothingCame(c)

LookupNext ==
  \E c \in Caller :
    \/ \E h \in Host, w \in Want : Resolve(c, h, w)
    \/ \E f \in Family : QueryEnds(c, f)
    \/ Wake(c) \/ CancelCall(c)

LookupSpec == LookupInit /\ [][LookupNext]_lookupVars

\* The event loop wakes a caller that has something to look at.  Nothing is
\* assumed of the name servers.
LookupFairSpec == LookupSpec /\ \A c \in Caller : WF_lookupVars(Wake(c))

-----------------------------------------------------------------------------
(* Properties. *)

\* Every variable has its type.
LookupTypeOK ==
  /\ cache \in [Host -> Entry \cup {None}]
  /\ call \in [Caller -> CallType]
  /\ query \in [Caller -> [Family -> QueryState]]

\* However resolve() ends, it leaves no query behind that runs on: each has an
\* answer or has been cancelled.
NoQueryLeft ==
  \A c \in Caller : call[c].st \in CallOver => Pending(c) = {}

\* A call that pins a family is not served the other one from the shared
\* cache, whoever filled it in meanwhile; only after an empty answer of its own
\* it is (see README).
PinIsHonoured ==
  \A c \in Caller :
    call[c].want # Default /\ call[c].answer # None =>
      \/ call[c].answer.fam = Pinned(call[c].want)
      \/ \E f \in Family : query[c][f] = "empty"

\* Happy Eyeballs: the first address ends the call, even if the name server
\* never answers the other query.
FirstAnswerSuffices ==
  \A c \in Caller :
    (call[c].st = "waiting" /\ \E f \in Family : query[c][f] = "records")
      ~> call[c].st \in CallOver
=============================================================================
