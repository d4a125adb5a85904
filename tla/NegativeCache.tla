--------------------------- MODULE NegativeCache ----------------------------
(***************************************************************************)
(* proxybroker.negative_cache.NegativeCache: addresses that failed a check *)
(* recently, bounded in number and in age.  The OrderedDict is a set of    *)
(* entries whose serial is the order of insertion.                         *)
(***************************************************************************)
EXTENDS Integers, FiniteSets

CONSTANTS
  Key,         \* (host, port) pairs
  Garbage,     \* those whose port is not a number, for which _key is None
  Ttl,         \* ttl, zero disables the cache
  MaxEntries,  \* max_entries as passed
  MaxNow,      \* bound: the clock
  MaxSerial    \* bound: failures remembered

ASSUME CacheAssumption ==
  /\ Garbage \subseteq Key
  /\ Ttl \in Int /\ MaxEntries \in Int
  /\ MaxNow \in Nat /\ MaxSerial \in Nat

VARIABLES
  entries,   \* _entries
  now,       \* time.monotonic()
  serial,    \* insertions so far
  lastFail   \* history: when each key last failed, by clock and by order

vars == <<entries, now, serial, lastFail>>

Entry == [key : Key, at : Nat, serial : Nat]
Never == [at |-> -1, serial |-> -1]

Cap == IF MaxEntries < 1 THEN 1 ELSE MaxEntries
enabled == Ttl > 0

Oldest(S) == {e \in S : \A f \in S : e.serial <= f.serial}

\* The loop that drops the oldest entry while there are more than Cap: one
\* entry was added to at most Cap, so it runs once at most (see Bounded).
EvictLate(S) == IF Cardinality(S) > Cap + 1 THEN S \ Oldest(S) ELSE S
EvictNewest(S) ==
  IF Cardinality(S) > Cap THEN S \ {e \in S : \A f \in S : f.serial <= e.serial} ELSE S
Evict(S) == IF Cardinality(S) > Cap THEN S \ Oldest(S) ELSE S

Others(k) == {e \in entries : e.key # k}
Fresh(k) == [key |-> k, at |-> now, serial |-> serial]

Init ==
  /\ entries = {} /\ now = 0 /\ serial = 0
  /\ lastFail = [k \in Key |-> Never]

\* remember(host, port): the entry moves to the end, the oldest is evicted.
Remember(k) ==
  /\ serial < MaxSerial
  /\ enabled /\ k \notin Garbage
  /\ entries' = Evict(Others(k) \cup {Fresh(k)})
  /\ serial' = serial + 1
  /\ lastFail' = [lastFail EXCEPT ![k] = [at |-> now, serial |-> serial]]
  /\ UNCHANGED now

\* What is_known_dead(host, port) answers.
IsKnownDeadForever(k) == \E e \in entries : e.key = k
IsKnownDeadInverted(k) == \E e \in entries : e.key = k /\ now - e.at > Ttl
IsKnownDead(k) == enabled /\ k \notin Garbage
                  /\ \E e \in entries : e.key = k /\ now - e.at <= Ttl

\* is_known_dead() deletes the entry it finds expired.
AskExpired(k) ==
  /\ enabled /\ k \notin Garbage
  /\ \E e \in entries :
       /\ e.key = k /\ now - e.at > Ttl
       /\ entries' = entries \ {e}
  /\ UNCHANGED <<now, serial, lastFail>>

clear ==
  /\ entries' = {}
  /\ lastFail' = [k \in Key |-> Never]
  /\ UNCHANGED <<now, serial>>

Tick ==
  /\ now < MaxNow
  /\ now' = now + 1
  /\ UNCHANGED <<entries, serial, lastFail>>

Next == clear \/ Tick \/ \E k \in Key : Remember(k) \/ AskExpired(k)

Spec == Init /\ [][Next]_vars

-----------------------------------------------------------------------------
(* Properties. *)

\* Every variable has its type.
TypeOK ==
  /\ entries \subseteq Entry /\ IsFiniteSet(entries)
  /\ now \in Nat /\ serial \in Nat
  /\ lastFail \in [Key -> [at : Int, serial : Int]]

\* The cache never outgrows max_entries, the leak it was written to avoid.
Bounded == Cardinality(entries) <= Cap

\* The address failed no longer than ttl ago.
FailedWithinTtl(k) == lastFail[k] # Never /\ now - lastFail[k].at <= Ttl

\* The addresses that failed after it.
FailedSince(k) == {j \in Key : lastFail[j].serial > lastFail[k].serial}

\* A dead address is one that did fail, no longer than ttl ago: no failure
\* becomes a life-long ban, and a repeated failure renews the term.
NeverWrong ==
  \A k \in Key : IsKnownDead(k) => FailedWithinTtl(k)

Known == {k \in Key : IsKnownDead(k)}
Abstract == INSTANCE DeadSet WITH dead <- Known

\* The cache is a DeadSet: an address becomes dead only by failing, whatever
\* is evicted or expires in the same step.
ImplementsDeadSet == Abstract!Spec

=============================================================================
