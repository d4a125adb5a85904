------------------------- MODULE NegativeCacheProofs -------------------------
(* Theorems about NegativeCache, and about Intake which uses it, for every     *)
(* value of their constants.                                                   *)
EXTENDS Intake, FiniteSetTheorems, WellFoundedInduction, TLAPS

\* What eviction rests on: a cache that is not empty has an oldest entry, as
\* its insertions are numbered.
LEMMA OldestExists ==
  ASSUME NEW S \in SUBSET Entry, S # {}
  PROVE  Oldest(S) # {}
<1> DEFINE T == {e.serial : e \in S}
<1>1. T \subseteq Nat /\ T # {}  BY DEF Entry
<1>2. PICK n \in T : \A m \in T : ~(<<m, n>> \in OpToRel(<, Nat))
  BY <1>1, NatLessThanWellFounded, WFMin
<1>3. \A m \in T : ~(m < n)  BY <1>1, <1>2 DEF OpToRel
<1>4. PICK e \in S : e.serial = n  BY <1>2
<1>5. \A f \in S : f.serial \in T  OBVIOUS
<1> HIDE DEF T
<1>6. ASSUME NEW f \in S PROVE e.serial <= f.serial
  <2>1. f.serial \in Nat /\ n \in Nat  BY <1>1, <1>2, <1>5
  <2>2. ~(f.serial < n)  BY <1>3, <1>5
  <2>3. n <= f.serial  BY <2>1, <2>2
  <2> QED  BY <1>4, <2>3
<1> QED  BY <1>4, <1>6 DEF Oldest

\* Evicting from at most one entry too many leaves at most Cap.
LEMMA EvictBounds ==
  ASSUME NEW S \in SUBSET Entry, IsFiniteSet(S), Cardinality(S) <= Cap + 1
  PROVE  Evict(S) \subseteq S /\ IsFiniteSet(Evict(S)) /\ Cardinality(Evict(S)) <= Cap
<1>1. Evict(S) \subseteq S  BY DEF Evict
<1>2. IsFiniteSet(Evict(S))  BY <1>1, FS_Subset
<1>3. Cap \in Nat /\ Cap >= 1 /\ Cardinality(S) \in Nat
  BY CacheAssumption, FS_CardinalityType DEF Cap
<1>4. CASE Cardinality(S) > Cap
  <2>1. S # {}  BY <1>3, <1>4, FS_EmptySet
  <2>2. PICK e \in Oldest(S) : TRUE  BY <2>1, OldestExists
  <2>3. e \in S  BY <2>2 DEF Oldest
  <2>4. IsFiniteSet(S \ {e}) /\ Cardinality(S \ {e}) = Cardinality(S) - 1
    BY <2>3, FS_RemoveElement
  <2>5. Evict(S) \subseteq S \ {e}  BY <1>4, <2>2 DEF Evict
  <2>6. Cardinality(Evict(S)) <= Cardinality(S \ {e})  BY <2>4, <2>5, FS_Subset
  <2>7. Cardinality(Evict(S)) \in Nat  BY <1>2, FS_CardinalityType
  <2> QED  BY <1>1, <1>2, <1>3, <2>4, <2>6, <2>7
<1>5. CASE ~(Cardinality(S) > Cap)
  BY <1>1, <1>2, <1>3, <1>5 DEF Evict
<1> QED  BY <1>4, <1>5

\* The entries are the latest failures, one per address: what makes NeverWrong
\* and Bounded inductive.
EntriesCurrent ==
  /\ \A e \in entries : lastFail[e.key] = [at |-> e.at, serial |-> e.serial]
  /\ \A e \in entries, f \in entries : e.key = f.key => e = f

CacheInv == TypeOK /\ EntriesCurrent /\ Bounded

\* The invariant holds of the empty cache.
LEMMA CacheInit == Init => CacheInv
<1> SUFFICES ASSUME Init PROVE CacheInv  OBVIOUS
<1>1. Cardinality(entries) = 0 /\ IsFiniteSet(entries)  BY FS_EmptySet DEF Init
<1>2. TypeOK  BY <1>1 DEF Init, TypeOK, Never
<1>3. EntriesCurrent  BY DEF Init, EntriesCurrent
<1>4. Bounded  BY <1>1, CacheAssumption DEF Bounded, Cap
<1> QED  BY <1>2, <1>3, <1>4 DEF CacheInv

\* The invariant holds of a cache that has lost entries.
LEMMA FewerEntries ==
  ASSUME CacheInv, entries' \subseteq entries, UNCHANGED serial, now' \in Nat,
         \/ UNCHANGED lastFail
         \/ entries' = {} /\ lastFail' = [k \in Key |-> Never]
  PROVE  CacheInv'
<1> USE DEF CacheInv
<1>1. IsFiniteSet(entries') /\ Cardinality(entries') <= Cardinality(entries)
  BY FS_Subset DEF TypeOK
<1>2. Cardinality(entries') \in Nat /\ Cardinality(entries) \in Nat /\ Cap \in Nat
  BY <1>1, FS_CardinalityType, CacheAssumption DEF TypeOK, Cap
<1>3. TypeOK'  BY <1>1 DEF TypeOK, Never
<1>4. EntriesCurrent'  BY DEF EntriesCurrent
<1>5. Bounded'  BY <1>1, <1>2 DEF Bounded, Cap
<1> QED  BY <1>3, <1>4, <1>5

\* The invariant holds after remember().
LEMMA RememberKeeps ==
  ASSUME CacheInv, NEW k \in Key, Remember(k)
  PROVE  CacheInv'
<1> USE DEF CacheInv
<1> DEFINE S == Others(k) \cup {Fresh(k)}
<1>1. entries \subseteq Entry /\ IsFiniteSet(entries) /\ now \in Nat /\ serial \in Nat
  BY DEF TypeOK
<1>2. Fresh(k) \in Entry /\ Fresh(k).key = k  BY <1>1 DEF Fresh, Entry
<1>3. Others(k) \subseteq entries /\ IsFiniteSet(Others(k))
  BY <1>1, FS_Subset DEF Others
<1>4. S \subseteq Entry /\ IsFiniteSet(S)  BY <1>1, <1>2, <1>3, FS_AddElement
<1>5. Cardinality(S) <= Cap + 1
  <2>1. Cardinality(Others(k)) <= Cardinality(entries)  BY <1>1, <1>3, FS_Subset
  <2>2. Cardinality(S) = Cardinality(Others(k)) \/ Cardinality(S) = Cardinality(Others(k)) + 1
    BY <1>3, FS_AddElement
  <2>3. Cardinality(Others(k)) \in Nat /\ Cardinality(entries) \in Nat /\ Cap \in Nat
    BY <1>1, <1>3, FS_CardinalityType, CacheAssumption DEF Cap
  <2> QED  BY <2>1, <2>2, <2>3 DEF Bounded
<1>6. entries' = Evict(S)  BY DEF Remember
<1> HIDE DEF S
<1>7. entries' \subseteq S /\ IsFiniteSet(entries') /\ Cardinality(entries') <= Cap
  BY <1>4, <1>5, <1>6, EvictBounds
<1>8. TypeOK'
  <2>1. [at |-> now, serial |-> serial] \in [at : Int, serial : Int]  BY <1>1
  <2>2. lastFail' \in [Key -> [at : Int, serial : Int]]  BY <2>1 DEF TypeOK, Remember
  <2>3. now' \in Nat /\ serial' \in Nat  BY <1>1 DEF Remember
  <2> QED  BY <1>4, <1>7, <2>2, <2>3 DEF TypeOK
<1>9. EntriesCurrent'
  <2>1. \A e \in S : (e \in entries /\ e.key # k) \/ e = Fresh(k)  BY DEF S, Others
  <2>2. lastFail' = [lastFail EXCEPT ![k] = [at |-> now, serial |-> serial]]
    BY DEF Remember
  <2>3. Fresh(k).at = now /\ Fresh(k).serial = serial  BY DEF Fresh
  <2>4. \A e \in S : lastFail'[e.key] = [at |-> e.at, serial |-> e.serial]
    BY <1>1, <1>2, <2>1, <2>2, <2>3 DEF EntriesCurrent, TypeOK, Entry
  <2>5. \A e \in S, f \in S : e.key = f.key => e = f
    BY <1>2, <2>1 DEF EntriesCurrent
  <2> QED  BY <1>7, <2>4, <2>5 DEF EntriesCurrent
<1>10. Bounded'  BY <1>7 DEF Bounded, Cap
<1> QED  BY <1>8, <1>9, <1>10

\* The invariant is inductive.
LEMMA CacheStep ==
  ASSUME CacheInv, [Next]_vars
  PROVE  CacheInv'
<1>1. CASE clear
  BY <1>1, FewerEntries DEF clear, CacheInv, TypeOK
<1>2. CASE Tick
  BY <1>2, FewerEntries DEF Tick, CacheInv, TypeOK
<1>3. ASSUME NEW k \in Key, Remember(k) PROVE CacheInv'  BY <1>3, RememberKeeps
<1>4. ASSUME NEW k \in Key, AskExpired(k) PROVE CacheInv'
  BY <1>4, FewerEntries DEF AskExpired, CacheInv, TypeOK
<1>5. CASE UNCHANGED vars
  BY <1>5, FewerEntries DEF vars, CacheInv, TypeOK
<1> QED  BY <1>1, <1>2, <1>3, <1>4, <1>5 DEF Next

\* The invariant holds in every behaviour.
THEOREM CacheInvariant == Spec => []CacheInv
<1> QED  BY CacheInit, CacheStep, PTL DEF Spec

\* The cache never outgrows max_entries (negative_cache.py:93), however often
\* which address fails, expires or is cleared.
THEOREM CacheBounded == Spec => []Bounded
<1>1. CacheInv => Bounded  BY DEF CacheInv
<1> QED  BY <1>1, CacheInvariant, PTL

\* An address called dead did fail, no longer than ttl ago
\* (negative_cache.py:111): no failure becomes a life-long ban.
THEOREM CacheNeverWrong == Spec => []NeverWrong
<1>1. CacheInv => NeverWrong
  <2> SUFFICES ASSUME CacheInv, NEW k \in Key, IsKnownDead(k)
               PROVE  FailedWithinTtl(k)
    BY DEF NeverWrong
  <2>1. PICK e \in entries : e.key = k /\ now - e.at <= Ttl  BY DEF IsKnownDead
  <2>2. lastFail[k] = [at |-> e.at, serial |-> e.serial]  BY <2>1 DEF CacheInv, EntriesCurrent
  <2>3. e.at \in Nat  BY <2>1 DEF CacheInv, TypeOK, Entry
  <2>4. lastFail[k].at # Never.at  BY <2>2, <2>3 DEF Never
  <2> QED  BY <2>1, <2>2, <2>4 DEF FailedWithinTtl
<1> QED  BY <1>1, CacheInvariant, PTL

\* The cache implements the set of dead addresses that Broker uses: an address
\* becomes dead only by failing, whatever expires or is evicted meanwhile.
THEOREM CacheRefines == Spec => ImplementsDeadSet
<1>1. Init => Abstract!Init
  BY DEF Init, Abstract!Init, Known, IsKnownDead
<1>2. CacheInv /\ [Next]_vars => [Abstract!Next]_Known
  <2> SUFFICES ASSUME CacheInv, [Next]_vars PROVE [Abstract!Next]_Known  OBVIOUS
  <2>1. ASSUME entries' \subseteq entries, now' \in Nat, now' >= now
        PROVE  Known' \subseteq Known
    BY <2>1, CacheAssumption DEF Known, IsKnownDead, CacheInv, TypeOK, Entry, enabled
  <2>2. CASE clear
    <3>1. Known' \subseteq Known  BY <2>2 DEF clear, Known, IsKnownDead
    <3> QED  BY <3>1 DEF Abstract!Next, Abstract!Forget
  <2>3. CASE Tick
    <3>1. Known' \subseteq Known  BY <2>1, <2>3 DEF Tick, CacheInv, TypeOK
    <3> QED  BY <3>1 DEF Abstract!Next, Abstract!Forget
  <2>4. ASSUME NEW k \in Key, AskExpired(k) PROVE Abstract!Next
    <3>1. Known' \subseteq Known  BY <2>1, <2>4 DEF AskExpired, CacheInv, TypeOK
    <3> QED  BY <3>1 DEF Abstract!Next, Abstract!Forget
  <2>5. ASSUME NEW k \in Key, Remember(k) PROVE Abstract!Next
    <3>1. \A e \in entries' : e \in entries \/ e.key = k
      BY <2>5 DEF Remember, Evict, Others, Fresh
    <3>2. Known' \subseteq Known \cup {k}
      BY <2>5, <3>1 DEF Remember, Known, IsKnownDead, enabled
    <3> QED  BY <3>2 DEF Abstract!Next, Abstract!Forget, Abstract!Remember
  <2>6. CASE UNCHANGED vars
    <3>1. Known' = Known  BY <2>6 DEF vars, Known, IsKnownDead
    <3> QED  BY <3>1
  <2> QED  BY <2>2, <2>3, <2>4, <2>5, <2>6 DEF Next
<1> QED  BY <1>1, <1>2, CacheInvariant, PTL DEF Spec, ImplementsDeadSet, Abstract!Spec

-----------------------------------------------------------------------------
(* What the cache remembers: the converse of NeverWrong. *)

Failed == {k \in Key : lastFail[k] # Never}
PushedOut(k) == Cardinality(FailedSince(k)) >= Cap

\* Failures come one at a time, of addresses, to an enabled cache.
InOrder ==
  /\ \A k \in Failed : lastFail[k].serial \in 0..(serial - 1)
  /\ \A j, k \in Failed : lastFail[j].serial = lastFail[k].serial => j = k
  /\ IsFiniteSet(Failed) /\ Failed \cap Garbage = {}
  /\ Failed # {} => enabled

\* An address that failed no longer than ttl ago is in the cache, unless as many
\* have failed since as the cache has room for.
Remembers ==
  \A k \in Key : FailedWithinTtl(k) => PushedOut(k) \/ \E e \in entries : e.key = k

MemoryInv == CacheInv /\ InOrder /\ Remembers

\* The failures after one can be counted.
FailuresCount ==
  \A k \in Failed : IsFiniteSet(FailedSince(k)) /\ Cardinality(FailedSince(k)) \in Nat

LEMMA FailuresCanBeCounted == CacheInv /\ InOrder => FailuresCount
<1> SUFFICES ASSUME CacheInv, InOrder, NEW k \in Failed
             PROVE  IsFiniteSet(FailedSince(k)) /\ Cardinality(FailedSince(k)) \in Nat
  BY DEF FailuresCount
<1>1. lastFail[k].serial \in Nat /\ k \in Key
  BY DEF InOrder, Failed
<1>2. \A j \in Key \ Failed : lastFail[j].serial = -1  BY DEF Failed, Never
<1>3. FailedSince(k) \subseteq Failed
  BY <1>1, <1>2 DEF FailedSince, Failed
<1>4. IsFiniteSet(FailedSince(k))  BY <1>3, FS_Subset DEF InOrder
<1> QED  BY <1>4, FS_CardinalityType

\* A cache that has forgotten expired entries only, or everything, remembers.
LEMMA MemoryKept ==
  ASSUME MemoryInv, CacheInv', serial' = serial, now' >= now,
         \/ /\ UNCHANGED lastFail
            /\ \A e \in entries \ entries' : now - e.at > Ttl
         \/ lastFail' = [k \in Key |-> Never]
  PROVE  MemoryInv'
<1> USE DEF MemoryInv
<1>1. CASE lastFail' = [k \in Key |-> Never]
  <2>1. Failed' = {} /\ IsFiniteSet({})  BY <1>1, FS_EmptySet DEF Failed
  <2>2. InOrder'  BY <2>1 DEF InOrder
  <2>3. Remembers'  BY <1>1 DEF Remembers, FailedWithinTtl
  <2> QED  BY <2>2, <2>3
<1>2. CASE UNCHANGED lastFail /\ \A e \in entries \ entries' : now - e.at > Ttl
  <2>1. Failed' = Failed /\ \A k : FailedSince(k)' = FailedSince(k)
    BY <1>2 DEF Failed, FailedSince
  <2>2. InOrder'  BY <1>2, <2>1 DEF InOrder, enabled
  <2>3. ASSUME NEW k \in Key, FailedWithinTtl(k)'
        PROVE  PushedOut(k)' \/ \E e \in entries' : e.key = k
    <3>1. now \in Int /\ now' \in Int /\ lastFail[k].at \in Int /\ Ttl \in Int
      BY CacheAssumption DEF CacheInv, TypeOK
    <3>2. FailedWithinTtl(k)  BY <1>2, <2>3, <3>1 DEF FailedWithinTtl
    <3>3. CASE PushedOut(k)  BY <3>3, <2>1 DEF PushedOut, Cap
    <3>4. ASSUME NEW e \in entries, e.key = k PROVE e \in entries'
      <4>1. lastFail[k] = [at |-> e.at, serial |-> e.serial]
        BY <3>4 DEF CacheInv, EntriesCurrent
      <4>2. lastFail[k].at = e.at  BY <4>1
      <4> QED  BY <1>2, <3>1, <3>2, <4>2 DEF FailedWithinTtl
    <3> QED  BY <3>2, <3>3, <3>4 DEF Remembers
  <2> QED  BY <2>2, <2>3 DEF Remembers
<1> QED  BY <1>1, <1>2

\* The failure of an address comes after those of all others.
LEMMA FailsLast ==
  ASSUME CacheInv, InOrder, NEW j \in Key, Remember(j)
  PROVE  /\ InOrder'
         /\ \A k \in Failed \ {j} :
              /\ k \in Failed' /\ lastFail'[k] = lastFail[k]
              /\ FailedSince(k) \subseteq FailedSince(k)'
<1>1. serial \in Nat /\ now \in Nat /\ lastFail \in [Key -> [at : Int, serial : Int]]
  BY DEF CacheInv, TypeOK
<1>2. lastFail' = [lastFail EXCEPT ![j] = [at |-> now, serial |-> serial]] /\ serial' = serial + 1
  BY DEF Remember
<1>3. \A k \in Key : lastFail'[k] = IF k = j THEN [at |-> now, serial |-> serial] ELSE lastFail[k]
  BY <1>1, <1>2
<1>4. Failed' = Failed \cup {j}  BY <1>1, <1>3 DEF Failed, Never
<1>5. InOrder'
  <2>1. \A k \in Failed' : lastFail'[k].serial \in 0..(serial' - 1)
    BY <1>1, <1>2, <1>3, <1>4 DEF InOrder, Failed
  <2>2. \A i, k \in Failed' : lastFail'[i].serial = lastFail'[k].serial => i = k
    BY <1>1, <1>3, <1>4 DEF InOrder, Failed
  <2>3. IsFiniteSet(Failed')  BY <1>4, FS_AddElement DEF InOrder
  <2>4. Failed' \cap Garbage = {} /\ enabled  BY <1>4 DEF InOrder, Remember
  <2> QED  BY <2>1, <2>2, <2>3, <2>4 DEF InOrder, enabled
<1>6. ASSUME NEW k \in Failed, k # j
      PROVE  /\ k \in Failed' /\ lastFail'[k] = lastFail[k]
             /\ FailedSince(k) \subseteq FailedSince(k)'
  <2>1. k \in Key /\ lastFail[k].serial < serial  BY <1>1, <1>6 DEF InOrder, Failed
  <2> QED  BY <1>3, <1>4, <1>6, <2>1 DEF FailedSince
<1> QED  BY <1>5, <1>6

\* So what is pushed out stays so until it fails again.
LEMMA PushedOutStays ==
  ASSUME CacheInv, InOrder, NEW j \in Key, Remember(j), NEW k \in Failed \ {j}, PushedOut(k)
  PROVE  PushedOut(k)'
<1>1. CacheInv' /\ InOrder'
  <2>1. InOrder'  BY FailsLast
  <2> QED  BY <2>1, RememberKeeps
<1>2. FailuresCount /\ FailuresCount'  BY <1>1, FailuresCanBeCounted, PTL
<1>3. k \in Failed' /\ FailedSince(k) \subseteq FailedSince(k)'  BY FailsLast
<1>4. IsFiniteSet(FailedSince(k)') /\ Cardinality(FailedSince(k)') \in Nat
  BY <1>2, <1>3 DEF FailuresCount
<1>5. Cardinality(FailedSince(k)) \in Nat  BY <1>2 DEF FailuresCount
<1>6. Cardinality(FailedSince(k)) <= Cardinality(FailedSince(k)')  BY <1>3, <1>4, FS_Subset
<1> QED  BY <1>4, <1>5, <1>6, CacheAssumption DEF PushedOut, Cap

\* Evicting the oldest of more than Cap leaves Cap addresses that failed since.
LEMMA EvictedIsPushedOut ==
  ASSUME NEW S \in SUBSET Entry, IsFiniteSet(S), Cardinality(S) > Cap,
         NEW since, IsFiniteSet(since), NEW e \in Oldest(S),
         \A f, g \in S : f.key = g.key => f = g,
         \A f \in S \ {e} : e.serial <= f.serial => f.key \in since
  PROVE  Cardinality(since) >= Cap
<1> DEFINE T == S \ {e}
           keyOf == [f \in T |-> f.key]
<1>1. e \in S /\ \A f \in S : e.serial <= f.serial  BY DEF Oldest
<1>2. IsFiniteSet(T) /\ Cardinality(T) = Cardinality(S) - 1  BY <1>1, FS_RemoveElement
<1>3. Cap \in Nat /\ Cardinality(S) \in Nat /\ Cardinality(since) \in Nat
  BY CacheAssumption, FS_CardinalityType DEF Cap
<1>4. keyOf \in [T -> since]  BY <1>1
<1>5. \A f, g \in T : keyOf[f] = keyOf[g] => f = g  OBVIOUS
<1> HIDE DEF T, keyOf
<1>6. ~(Cardinality(since) < Cardinality(T))  BY <1>2, <1>4, <1>5, FS_PigeonHole
<1>7. Cardinality(T) \in Nat  BY <1>2, FS_CardinalityType
<1> QED  BY <1>2, <1>3, <1>6, <1>7

\* remember() keeps the memory: what it evicts is pushed out, and what was pushed
\* out before stays so.
LEMMA MemoryAfterFailure ==
  ASSUME MemoryInv, NEW j \in Key, Remember(j)
  PROVE  MemoryInv'
<1> USE DEF MemoryInv
<1>1. CacheInv' /\ InOrder'  BY RememberKeeps, FailsLast
<1>0. FailuresCount'  BY <1>1, FailuresCanBeCounted, PTL
<1> DEFINE S == Others(j) \cup {Fresh(j)}
<1>2. entries' = Evict(S) /\ serial \in Nat /\ now' = now /\ now \in Nat
  BY DEF Remember, CacheInv, TypeOK
<1>3. S \subseteq Entry /\ IsFiniteSet(S)
  <2>1. IsFiniteSet(Others(j)) /\ Others(j) \subseteq Entry
    BY FS_Subset DEF Others, CacheInv, TypeOK
  <2>2. Fresh(j) \in Entry  BY <1>2 DEF Fresh, Entry
  <2> QED  BY <2>1, <2>2, FS_AddElement
<1>4. \A f \in S : lastFail'[f.key] = [at |-> f.at, serial |-> f.serial] /\ f.key \in Failed'
  <2>1. lastFail' = [lastFail EXCEPT ![j] = [at |-> now, serial |-> serial]]  BY DEF Remember
  <2>2. \A f \in Others(j) : f.key \in Key /\ f.key # j /\ f.serial \in Nat
                             /\ lastFail[f.key] = [at |-> f.at, serial |-> f.serial]
    BY DEF Others, CacheInv, EntriesCurrent, TypeOK, Entry
  <2>3. Fresh(j).key = j /\ Fresh(j).at = now /\ Fresh(j).serial = serial  BY DEF Fresh
  <2>4. \A f \in S : f.key \in Key /\ f.serial \in Nat
                     /\ lastFail'[f.key] = [at |-> f.at, serial |-> f.serial]
    <3>1. lastFail \in [Key -> [at : Int, serial : Int]]  BY DEF CacheInv, TypeOK
    <3>2. \A k \in Key : k # j => lastFail'[k] = lastFail[k]  BY <2>1, <3>1
    <3>3. lastFail'[j] = [at |-> now, serial |-> serial]  BY <2>1, <3>1
    <3> QED  BY <1>2, <2>2, <2>3, <3>2, <3>3
  <2> HIDE DEF S
  <2>5. ASSUME NEW f \in S PROVE lastFail'[f.key].serial # -1
    <3>1. lastFail'[f.key] = [at |-> f.at, serial |-> f.serial]  BY <2>4
    <3>2. lastFail'[f.key].serial = f.serial  BY <3>1
    <3>3. f.serial \in Nat  BY <2>4
    <3> QED  BY <3>2, <3>3
  <2>6. Never.serial = -1  BY DEF Never
  <2>7. \A f \in S : f.key \in Key /\ lastFail'[f.key] # Never  BY <2>4, <2>5, <2>6
  <2> QED  BY <2>4, <2>7 DEF Failed
<1>5. \A f, g \in S : f.key = g.key => f = g
  BY DEF Others, Fresh, CacheInv, EntriesCurrent
<1>6. ASSUME NEW k \in Key, FailedWithinTtl(k)'
      PROVE  PushedOut(k)' \/ \E e \in entries' : e.key = k
  <2>1. k \in Failed'  BY <1>6 DEF FailedWithinTtl, Failed
  <2>2. IsFiniteSet(FailedSince(k)') /\ Cardinality(FailedSince(k)') \in Nat
    BY <1>0, <2>1 DEF FailuresCount
  <2>3. ASSUME NEW e \in S, e.key = k, e \notin entries' PROVE PushedOut(k)'
    <3> HIDE DEF S
    <3>1. Cardinality(S) > Cap /\ e \in Oldest(S)  BY <1>2, <2>3 DEF Evict
    <3>2. ASSUME NEW f \in S \ {e}, e.serial <= f.serial PROVE f.key \in FailedSince(k)'
      <4>1. f.key # k /\ f.key \in Key  BY <1>3, <1>5, <2>3, <3>2 DEF Entry
      <4>2. /\ lastFail'[f.key] = [at |-> f.at, serial |-> f.serial] /\ f.key \in Failed'
            /\ lastFail'[k] = [at |-> e.at, serial |-> e.serial]
        BY <1>4, <2>3, <3>2
      <4>3. lastFail'[f.key].serial = f.serial /\ lastFail'[k].serial = e.serial
        BY <4>2
      <4>5. f.serial # e.serial  BY <1>1, <2>1, <4>1, <4>2, <4>3 DEF InOrder
      <4>4. f.serial \in Nat /\ e.serial \in Nat  BY <1>3, <2>3, <3>2 DEF Entry
      <4> QED  BY <3>2, <4>1, <4>3, <4>4, <4>5 DEF FailedSince
    <3>3. Cardinality(FailedSince(k)') >= Cap
      BY <1>3, <1>5, <2>2, <3>1, <3>2, EvictedIsPushedOut
    <3> QED  BY <3>3 DEF PushedOut, Cap
  <2>4. CASE \E e \in S : e.key = k  BY <2>3, <2>4
  <2>5. CASE ~\E e \in S : e.key = k
    <3>1. k # j
      <4>1. Fresh(j) \in S /\ Fresh(j).key = j  BY DEF Fresh
      <4> QED  BY <2>5, <4>1
    <3>2. ~\E e \in entries : e.key = k  BY <2>5, <3>1 DEF Others
    <3>3. k \in Failed  BY <2>1, <3>1 DEF Failed, Remember, CacheInv, TypeOK
    <3>4. lastFail'[k] = lastFail[k]  BY <3>1, <3>3, FailsLast
    <3>5. FailedWithinTtl(k)  BY <1>2, <1>6, <3>4 DEF FailedWithinTtl
    <3>6. PushedOut(k)  BY <3>2, <3>5 DEF Remembers
    <3> QED  BY <3>1, <3>3, <3>6, PushedOutStays
  <2> QED  BY <2>4, <2>5
<1> QED  BY <1>1, <1>6 DEF Remembers

\* The memory is inductive.
LEMMA MemoryStep == MemoryInv /\ [Next]_vars => MemoryInv'
<1> SUFFICES ASSUME MemoryInv, [Next]_vars PROVE MemoryInv'  OBVIOUS
<1>1. CacheInv'  BY CacheStep DEF MemoryInv
<1>2. now \in Nat  BY DEF MemoryInv, CacheInv, TypeOK
<1>3. CASE clear  BY <1>1, <1>2, <1>3, MemoryKept DEF clear
<1>4. CASE Tick  BY <1>1, <1>2, <1>4, MemoryKept DEF Tick
<1>5. ASSUME NEW k \in Key, Remember(k) PROVE MemoryInv'  BY <1>5, MemoryAfterFailure
<1>6. ASSUME NEW k \in Key, AskExpired(k) PROVE MemoryInv'
  <2>1. \A e \in entries \ entries' : now - e.at > Ttl  BY <1>6 DEF AskExpired
  <2> QED  BY <1>1, <1>2, <1>6, <2>1, MemoryKept DEF AskExpired
<1>7. CASE UNCHANGED vars  BY <1>1, <1>2, <1>7, MemoryKept DEF vars
<1> QED  BY <1>3, <1>4, <1>5, <1>6, <1>7 DEF Next

\* The invariant holds in every behaviour.
LEMMA MemoryInvariant == Spec => []MemoryInv
<1>1. Init => MemoryInv
  <2> SUFFICES ASSUME Init PROVE MemoryInv  OBVIOUS
  <2>1. Failed = {} /\ IsFiniteSet({})  BY FS_EmptySet DEF Failed, Init
  <2>2. InOrder  BY <2>1 DEF InOrder
  <2>3. Remembers  BY DEF Remembers, FailedWithinTtl, Init
  <2> QED  BY <2>2, <2>3, CacheInit DEF MemoryInv
<1> QED  BY <1>1, MemoryStep, PTL DEF Spec

\* remember() and its eviction (negative_cache.py:93): the cache forgets no
\* failure before its time but for max_entries later ones.
THEOREM CacheRemembers == Spec => []Remembers
<1>1. MemoryInv => Remembers  BY DEF MemoryInv
<1> QED  BY <1>1, MemoryInvariant, PTL

-----------------------------------------------------------------------------
(* The cache at work. *)

\* What stands in for a proxy between its creation and the end of its check: while
\* its pass lasts, its address is attributed to whoever brought it.
Attributed(h) ==
  /\ h.addr \in Key /\ h.pass \in Nat /\ h.pass <= pass
  /\ h.pass = pass => h.addr \in unique /\ sourceOf[h.addr] = h.by

IntakeTypes ==
  /\ pass \in Nat /\ from \in Provider \cup {None}
  /\ todo \in [Loader -> SUBSET Candidate]
  /\ sourceOf \in [Key -> Provider \cup {None}]

CreditInv ==
  /\ IntakeTypes
  /\ \A a \in Key \ unique : sourceOf[a] = None
  /\ \A l \in Loader : hand[l].st = "waiting" => Attributed(hand[l])
  /\ \A c \in checks : Attributed(c)

\* It holds before the first pass.
LEMMA CreditInit == IntakeInit => CreditInv
<1> SUFFICES ASSUME IntakeInit PROVE CreditInv  OBVIOUS
<1>1. IntakeTypes
  BY IntakeAssumption DEF IntakeInit, IntakeTypes, Candidate, Address, Loader
<1>2. \A l \in Loader : hand[l].st # "waiting"  BY DEF IntakeInit, Idle
<1> QED  BY <1>1, <1>2 DEF IntakeInit, CreditInv

\* It holds when the loaders' hands and the checks in flight are those of
\* before, or ones it holds of already.
LEMMA CreditKept ==
  ASSUME CreditInv, IntakeTypes', UNCHANGED <<pass, unique, sourceOf>>,
         \A l \in Loader : hand'[l].st = "waiting" => hand'[l] = hand[l],
         \A c \in checks' : c \in checks \/ Attributed(c)
  PROVE  CreditInv'
<1>1. \A h : Attributed(h)' <=> Attributed(h)  BY DEF Attributed
<1> QED  BY <1>1 DEF CreditInv

\* It holds after a proxy was created, new to the pass or not.
LEMMA CreditCreated ==
  ASSUME CreditInv, NEW l \in Loader, NEW a \in Key, NEW c, NEW asked, Created(l, a, c, asked),
         UNCHANGED <<pass, from, checks>>, todo' \in [Loader -> SUBSET Candidate]
  PROVE  CreditInv'
<1> DEFINE h == [st |-> "waiting", addr |-> a, named |-> c \in Name, asked |-> asked,
                 by |-> Source(l), pass |-> pass]
<1>1. Source(l) \in Provider \cup {None}  BY DEF CreditInv, IntakeTypes, Source
<1>2. Noted(l, a) \in [Key -> Provider \cup {None}]
  BY <1>1 DEF CreditInv, IntakeTypes, Noted
<1>3. IntakeTypes'  BY <1>2 DEF Created, CreditInv, IntakeTypes
<1>4. CASE a \in unique
  <2>1. unique' = unique /\ sourceOf' = sourceOf  BY <1>4 DEF Created, Noted
  <2>2. hand' = [hand EXCEPT ![l] = Idle]  BY <1>4 DEF Created, Holds
  <2>3. \A m \in Loader : hand'[m].st = "waiting" => hand'[m] = hand[m]
    BY <2>2 DEF Idle
  <2> QED  BY <1>3, <2>1, <2>3, CreditKept
<1>5. CASE a \notin unique
  <2>1. unique' = unique \cup {a} /\ hand' = [hand EXCEPT ![l] = h]
    BY <1>5 DEF Created, Holds
  <2>2. sourceOf[a] = None  BY <1>5 DEF CreditInv
  <2>3. sourceOf'[a] = Source(l) /\ \A b \in Key : b # a => sourceOf'[b] = sourceOf[b]
    BY <1>5, <2>2 DEF Created, Noted, CreditInv, IntakeTypes
  <2>4. ASSUME NEW g, Attributed(g) PROVE Attributed(g)'
    BY <1>5, <2>1, <2>3, <2>4 DEF Attributed
  <2>5. ASSUME NEW g, g = h PROVE Attributed(g)'
    BY <2>1, <2>3, <2>5 DEF Attributed, CreditInv, IntakeTypes
  <2>6. \A m \in Loader : hand'[m].st = "waiting" =>
          hand'[m] = h \/ (hand[m].st = "waiting" /\ hand'[m] = hand[m])
    BY <2>1
  <2> HIDE DEF h
  <2>7. \A b \in Key \ unique' : sourceOf'[b] = None  BY <2>1, <2>3 DEF CreditInv
  <2>8. \A m \in Loader : hand'[m].st = "waiting" => Attributed(hand[m])'
    BY <2>4, <2>5, <2>6 DEF CreditInv
  <2>9. \A d \in checks' : Attributed(d)'  BY <2>4 DEF CreditInv
  <2> QED  BY <1>3, <2>7, <2>8, <2>9 DEF CreditInv
<1> QED  BY <1>4, <1>5

\* It is inductive.
LEMMA CreditStep == CreditInv /\ [IntakeNext]_intakeVars => CreditInv'
<1> SUFFICES ASSUME CreditInv, [IntakeNext]_intakeVars PROVE CreditInv'  OBVIOUS
<1> USE DEF Holds, Takes
<1>1. IntakeTypes  BY DEF CreditInv
<1>2. ASSUME NEW p \in Provider, Fetched(p) PROVE CreditInv'
  <2>1. Offer[p] \subseteq Candidate  BY IntakeAssumption
  <2>2. IntakeTypes'  BY <1>1, <1>2, <2>1 DEF Fetched, IntakeTypes, Loader
  <2> QED  BY <1>2, <2>2, CreditKept DEF Fetched
<1>3. CASE NextPass
  <2>1. IntakeTypes' /\ pass' = pass + 1  BY <1>1, <1>3 DEF NextPass, IntakeTypes
  <2>2. \A h : Attributed(h) => Attributed(h)'
    BY <1>1, <2>1 DEF Attributed, IntakeTypes
  <2> QED  BY <1>3, <2>1, <2>2 DEF NextPass, CreditInv
<1>4. ASSUME NEW l \in Loader, NEW c \in Candidate, Skip(l, c) PROVE CreditInv'
  <2>1. IntakeTypes'  BY <1>1, <1>4 DEF Skip, IntakeTypes
  <2> QED  BY <1>4, <2>1, CreditKept DEF Skip
<1>5. ASSUME NEW l \in Loader, NEW c \in Candidate, TakeAddress(l, c) PROVE CreditInv'
  <2>1. todo' \in [Loader -> SUBSET Candidate]  BY <1>1, <1>5 DEF TakeAddress, IntakeTypes
  <2>2. CASE c \in Garbage
    <3>1. IntakeTypes'  BY <1>1, <1>5, <2>1, <2>2 DEF TakeAddress, IntakeTypes
    <3> QED  BY <1>5, <2>2, <3>1, CreditKept DEF TakeAddress
  <2>3. CASE c \notin Garbage
    BY <1>5, <2>1, <2>3, CreditCreated DEF TakeAddress
  <2> QED  BY <2>2, <2>3
<1>6. ASSUME NEW l \in Loader, NEW c \in Candidate, TakeName(l, c) PROVE CreditInv'
  <2>1. IntakeTypes'  BY <1>1, <1>6 DEF TakeName, IntakeTypes
  <2>2. \A m \in Loader : hand'[m].st = "waiting" => hand'[m] = hand[m]
    BY <1>6 DEF TakeName
  <2> QED  BY <1>6, <2>1, <2>2, CreditKept DEF TakeName
<1>7. ASSUME NEW l \in Loader, NEW a \in Address, Resolved(l, a) PROVE CreditInv'
  BY <1>1, <1>7, CreditCreated DEF Resolved, Address, IntakeTypes
<1>8. ASSUME NEW l \in Loader, ResolveFails(l) PROVE CreditInv'
  <2>1. IntakeTypes'  BY <1>1, <1>8 DEF ResolveFails, IntakeTypes
  <2>2. \A m \in Loader : hand'[m].st = "waiting" => hand'[m] = hand[m]
    BY <1>8 DEF ResolveFails, Idle
  <2> QED  BY <1>8, <2>1, <2>2, CreditKept DEF ResolveFails
<1>9. ASSUME NEW l \in Loader, StartCheck(l) PROVE CreditInv'
  <2> DEFINE c == [addr |-> hand[l].addr, by |-> hand[l].by, pass |-> hand[l].pass]
  <2>1. checks' = checks \cup {c} /\ Attributed(hand[l])  BY <1>9 DEF StartCheck, CreditInv
  <2>2. Attributed(c)  BY <2>1 DEF Attributed
  <2>3. IntakeTypes'  BY <1>1, <1>9 DEF StartCheck, IntakeTypes
  <2>4. \A m \in Loader : hand'[m].st = "waiting" => hand'[m] = hand[m]
    BY <1>9 DEF StartCheck, Idle
  <2> HIDE DEF c
  <2> QED  BY <1>9, <2>1, <2>2, <2>3, <2>4, CreditKept DEF StartCheck
<1>10. ASSUME NEW c \in checks, CheckFails(c) \/ CheckPasses(c) PROVE CreditInv'
  <2>1. IntakeTypes'  BY <1>1, <1>10 DEF CheckFails, CheckPasses, IntakeTypes
  <2> QED  BY <1>10, <2>1, CreditKept DEF CheckFails, CheckPasses
<1>11. CASE TimePasses \/ UNCHANGED intakeVars
  <2>1. UNCHANGED intake  BY <1>11 DEF TimePasses, intakeVars
  <2>2. IntakeTypes'  BY <1>1, <2>1 DEF intake, IntakeTypes
  <2> QED  BY <2>1, <2>2, CreditKept DEF intake
<1> QED
  BY <1>2, <1>3, <1>4, <1>5, <1>6, <1>7, <1>8, <1>9, <1>10, <1>11 DEF IntakeNext

\* The attribution is right in every behaviour.
THEOREM CreditInvariant == IntakeSpec => []CreditInv
<1> QED  BY CreditInit, CreditStep, PTL DEF IntakeSpec

\* A proxy that passes while its pass lasts is to the credit of the provider that
\* brought it first (api.py:699), whatever duplicates come in between.
THEOREM CreditedToFirst == IntakeSpec => CreditedRight
<1>1. CreditInv /\ [IntakeNext]_intakeVars =>
        [\A c \in checks : CheckPasses(c) /\ c.pass = pass =>
           passed' = [p \in Provider |-> passed[p] + (IF p = c.by THEN 1 ELSE 0)]]_intakeVars
  <2> SUFFICES ASSUME CreditInv, NEW c \in checks, CheckPasses(c), c.pass = pass
               PROVE  passed' = [p \in Provider |-> passed[p] + (IF p = c.by THEN 1 ELSE 0)]
    OBVIOUS
  <2>1. sourceOf[c.addr] = c.by  BY DEF CreditInv, Attributed
  <2> QED  BY <2>1 DEF CheckPasses
<1> QED  BY <1>1, CreditInvariant, PTL DEF IntakeSpec, CreditedRight

\* Every step of the intake is one of the cache, or leaves it alone.
LEMMA IntakeSteps ==
  ASSUME CreditInv, [IntakeNext]_intakeVars
  PROVE  [Next]_vars
<1>1. ASSUME NEW c \in Candidate, NEW l \in Loader, TakeAddress(l, c) PROVE [Next]_vars
  BY <1>1 DEF TakeAddress, Asks, Next
<1>2. ASSUME NEW c \in checks, CheckFails(c) PROVE [Next]_vars
  BY <1>2 DEF CheckFails, Next, CreditInv, Attributed
<1> QED
  BY <1>1, <1>2 DEF IntakeNext, intakeVars, NextPass, TimePasses, Next, Fetched, ResolveFails,
     StartCheck, Resolved, Skip, TakeName, CheckPasses, vars

\* At work in the Broker (api.py:669, api.py:720) the cache is the cache: all that
\* was proved of it holds there.
THEOREM IntakeUsesCache == IntakeSpec => Spec
<1>1. IntakeInit => Init  BY DEF IntakeInit
<1>2. CreditInv /\ [IntakeNext]_intakeVars => [Next]_vars  BY IntakeSteps
<1> QED  BY <1>1, <1>2, CreditInvariant, PTL DEF IntakeSpec, Spec

\* A proxy that waits for its check was asked about when it was an address: if it
\* failed recently, that was later, or it was pushed out.
Answered(h) ==
  \/ h.named
  \/ /\ h.addr \in Key /\ h.asked \in Nat /\ h.asked <= serial
     /\ FailedWithinTtl(h.addr) => lastFail[h.addr].serial >= h.asked \/ PushedOut(h.addr)

AskedInv ==
  \A l \in Loader : /\ hand[l].st = "waiting" => Answered(hand[l])
                    /\ hand[l].st = "resolving" => hand[l].name \in Name

\* The answer stays as good as it was, whatever the cache does.
LEMMA AnswerStays ==
  ASSUME MemoryInv, [Next]_vars, NEW h, Answered(h)
  PROVE  Answered(h)'
<1>1. /\ serial \in Nat /\ now \in Nat /\ lastFail \in [Key -> [at : Int, serial : Int]]
      /\ Ttl \in Int
  BY CacheAssumption DEF MemoryInv, CacheInv, TypeOK
<1>2. CASE h.named  BY <1>2 DEF Answered
<1>3. CASE ~h.named /\ UNCHANGED <<lastFail, serial>> /\ now' \in Nat /\ now' >= now
  <2>1. h.addr \in Key /\ lastFail[h.addr].at \in Int  BY <1>1, <1>3 DEF Answered
  <2>2. FailedWithinTtl(h.addr)' => FailedWithinTtl(h.addr)
    BY <1>1, <1>3, <2>1 DEF FailedWithinTtl
  <2>3. PushedOut(h.addr)' <=> PushedOut(h.addr)  BY <1>3 DEF PushedOut, FailedSince, Cap
  <2> QED  BY <1>3, <2>2, <2>3 DEF Answered
<1>4. CASE ~h.named /\ clear
  <2>1. h.addr \in Key /\ ~FailedWithinTtl(h.addr)'
    BY <1>4 DEF clear, FailedWithinTtl, Answered
  <2> QED  BY <1>4, <2>1 DEF clear, Answered
<1>5. ASSUME ~h.named, NEW j \in Key, Remember(j) PROVE Answered(h)'
  <2>1. h.addr \in Key /\ h.asked \in Nat /\ h.asked <= serial  BY <1>5 DEF Answered
  <2>2. /\ lastFail' = [lastFail EXCEPT ![j] = [at |-> now, serial |-> serial]]
        /\ serial' = serial + 1 /\ now' = now
    BY <1>5 DEF Remember
  <2>3. CASE h.addr = j
    <3>1. lastFail'[j] = [at |-> now, serial |-> serial]  BY <1>1, <2>2
    <3>2. lastFail'[j].serial = serial  BY <3>1
    <3> QED  BY <1>1, <2>1, <2>2, <2>3, <3>2 DEF Answered
  <2>4. ASSUME h.addr # j, FailedWithinTtl(h.addr)'
        PROVE  lastFail'[h.addr].serial >= h.asked \/ PushedOut(h.addr)'
    <3>1. lastFail'[h.addr] = lastFail[h.addr]  BY <1>1, <2>2, <2>4
    <3>2. FailedWithinTtl(h.addr)  BY <2>2, <2>4, <3>1 DEF FailedWithinTtl
    <3>3. h.addr \in Failed \ {j}  BY <2>1, <2>4, <3>2 DEF Failed, FailedWithinTtl
    <3>4. PushedOut(h.addr) => PushedOut(h.addr)'
      BY <1>5, <3>3, PushedOutStays DEF MemoryInv
    <3> QED  BY <1>5, <3>1, <3>2, <3>4 DEF Answered
  <2>5. h.asked <= serial'  BY <1>1, <2>1, <2>2
  <2> QED  BY <2>1, <2>3, <2>4, <2>5 DEF Answered
<1>6. ASSUME NEW k \in Key, AskExpired(k) PROVE UNCHANGED <<lastFail, serial, now>>
  BY <1>6 DEF AskExpired
<1> QED  BY <1>1, <1>2, <1>3, <1>4, <1>5, <1>6 DEF Next, Tick, vars

\* It holds of an address that the cache was asked about in this step.
LEMMA AnswerIsGood ==
  ASSUME MemoryInv, NEW c \in Key, Asks(c), NEW h, h.addr = c, h.asked = serial
  PROVE  Answered(h)'
<1>1. serial \in Nat /\ UNCHANGED <<serial, lastFail, now>>
  BY DEF Asks, AskExpired, vars, MemoryInv, CacheInv, TypeOK
<1>2. CASE AskExpired(c)
  <2>1. PICK e \in entries : e.key = c /\ now - e.at > Ttl  BY <1>2 DEF AskExpired
  <2>2. lastFail[c] = [at |-> e.at, serial |-> e.serial] /\ e.at \in Nat
    BY <2>1 DEF MemoryInv, CacheInv, EntriesCurrent, TypeOK, Entry
  <2>3. lastFail[c].at = e.at  BY <2>2
  <2>4. ~FailedWithinTtl(c)'
    BY <1>1, <2>1, <2>2, <2>3, CacheAssumption
    DEF FailedWithinTtl, MemoryInv, CacheInv, TypeOK
  <2> QED  BY <1>1, <2>4 DEF Answered
<1>3. CASE UNCHANGED vars /\ \A e \in entries : e.key # c
  <2>1. FailedWithinTtl(c) => PushedOut(c)  BY <1>3 DEF MemoryInv, Remembers
  <2>2. FailedWithinTtl(c)' <=> FailedWithinTtl(c)  BY <1>1 DEF FailedWithinTtl
  <2>3. PushedOut(c)' <=> PushedOut(c)  BY <1>1 DEF PushedOut, FailedSince, Cap
  <2> QED  BY <1>1, <2>1, <2>2, <2>3 DEF Answered
<1> QED  BY <1>2, <1>3 DEF Asks

\* The answers are good in every behaviour.
LEMMA AskedStep == MemoryInv /\ CreditInv /\ AskedInv /\ [IntakeNext]_intakeVars => AskedInv'
<1> SUFFICES ASSUME MemoryInv, CreditInv, AskedInv, [IntakeNext]_intakeVars PROVE AskedInv'
  OBVIOUS
<1>1. [Next]_vars  BY IntakeSteps
<1>2. \A h : Answered(h) => Answered(h)'  BY <1>1, AnswerStays
<1>3. ASSUME \A m \in Loader : hand'[m].st \in {"waiting", "resolving"} => hand'[m] = hand[m]
      PROVE  AskedInv'
  BY <1>2, <1>3 DEF AskedInv
<1>4. ASSUME NEW l \in Loader, NEW h,
             hand' = [hand EXCEPT ![l] = h],
             h.st = "waiting" => Answered(h)', h.st = "resolving" => h.name \in Name
      PROVE  AskedInv'
  BY <1>2, <1>4 DEF AskedInv
<1>5. ASSUME NEW l \in Loader, NEW c \in Candidate, TakeAddress(l, c) PROVE AskedInv'
  <2>1. c \in Key /\ Asks(c)  BY <1>5 DEF TakeAddress
  <2>2. CASE c \in Garbage  BY <1>3, <1>5, <2>2 DEF TakeAddress
  <2>3. CASE c \notin Garbage /\ c \in unique
    BY <1>4, <1>5, <2>3 DEF TakeAddress, Created, Holds, Idle
  <2>4. CASE c \notin Garbage /\ c \notin unique
    <3>1. PICK h : /\ h = [st |-> "waiting", addr |-> c, named |-> c \in Name,
                            asked |-> serial, by |-> Source(l), pass |-> pass]
                   /\ hand' = [hand EXCEPT ![l] = h]
      BY <1>5, <2>4 DEF TakeAddress, Created, Holds
    <3>2. h.addr = c /\ h.asked = serial /\ h.st = "waiting"  BY <3>1
    <3>3. Answered(h)'  BY <2>1, <3>2, AnswerIsGood
    <3> QED  BY <1>4, <3>1, <3>2, <3>3
  <2> QED  BY <2>2, <2>3, <2>4
<1>6. ASSUME NEW l \in Loader, NEW c \in Candidate, TakeName(l, c) PROVE AskedInv'
  BY <1>4, <1>6 DEF TakeName, Holds
<1>7. ASSUME NEW l \in Loader, NEW a \in Address, Resolved(l, a) PROVE AskedInv'
  <2>1. hand[l].name \in Name  BY <1>7 DEF Resolved, AskedInv
  <2>2. CASE a \in unique  BY <1>4, <1>7, <2>2 DEF Resolved, Created, Holds, Idle
  <2>3. CASE a \notin unique
    <3>1. PICK h : /\ h = [st |-> "waiting", addr |-> a, named |-> hand[l].name \in Name,
                            asked |-> hand[l].asked, by |-> Source(l), pass |-> pass]
                   /\ hand' = [hand EXCEPT ![l] = h]
      BY <1>7, <2>3 DEF Resolved, Created, Holds
    <3>2. h.named /\ h.st = "waiting"  BY <2>1, <3>1
    <3>3. Answered(h)'  BY <3>2 DEF Answered
    <3> QED  BY <1>4, <3>1, <3>2, <3>3
  <2> QED  BY <2>2, <2>3
<1>8. ASSUME NEW l \in Loader, ResolveFails(l) \/ StartCheck(l) PROVE AskedInv'
  BY <1>4, <1>8 DEF ResolveFails, StartCheck, Holds, Idle
<1>9. ASSUME NEW l \in Loader, NEW c \in Candidate, Skip(l, c) PROVE AskedInv'
  BY <1>3, <1>9 DEF Skip
<1>10. ASSUME NEW c \in checks, CheckFails(c) \/ CheckPasses(c) PROVE AskedInv'
  BY <1>3, <1>10 DEF CheckFails, CheckPasses
<1>11. ASSUME NEW p \in Provider, Fetched(p) PROVE AskedInv'
  BY <1>3, <1>11 DEF Fetched
<1>12. CASE NextPass \/ TimePasses \/ UNCHANGED intakeVars
  BY <1>3, <1>12 DEF NextPass, TimePasses, intakeVars, intake
<1> QED
  BY <1>5, <1>6, <1>7, <1>8, <1>9, <1>10, <1>11, <1>12 DEF IntakeNext

\* _handle() and is_known_dead() (api.py:669): however checks, passes and the
\* cache interleave, an address that failed within ttl is checked again only for
\* one of the reasons that Excused lists.
THEOREM NotCheckedAgain == IntakeSpec => NoRecheck
<1>1. IntakeInit => AskedInv  BY DEF IntakeInit, AskedInv, Idle
<1>2. AskedInv /\ [IntakeNext]_intakeVars =>
        [\A l \in Loader :
           StartCheck(l) /\ FailedWithinTtl(hand[l].addr) => Excused(hand[l])]_intakeVars
  BY DEF AskedInv, Answered, StartCheck, Excused, PushedOut
<1> QED
  BY <1>1, <1>2, AskedStep, CreditInvariant, IntakeUsesCache, MemoryInvariant, PTL
  DEF IntakeSpec, NoRecheck
=============================================================================
