-------------------------- MODULE ProxyServerProofs ---------------------------
(* Theorems about ProxyServer for any number of proxies and connections. *)
EXTENDS ProxyServer, SequenceTheorems, FiniteSetTheorems, TLAPS

-----------------------------------------------------------------------------
(* Queues that hold a proxy at most once.  None may be in one repeatedly. *)

In(s, x) == \E i \in DOMAIN s : s[i] = x
Once(s) == \A i, j \in DOMAIN s : s[i] = s[j] /\ s[i] # None => i = j

\* Appending adds the element.
LEMMA AppendIn ==
  ASSUME NEW S, NEW s \in Seq(S), NEW x \in S
  PROVE  /\ Append(s, x) \in Seq(S)
         /\ \A y : In(Append(s, x), y) <=> In(s, y) \/ y = x
         /\ Once(s) /\ ~In(s, x) => Once(Append(s, x))
         /\ Once(s) /\ x = None => Once(Append(s, x))
<1> DEFINE a == Append(s, x)
<1>1. a \in Seq(S) /\ Len(a) = Len(s) + 1 /\ (\A i \in 1..Len(s) : a[i] = s[i])
      /\ a[Len(s) + 1] = x
  BY AppendProperties
<1>2. DOMAIN a = 1..Len(s) + 1 /\ DOMAIN s = 1..Len(s) /\ Len(s) \in Nat
  BY <1>1, LenProperties
<1> HIDE DEF a
<1>3. \A i \in DOMAIN a : i \in DOMAIN s \/ i = Len(s) + 1  BY <1>2
<1>4. \A y : In(a, y) <=> In(s, y) \/ y = x
  <2>1. \A i \in DOMAIN s : i \in DOMAIN a /\ a[i] = s[i]  BY <1>1, <1>2
  <2>2. Len(s) + 1 \in DOMAIN a  BY <1>2
  <2> QED  BY <1>1, <1>3, <2>1, <2>2 DEF In
<1>5. ASSUME Once(s), ~In(s, x) \/ x = None PROVE Once(a)
  <2>1. \A i \in DOMAIN s : a[i] = s[i]  BY <1>1, <1>2
  <2>2. \A i \in DOMAIN s : s[i] = x => x = None  BY <1>5 DEF In
  <2> QED  BY <1>1, <1>3, <1>5, <2>1, <2>2 DEF Once
<1> QED  BY <1>1, <1>4, <1>5 DEF a

\* Taking the head off removes it.
LEMMA TailIn ==
  ASSUME NEW S, NEW s \in Seq(S), s # <<>>
  PROVE  /\ Tail(s) \in Seq(S) /\ Head(s) \in S /\ In(s, Head(s))
         /\ Once(s) => Once(Tail(s))
         /\ Once(s) => \A y : y # None => (In(Tail(s), y) <=> In(s, y) /\ y # Head(s))
<1> DEFINE t == Tail(s)
<1>1. t \in Seq(S) /\ Head(s) \in S /\ Len(t) = Len(s) - 1 /\ \A i \in 1..Len(t) : t[i] = s[i + 1]
  BY HeadTailProperties
<1>2. DOMAIN t = 1..Len(s) - 1 /\ DOMAIN s = 1..Len(s) /\ Len(s) \in Nat
  BY <1>1, LenProperties
<1>3. Len(s) # 0 /\ Head(s) = s[1]  BY EmptySeq
<1> HIDE DEF t
<1>4. \A i \in DOMAIN t : i + 1 \in DOMAIN s /\ i + 1 # 1 /\ t[i] = s[i + 1]
  BY <1>1, <1>2
<1>5. 1 \in DOMAIN s  BY <1>2, <1>3
<1>6. \A j \in DOMAIN s : j = 1 \/ (j - 1 \in DOMAIN t /\ t[j - 1] = s[j])
  <2> TAKE j \in DOMAIN s
  <2>1. j \in Nat /\ j >= 1 /\ j <= Len(s)  BY <1>2
  <2>2. j # 1 => j - 1 \in 1..Len(s) - 1 /\ (j - 1) + 1 = j  BY <1>2, <2>1
  <2> QED  BY <1>1, <1>2, <2>2
<1>7. ASSUME Once(s) PROVE Once(t)
  <2> SUFFICES ASSUME NEW i \in DOMAIN t, NEW j \in DOMAIN t, t[i] = t[j], t[i] # None
               PROVE  i = j
    BY DEF Once
  <2>1. i + 1 = j + 1  BY <1>4, <1>7 DEF Once
  <2> QED  BY <1>2, <2>1
<1>8. ASSUME Once(s), NEW y, y # None PROVE In(t, y) <=> In(s, y) /\ y # Head(s)
  <2>1. ASSUME NEW i \in DOMAIN t, t[i] = y PROVE In(s, y) /\ y # Head(s)
    <3>1. s[i + 1] = y /\ i + 1 \in DOMAIN s /\ i + 1 # 1  BY <1>4, <2>1
    <3>2. s[1] # y  BY <1>5, <1>8, <3>1 DEF Once
    <3> QED  BY <1>3, <3>1, <3>2 DEF In
  <2>2. ASSUME NEW j \in DOMAIN s, s[j] = y, y # Head(s) PROVE In(t, y)
    BY <1>3, <1>6, <2>2 DEF In
  <2> QED  BY <2>1, <2>2 DEF In
<1>9. In(s, Head(s))  BY <1>3, <1>5 DEF In
<1> QED  BY <1>1, <1>7, <1>8, <1>9 DEF t

\* Removing a position removes the element.
LEMMA RemoveAtIn ==
  ASSUME NEW S, NEW s \in Seq(S), NEW i \in DOMAIN s, Once(s), s[i] # None
  PROVE  /\ RemoveAt(s, i) \in Seq(S)
         /\ Once(RemoveAt(s, i))
         /\ \A y : y # None => (In(RemoveAt(s, i), y) <=> In(s, y) /\ y # s[i])
<1> DEFINE r == RemoveAt(s, i)
           a == SubSeq(s, 1, i - 1)
           b == SubSeq(s, i + 1, Len(s))
<1>1. DOMAIN s = 1..Len(s) /\ Len(s) \in Nat /\ \A k \in 1..Len(s) : s[k] \in S
  BY LenProperties, ElementOfSeq
<1>2. i \in Nat /\ i >= 1 /\ i <= Len(s)  BY <1>1
<1>3. a \in Seq(S) /\ Len(a) = i - 1 /\ \A k \in 1..i - 1 : a[k] = s[k]
  <2>1. \A k \in 1..i - 1 : s[k] \in S  BY <1>1, <1>2
  <2>2. a \in Seq(S) /\ Len(a) = (IF 1 <= i - 1 THEN (i - 1) - 1 + 1 ELSE 0)
        /\ \A k \in 1..(i - 1) - 1 + 1 : a[k] = s[1 + k - 1]
    BY <1>2, <2>1, SubSeqProperties
  <2> QED  BY <1>2, <2>2
<1>4. b \in Seq(S) /\ Len(b) = Len(s) - i /\ \A k \in 1..Len(s) - i : b[k] = s[i + k]
  <2>1. \A k \in i + 1..Len(s) : s[k] \in S  BY <1>1, <1>2
  <2>2. b \in Seq(S) /\ Len(b) = (IF i + 1 <= Len(s) THEN Len(s) - (i + 1) + 1 ELSE 0)
        /\ \A k \in 1..Len(s) - (i + 1) + 1 : b[k] = s[(i + 1) + k - 1]
    BY <1>1, <1>2, <2>1, SubSeqProperties
  <2> QED  BY <1>1, <1>2, <2>2
<1> HIDE DEF a, b
<1>5. r = a \o b  BY DEF RemoveAt, a, b
<1> HIDE DEF r
<1>6. r \in Seq(S) /\ Len(r) = Len(s) - 1
      /\ \A k \in 1..Len(s) - 1 : r[k] = IF k <= i - 1 THEN a[k] ELSE b[k - (i - 1)]
  <2>1. a \o b \in Seq(S) /\ Len(a \o b) = Len(a) + Len(b)
        /\ \A k \in 1..Len(a) + Len(b) : (a \o b)[k] = IF k <= Len(a) THEN a[k] ELSE b[k - Len(a)]
    BY <1>3, <1>4, ConcatProperties
  <2>2. Len(a) + Len(b) = Len(s) - 1  BY <1>1, <1>2, <1>3, <1>4
  <2> QED  BY <1>3, <1>5, <2>1, <2>2
<1> DEFINE old(k) == IF k < i THEN k ELSE k + 1
<1>7. DOMAIN r = 1..Len(s) - 1  BY <1>6, LenProperties
<1>8. ASSUME NEW k \in DOMAIN r
      PROVE  old(k) \in DOMAIN s /\ old(k) # i /\ r[k] = s[old(k)]
  <2>1. k \in Nat /\ k >= 1 /\ k <= Len(s) - 1  BY <1>1, <1>7
  <2>2. CASE k < i
    <3>1. k \in 1..i - 1 /\ k <= i - 1  BY <1>2, <2>1, <2>2
    <3> QED  BY <1>1, <1>2, <1>3, <1>6, <1>7, <2>1, <2>2, <3>1
  <2>3. CASE ~(k < i)
    <3>1. k - (i - 1) \in 1..Len(s) - i /\ i + (k - (i - 1)) = k + 1 /\ ~(k <= i - 1)
      BY <1>1, <1>2, <2>1, <2>3
    <3>2. r[k] = b[k - (i - 1)]  BY <1>6, <1>7, <3>1
    <3>3. r[k] = s[k + 1]  BY <1>4, <3>1, <3>2
    <3> QED  BY <1>1, <1>2, <2>1, <2>3, <3>3
  <2> QED  BY <2>2, <2>3
<1>9. \A k, m \in DOMAIN r : old(k) = old(m) => k = m  BY <1>1, <1>2, <1>7
<1>10. ASSUME NEW j \in DOMAIN s, j # i PROVE \E k \in DOMAIN r : old(k) = j
  <2>1. j \in Nat /\ j >= 1 /\ j <= Len(s)  BY <1>1
  <2>2. CASE j < i
    <3>1. j \in DOMAIN r /\ old(j) = j  BY <1>1, <1>2, <1>7, <2>1, <2>2
    <3> QED  BY <3>1
  <2>3. CASE ~(j < i)
    <3>1. j - 1 \in DOMAIN r /\ old(j - 1) = j  BY <1>1, <1>2, <1>7, <1>10, <2>1, <2>3
    <3> QED  BY <3>1
  <2> QED  BY <2>2, <2>3
<1> HIDE DEF old
<1>11. Once(r)  BY <1>8, <1>9 DEF Once
<1>12. ASSUME NEW y, y # None PROVE In(r, y) <=> In(s, y) /\ y # s[i]
  <2>1. In(r, y) => In(s, y) /\ y # s[i]  BY <1>8, <1>12 DEF In, Once
  <2>2. ASSUME In(s, y), y # s[i] PROVE In(r, y)
    <3>1. PICK j \in DOMAIN s : s[j] = y  BY <2>2 DEF In
    <3>2. PICK k \in DOMAIN r : old(k) = j  BY <1>10, <2>2, <3>1
    <3> QED  BY <1>8, <3>1, <3>2 DEF In
  <2> QED  BY <2>1, <2>2
<1> QED  BY <1>6, <1>11, <1>12 DEF r

-----------------------------------------------------------------------------
(* Where a proxy is. *)

InSupply(p) == In(supply, p)
IsNewcomer(p) == In(newcomers, p)
Pooled(p) == \E e \in pool : e.proxy = p
Held(p) == \E c \in Client : handler[c].proxy = p
Lost(p) == gone[p] # "no"

\* A proxy that an exception cost was the last of the connection it ended.
Traced ==
  \A p \in Proxy : gone[p] \in {"protoError", "decodeError"} =>
    \E c \in Client : handler[c].st = gone[p]

\* A delivered proxy is in exactly one place, any other in none.
Placed(p) ==
  /\ p \in delivered <=> InSupply(p) \/ IsNewcomer(p) \/ Pooled(p) \/ Held(p) \/ Lost(p)
  /\ InSupply(p) => ~IsNewcomer(p) /\ ~Pooled(p) /\ ~Held(p) /\ ~Lost(p)
  /\ IsNewcomer(p) => ~Pooled(p) /\ ~Held(p) /\ ~Lost(p)
  /\ Pooled(p) => ~Held(p) /\ ~Lost(p)
  /\ Held(p) => ~Lost(p)

\* No place holds it twice.
NoDuplicates ==
  /\ Once(supply) /\ Once(newcomers)
  /\ \A e, f \in pool : e.proxy = f.proxy => e = f
  /\ \A c, d \in Client : handler[c].proxy = handler[d].proxy /\ handler[c].proxy # None => c = d

\* A handler holds a proxy while it uses it, and has a try left until it ends.
HandlersSound ==
  \A c \in Client :
    /\ Using(c) <=> handler[c].proxy # None
    /\ handler[c].st \in {"idle"} \cup Busy => handler[c].tries < MaxTries
    /\ handler[c].st = "import" => handler[c].retries < MaxImportRetries

ServerInv ==
  TypeOK /\ HandlersSound /\ NoDuplicates /\ PoolIsCurrent /\ \A p \in Proxy : Placed(p)

\* The invariant implies what it is for.
LEMMA PlacedIsCustody == ServerInv /\ Traced => Custody
<1> SUFFICES ASSUME ServerInv, NEW p \in Proxy
             PROVE  Cardinality(Holders(p)) = IF p \in delivered THEN 1 ELSE 0
  BY DEF Custody, Traced
<1>1. p # None  BY PoolAssumption
<1>2. Placed(p) /\ NoDuplicates /\ TypeOK /\ HandlersSound  BY DEF ServerInv
<1> DEFINE S1 == {<<"supply", i>> : i \in {i \in DOMAIN supply : supply[i] = p}}
           S2 == {<<"newcomers", i>> : i \in {i \in DOMAIN newcomers : newcomers[i] = p}}
           S3 == {<<"pool", e.time>> : e \in {e \in pool : e.proxy = p}}
           S4 == {<<"client", c>> : c \in {c \in Client : Using(c) /\ handler[c].proxy = p}}
           S5 == IF gone[p] = "no" THEN {} ELSE {<<"gone", 0>>}
<1>3. Holders(p) = S1 \cup S2 \cup S3 \cup S4 \cup S5  BY DEF Holders
<1>4. (InSupply(p) => \E x : S1 = {x}) /\ (~InSupply(p) => S1 = {})
  <2>1. \A i, j \in DOMAIN supply : supply[i] = p /\ supply[j] = p => i = j
    BY <1>1, <1>2 DEF NoDuplicates, Once
  <2>2. ASSUME NEW i \in DOMAIN supply, supply[i] = p PROVE S1 = {<<"supply", i>>}
    BY <2>1, <2>2
  <2>3. InSupply(p) => \E x : S1 = {x}  BY <2>2 DEF InSupply, In
  <2>4. ~InSupply(p) => S1 = {}  BY DEF InSupply, In
  <2> QED  BY <2>3, <2>4
<1>5. (IsNewcomer(p) => \E x : S2 = {x}) /\ (~IsNewcomer(p) => S2 = {})
  <2>1. \A i, j \in DOMAIN newcomers : newcomers[i] = p /\ newcomers[j] = p => i = j
    BY <1>1, <1>2 DEF NoDuplicates, Once
  <2>2. ASSUME NEW i \in DOMAIN newcomers, newcomers[i] = p PROVE S2 = {<<"newcomers", i>>}
    BY <2>1, <2>2
  <2>3. IsNewcomer(p) => \E x : S2 = {x}  BY <2>2 DEF IsNewcomer, In
  <2>4. ~IsNewcomer(p) => S2 = {}  BY DEF IsNewcomer, In
  <2> QED  BY <2>3, <2>4
<1>6. (Pooled(p) => \E x : S3 = {x}) /\ (~Pooled(p) => S3 = {})
  <2>1. ASSUME NEW e \in pool, e.proxy = p PROVE S3 = {<<"pool", e.time>>}
    BY <1>2, <2>1 DEF NoDuplicates
  <2>2. Pooled(p) => \E x : S3 = {x}  BY <2>1 DEF Pooled
  <2>3. ~Pooled(p) => S3 = {}  BY DEF Pooled
  <2> QED  BY <2>2, <2>3
<1>7. (Held(p) => \E x : S4 = {x}) /\ (~Held(p) => S4 = {})
  <2>1. ASSUME NEW c \in Client, handler[c].proxy = p PROVE S4 = {<<"client", c>>}
    <3>1. Using(c)  BY <1>1, <1>2, <2>1 DEF HandlersSound
    <3> QED  BY <1>1, <1>2, <2>1, <3>1 DEF NoDuplicates
  <2>2. Held(p) => \E x : S4 = {x}  BY <2>1 DEF Held
  <2>3. ~Held(p) => S4 = {}  BY DEF Held
  <2> QED  BY <2>2, <2>3
<1>8. (Lost(p) => \E x : S5 = {x}) /\ (~Lost(p) => S5 = {})  BY DEF Lost
<1> HIDE DEF S1, S2, S3, S4, S5
<1>9. CASE p \in delivered
  <2>1. \E x : Holders(p) = {x}  BY <1>2, <1>3, <1>4, <1>5, <1>6, <1>7, <1>8, <1>9 DEF Placed
  <2> QED  BY <1>9, <2>1, FS_Singleton
<1>10. CASE p \notin delivered
  <2>1. Holders(p) = {}  BY <1>2, <1>3, <1>4, <1>5, <1>6, <1>7, <1>8, <1>10 DEF Placed
  <2> QED  BY <1>10, <2>1, FS_EmptySet
<1> QED  BY <1>9, <1>10

-----------------------------------------------------------------------------
(* The moves. *)

Stays(q) ==
  /\ InSupply(q)' <=> InSupply(q)
  /\ IsNewcomer(q)' <=> IsNewcomer(q)
  /\ Pooled(q)' <=> Pooled(q)
  /\ Held(q)' <=> Held(q)
  /\ Lost(q)' <=> Lost(q)
  /\ q \in delivered' <=> q \in delivered

\* A proxy that stays where it is is placed as before.
LEMMA StaysPlaced ==
  ASSUME NEW q \in Proxy, Placed(q), Stays(q)
  PROVE  Placed(q)'
BY DEF Placed, Stays

\* A step that moves nothing keeps the invariant, but for types and handlers.
LEMMA NothingMoves ==
  ASSUME ServerInv, TypeOK', HandlersSound',
         Once(supply)', \A q \in Proxy : InSupply(q)' <=> InSupply(q),
         UNCHANGED <<newcomers, pool, grade, time, gone, delivered>>,
         \A c \in Client : handler'[c].proxy = handler[c].proxy
  PROVE  ServerInv'
<1>1. NoDuplicates'  BY DEF ServerInv, NoDuplicates
<1>2. PoolIsCurrent'  BY DEF ServerInv, PoolIsCurrent
<1>3. \A q \in Proxy : Stays(q)
  BY DEF Stays, IsNewcomer, Pooled, Held, Lost
<1>4. \A q \in Proxy : Placed(q)'  BY <1>3, StaysPlaced DEF ServerInv
<1> QED  BY <1>1, <1>2, <1>4 DEF ServerInv

\* The types of a handler's record.
LEMMA HandlerTypes ==
  ASSUME ServerInv, NEW c \in Client
  PROVE  /\ handler \in [Client -> Handler] /\ handler[c] \in Handler
         /\ handler[c].st \in {"idle"} \cup Busy \cup Ended
         /\ handler[c].scheme \in Scheme \cup {None}
         /\ handler[c].proxy \in Proxy \cup {None}
         /\ handler[c].tries \in 0..MaxTries
         /\ handler[c].retries \in 0..MaxImportRetries
         /\ MaxTries \in Nat \ {0} /\ MaxImportRetries \in Nat \ {0}
         /\ Client # {} /\ None \notin Proxy
BY ServerAssumption, PoolAssumption DEF ServerInv, TypeOK, Handler

\* The handlers are sound if all but one are as before and that one is.
LEMMA OneHandler ==
  ASSUME ServerInv, NEW c \in Client, handler' \in [Client -> Handler],
         \A d \in Client : d # c => handler'[d] = handler[d],
         handler'[c].st \in {"use", "cancelling"} <=> handler'[c].proxy # None,
         handler'[c].st \in {"idle"} \cup Busy => handler'[c].tries < MaxTries,
         handler'[c].st = "import" => handler'[c].retries < MaxImportRetries
  PROVE  HandlersSound'
BY DEF ServerInv, HandlersSound, Using

\* What becomes of a handler that was given a proxy, and of the proxy.
LEMMA ChooseMoves ==
  ASSUME ServerInv, NEW c \in Client, NEW p \in Proxy, Choose(c, p),
         handler[c].st \in {"get", "import"}, ~Held(p)
  PROVE  /\ handler' \in [Client -> Handler] /\ HandlersSound'
         /\ gone' \in [Proxy -> Gone]
         /\ \A d, e \in Client :
              handler'[d].proxy = handler'[e].proxy /\ handler'[d].proxy # None => d = e
         /\ \A q \in Proxy :
              /\ q # p => (Held(q)' <=> Held(q)) /\ (Lost(q)' <=> Lost(q))
              /\ Held(p)' \/ Lost(p)'
              /\ ~Lost(p) => ~(Held(p)' /\ Lost(p)')
<1>1. /\ handler \in [Client -> Handler] /\ handler[c] \in Handler
      /\ handler[c].proxy = None /\ handler[c].tries < MaxTries /\ p # None
      /\ gone \in [Proxy -> Gone]
  BY HandlerTypes DEF ServerInv, HandlersSound, Using, Busy, TypeOK
<1>2. CASE handler[c].scheme \in Schemes[p]
  <2> DEFINE r == [handler[c] EXCEPT !.st = "use", !.proxy = p]
  <2>1. handler' = [handler EXCEPT ![c] = r] /\ gone' = gone  BY <1>1, <1>2 DEF Choose
  <2>2. r \in Handler /\ r.st = "use" /\ r.proxy = p /\ r.tries = handler[c].tries
    BY <1>1 DEF Handler, Busy
  <2> HIDE DEF r
  <2>3. handler' \in [Client -> Handler] /\ handler'[c] = r
        /\ \A d \in Client : d # c => handler'[d] = handler[d]
    BY <1>1, <2>1, <2>2
  <2>4. HandlersSound'  BY <1>1, <2>2, <2>3, OneHandler
  <2>5. \A d \in Client : d # c => handler'[d].proxy # p  BY <2>3 DEF Held
  <2>6. \A d, e \in Client :
          handler'[d].proxy = handler'[e].proxy /\ handler'[d].proxy # None => d = e
    BY <2>2, <2>3, <2>5 DEF ServerInv, NoDuplicates
  <2>7. \A q \in Proxy : q # p => (Held(q)' <=> Held(q))
    BY <1>1, <2>2, <2>3, HandlerTypes DEF Held
  <2>8. Held(p)'  BY <2>2, <2>3 DEF Held
  <2>9. \A q \in Proxy : Lost(q)' <=> Lost(q)  BY <2>1 DEF Lost
  <2> QED  BY <1>1, <2>1, <2>3, <2>4, <2>6, <2>7, <2>8, <2>9
<1>3. CASE handler[c].scheme \notin Schemes[p]
  <2> DEFINE r == [handler[c] EXCEPT !.st = "protoError"]
  <2>1. handler' = [handler EXCEPT ![c] = r] /\ gone' = [gone EXCEPT ![p] = "protoError"]
    BY <1>1, <1>3 DEF Choose
  <2>2. r \in Handler /\ r.st = "protoError" /\ r.proxy = None
    BY <1>1 DEF Handler, Ended
  <2> HIDE DEF r
  <2>3. handler' \in [Client -> Handler] /\ handler'[c] = r
        /\ \A d \in Client : d # c => handler'[d] = handler[d]
    BY <1>1, <2>1, <2>2
  <2>4. HandlersSound'  BY <2>2, <2>3, OneHandler DEF Busy
  <2>5. \A d \in Client : handler'[d].proxy = handler[d].proxy  BY <1>1, <2>2, <2>3
  <2>6. \A q \in Proxy : Held(q)' <=> Held(q)  BY <2>5 DEF Held
  <2>7. gone' \in [Proxy -> Gone] /\ gone'[p] = "protoError"
        /\ \A q \in Proxy : q # p => gone'[q] = gone[q]
    BY <1>1, <2>1 DEF Gone, Loss
  <2>8. Lost(p)' /\ \A q \in Proxy : q # p => (Lost(q)' <=> Lost(q))  BY <2>7 DEF Lost
  <2>9. \A d, e \in Client :
          handler'[d].proxy = handler'[e].proxy /\ handler'[d].proxy # None => d = e
    BY <2>5 DEF ServerInv, NoDuplicates
  <2> QED  BY <2>3, <2>4, <2>6, <2>7, <2>8, <2>9
<1> QED  BY <1>2, <1>3

\* What put() does with a proxy that is nowhere in the pool.
LEMMA PutMoves ==
  ASSUME ServerInv, NEW p \in Proxy, NEW g \in Grade, NEW t \in Times, Put(p, g, t),
         ~IsNewcomer(p), ~Pooled(p), ~Lost(p)
  PROVE  /\ newcomers' \in Seq(Proxy) /\ pool' \subseteq Entry
         /\ grade' \in [Proxy -> Grade] /\ time' \in [Proxy -> Times]
         /\ gone' \in [Proxy -> Gone]
         /\ Once(newcomers') /\ \A e, f \in pool' : e.proxy = f.proxy => e = f
         /\ PoolIsCurrent'
         /\ IsNewcomer(p)' \/ Pooled(p)' \/ Lost(p)'
         /\ IsNewcomer(p)' => ~Pooled(p)' /\ ~Lost(p)'
         /\ Pooled(p)' => ~Lost(p)'
         /\ \A q \in Proxy : q # p =>
              /\ IsNewcomer(q)' <=> IsNewcomer(q)
              /\ Pooled(q)' <=> Pooled(q)
              /\ Lost(q)' <=> Lost(q)
<1> DEFINE x == [time |-> t, proxy |-> p]
<1>1. /\ newcomers \in Seq(Proxy) /\ pool \subseteq Entry
      /\ grade \in [Proxy -> Grade] /\ time \in [Proxy -> Times]
      /\ gone \in [Proxy -> Gone]
      /\ Once(newcomers) /\ PoolIsCurrent
  BY DEF ServerInv, TypeOK, NoDuplicates
<1>2. grade' = [grade EXCEPT ![p] = g] /\ time' = [time EXCEPT ![p] = t]  BY DEF Put
<1>3. newcomers' = IF g = "new" THEN Append(newcomers, p) ELSE newcomers  BY DEF Put
<1>4. pool' = IF g = "good" THEN pool \cup {x} ELSE pool  BY DEF Put
<1>5. gone' = IF g = "bad" THEN [gone EXCEPT ![p] = "discarded"] ELSE gone  BY DEF Put
<1>6. x \in Entry /\ x.time = t /\ x.proxy = p  BY DEF Entry
<1> HIDE DEF x
<1>7. newcomers' \in Seq(Proxy) /\ Once(newcomers')
      /\ \A q \in Proxy : In(newcomers', q) <=> In(newcomers, q) \/ (q = p /\ g = "new")
  BY <1>1, <1>3, AppendIn DEF IsNewcomer
<1>8. \A e \in pool' : e \in pool \/ (e = x /\ g = "good")  BY <1>4
<1>9. \A e \in pool : e \in pool' /\ e.proxy # p  BY <1>4 DEF Pooled
<1>10. \A e, f \in pool' : e.proxy = f.proxy => e = f
  BY <1>6, <1>8, <1>9 DEF ServerInv, NoDuplicates
<1>11. \A q \in Proxy : Pooled(q)' <=> Pooled(q) \/ (q = p /\ g = "good")
  BY <1>4, <1>6 DEF Pooled
<1>12. /\ grade' \in [Proxy -> Grade] /\ time' \in [Proxy -> Times]
       /\ grade'[p] = g /\ time'[p] = t
       /\ \A q \in Proxy : q # p => grade'[q] = grade[q] /\ time'[q] = time[q]
  BY <1>1, <1>2
<1>13. gone' \in [Proxy -> Gone]
       /\ \A q \in Proxy : gone'[q] # "no" <=> gone[q] # "no" \/ (q = p /\ g = "bad")
  BY <1>1, <1>5 DEF Gone
<1>14. PoolIsCurrent'
  <2>1. \A e \in pool' : time'[e.proxy] = e.time /\ grade'[e.proxy] = "good"
    BY <1>1, <1>6, <1>8, <1>9, <1>12 DEF PoolIsCurrent, Entry
  <2>2. ASSUME NEW i \in DOMAIN newcomers' PROVE grade'[newcomers'[i]] = "new"
    <3>1. newcomers'[i] \in Proxy  BY <1>7, LenProperties, ElementOfSeq
    <3>2. In(newcomers', newcomers'[i])  BY DEF In
    <3>3. CASE newcomers'[i] = p /\ g = "new"  BY <1>12, <3>3
    <3>4. CASE In(newcomers, newcomers'[i])
      <4>1. PICK j \in DOMAIN newcomers : newcomers[j] = newcomers'[i]  BY <3>4 DEF In
      <4>2. newcomers[j] # p  BY DEF IsNewcomer, In
      <4> QED  BY <1>1, <1>12, <3>1, <4>1, <4>2 DEF PoolIsCurrent
    <3> QED  BY <1>7, <3>1, <3>2, <3>3, <3>4
  <2> QED  BY <2>1, <2>2 DEF PoolIsCurrent
<1>15. pool' \subseteq Entry  BY <1>1, <1>6, <1>8
<1>16. \A q \in Proxy : IsNewcomer(q)' <=> IsNewcomer(q) \/ (q = p /\ g = "new")
  BY <1>7 DEF IsNewcomer
<1>17. \A q \in Proxy : Lost(q)' <=> Lost(q) \/ (q = p /\ g = "bad")  BY <1>13 DEF Lost
<1>18. g \in {"new", "good", "bad"}  BY DEF Grade
<1> QED  BY <1>7, <1>10, <1>11, <1>12, <1>13, <1>14, <1>15, <1>16, <1>17, <1>18

-----------------------------------------------------------------------------
(* The steps. *)

\* What the invariant says of the other variables.
LEMMA OtherTypes ==
  ASSUME ServerInv
  PROVE  /\ supply \in Seq(Proxy \cup {None}) /\ newcomers \in Seq(Proxy)
         /\ pool \subseteq Entry
         /\ grade \in [Proxy -> Grade] /\ time \in [Proxy -> Times]
         /\ gone \in [Proxy -> Gone]
         /\ listening \in BOOLEAN /\ turn \in Client \cup {None}
         /\ delivered \subseteq Proxy
         /\ Once(supply) /\ Once(newcomers) /\ PoolIsCurrent
         /\ \A q \in Proxy : Placed(q)
BY DEF ServerInv, TypeOK, NoDuplicates

\* The handler's part of an attempt's end: it lets its proxy go.
LEMMA LetsGo ==
  ASSUME ServerInv, NEW c \in Client, Using(c), NEW st \in Ended \cup {"get"},
         st = "get" => handler[c].tries + 1 < MaxTries,
         handler' = Released(c, st)
  PROVE  /\ handler' \in [Client -> Handler] /\ HandlersSound'
         /\ handler[c].proxy \in Proxy /\ Held(handler[c].proxy)
         /\ \A d, e \in Client :
              handler'[d].proxy = handler'[e].proxy /\ handler'[d].proxy # None => d = e
         /\ \A q \in Proxy : Held(q)' <=> Held(q) /\ q # handler[c].proxy
<1> DEFINE r == [handler[c] EXCEPT !.st = st, !.proxy = None, !.tries = handler[c].tries + 1]
           p == handler[c].proxy
<1>1. p \in Proxy /\ p # None /\ handler[c].tries < MaxTries /\ handler[c].tries \in Nat
      /\ MaxTries \in Nat
  BY HandlerTypes DEF ServerInv, HandlersSound, Using, Busy
<1>2. handler' = [handler EXCEPT ![c] = r]  BY HandlerTypes DEF Released
<1>3. handler[c].tries + 1 \in 0..MaxTries  BY <1>1
<1>4. r \in Handler /\ r.st = st /\ r.proxy = None /\ r.tries = handler[c].tries + 1
  BY <1>3, HandlerTypes DEF Handler, Busy
<1> HIDE DEF r, p
<1>5. handler' \in [Client -> Handler] /\ handler'[c] = r
      /\ \A d \in Client : d # c => handler'[d] = handler[d]
  BY <1>2, <1>4, HandlerTypes
<1>6. st \notin {"use", "cancelling", "idle", "import"} /\ (st \in Busy => st = "get")
  BY DEF Ended, Busy
<1>7. HandlersSound'  BY <1>1, <1>4, <1>5, <1>6, OneHandler
<1>8. \A d, e \in Client :
        handler'[d].proxy = handler'[e].proxy /\ handler'[d].proxy # None => d = e
  BY <1>4, <1>5 DEF ServerInv, NoDuplicates
<1>9. \A q \in Proxy : Held(q)' <=> Held(q) /\ q # p
  <2>1. \A d \in Client : d # c => handler[d].proxy # p
    BY <1>1 DEF ServerInv, NoDuplicates, p
  <2>2. \A q \in Proxy : q # None  BY HandlerTypes
  <2> QED  BY <1>4, <1>5, <2>1, <2>2 DEF Held, p
<1>10. Held(p)  BY DEF Held, p
<1> QED  BY <1>1, <1>5, <1>7, <1>8, <1>9, <1>10 DEF p

\* The end of an attempt, however it ends and whether or not put() raises...
LEMMA PutBackKeeps ==
  ASSUME ServerInv, NEW c \in Client, Using(c),
         NEW next \in {"served", "get", "exhausted", "cancelled"}, PutBack(c, next),
         ~DecodeRaises(c), next = "get" => handler[c].tries + 1 < MaxTries,
         UNCHANGED <<supply, listening, delivered>>
  PROVE  ServerInv'
<1>0. handler[c].proxy \in Proxy
  BY HandlerTypes DEF ServerInv, HandlersSound
<1>14. PICK p \in Proxy : p = handler[c].proxy  BY <1>0
<1>1. Held(p)  BY <1>14 DEF Held
<1>2. PICK g \in Used(p), t \in Times, st \in {next, "heapError"} :
        /\ Put(p, g, t)
        /\ handler' = Released(c, st)
        /\ turn' \in Client \cup {None}
  BY <1>14 DEF PutBack
<1>3. g \in Grade  BY <1>2 DEF Used, Grade
<1>4. st \in Ended \cup {"get"} /\ (st = "get" => handler[c].tries + 1 < MaxTries)
  BY DEF Ended
<1>5. ~InSupply(p) /\ ~IsNewcomer(p) /\ ~Pooled(p) /\ ~Lost(p) /\ p \in delivered
  BY <1>1, OtherTypes DEF Placed
<1>6. /\ newcomers' \in Seq(Proxy) /\ pool' \subseteq Entry
      /\ grade' \in [Proxy -> Grade] /\ time' \in [Proxy -> Times]
      /\ gone' \in [Proxy -> Gone]
      /\ Once(newcomers') /\ \A e, f \in pool' : e.proxy = f.proxy => e = f
      /\ PoolIsCurrent'
      /\ IsNewcomer(p)' \/ Pooled(p)' \/ Lost(p)'
      /\ IsNewcomer(p)' => ~Pooled(p)' /\ ~Lost(p)'
      /\ Pooled(p)' => ~Lost(p)'
      /\ \A q \in Proxy : q # p =>
           /\ IsNewcomer(q)' <=> IsNewcomer(q)
           /\ Pooled(q)' <=> Pooled(q)
           /\ Lost(q)' <=> Lost(q)
  BY <1>1, <1>2, <1>3, <1>5, PutMoves
<1>7. /\ handler' \in [Client -> Handler] /\ HandlersSound'
      /\ \A d, e \in Client :
           handler'[d].proxy = handler'[e].proxy /\ handler'[d].proxy # None => d = e
      /\ \A q \in Proxy : Held(q)' <=> Held(q) /\ q # p
  BY <1>2, <1>4, <1>14, LetsGo
<1>8. TypeOK'  BY <1>2, <1>6, <1>7, OtherTypes DEF TypeOK
<1>9. NoDuplicates'  BY <1>6, <1>7, OtherTypes DEF NoDuplicates
<1>10. \A q \in Proxy : InSupply(q)' <=> InSupply(q)  BY DEF InSupply
<1>11. \A q \in Proxy : q # p => Placed(q)'
  BY <1>6, <1>7, <1>10, StaysPlaced, OtherTypes DEF Stays
<1>12. Placed(p)'  BY <1>1, <1>5, <1>6, <1>7, <1>10 DEF Placed
<1> QED  BY <1>6, <1>7, <1>8, <1>9, <1>11, <1>12 DEF ServerInv

\* ... and the end of one whose request does not decode.
LEMMA DecodeRaisesKeeps ==
  ASSUME ServerInv, NEW c \in Client, Using(c), DecodeRaises(c),
         UNCHANGED <<supply, listening, delivered>>
  PROVE  ServerInv'
<1>1. handler[c].proxy \in Proxy
  BY HandlerTypes DEF ServerInv, HandlersSound
<1>2. PICK p \in Proxy : p = handler[c].proxy  BY <1>1
<1>3. /\ handler' = Released(c, "decodeError") /\ turn' = None
      /\ gone' = [gone EXCEPT ![p] = "decodeError"]
      /\ UNCHANGED <<newcomers, pool, grade, time>>
  BY <1>2 DEF DecodeRaises
<1>4. Held(p)  BY <1>2 DEF Held
<1>5. ~InSupply(p) /\ ~IsNewcomer(p) /\ ~Pooled(p) /\ p \in delivered
  BY <1>4, OtherTypes DEF Placed
<1>6. gone' \in [Proxy -> Gone] /\ gone'[p] = "decodeError"
      /\ \A q \in Proxy : q # p => gone'[q] = gone[q]
  BY <1>3, OtherTypes DEF Gone, Loss
<1>7. /\ handler' \in [Client -> Handler] /\ HandlersSound'
      /\ \A d, e \in Client :
           handler'[d].proxy = handler'[e].proxy /\ handler'[d].proxy # None => d = e
      /\ \A q \in Proxy : Held(q)' <=> Held(q) /\ q # p
  BY <1>2, <1>3, LetsGo DEF Ended
<1>8. TypeOK'  BY <1>3, <1>6, <1>7, OtherTypes DEF TypeOK
<1>9. NoDuplicates'  BY <1>3, <1>7, OtherTypes DEF ServerInv, NoDuplicates
<1>10. PoolIsCurrent'  BY <1>3, OtherTypes DEF PoolIsCurrent
<1>11. \A q \in Proxy : /\ InSupply(q)' <=> InSupply(q)
                        /\ IsNewcomer(q)' <=> IsNewcomer(q)
                        /\ Pooled(q)' <=> Pooled(q)
  BY <1>3 DEF InSupply, IsNewcomer, Pooled
<1>12. \A q \in Proxy : q # p => (Lost(q)' <=> Lost(q))  BY <1>6 DEF Lost
<1>13. \A q \in Proxy : q # p => Placed(q)'
  BY <1>7, <1>11, <1>12, StaysPlaced, OtherTypes DEF Stays
<1>14. Lost(p)'  BY <1>6 DEF Lost
<1>15. Placed(p)'  BY <1>5, <1>7, <1>11, <1>14 DEF Placed
<1> QED  BY <1>7, <1>8, <1>9, <1>10, <1>13, <1>15 DEF ServerInv

\* A connection is given a proxy that leaves the place it was in.
LEMMA GivenKeeps ==
  ASSUME ServerInv, NEW c \in Client, handler[c].st \in {"get", "import"},
         NEW p \in Proxy, InSupply(p) \/ IsNewcomer(p) \/ Pooled(p), Choose(c, p),
         supply' \in Seq(Proxy \cup {None}), Once(supply)',
         newcomers' \in Seq(Proxy), Once(newcomers)', pool' \subseteq pool,
         \A i \in DOMAIN newcomers' : In(newcomers, newcomers'[i]),
         ~InSupply(p)', ~IsNewcomer(p)', ~Pooled(p)',
         \A q \in Proxy : q # p => /\ InSupply(q)' <=> InSupply(q)
                                   /\ IsNewcomer(q)' <=> IsNewcomer(q)
                                   /\ Pooled(q)' <=> Pooled(q),
         turn' \in Client \cup {None},
         UNCHANGED <<grade, time, listening, delivered>>
  PROVE  ServerInv'
<1>1. p \in delivered /\ ~Held(p) /\ ~Lost(p)  BY OtherTypes DEF Placed
<1>2. /\ handler' \in [Client -> Handler] /\ HandlersSound'
      /\ gone' \in [Proxy -> Gone]
      /\ \A d, e \in Client :
           handler'[d].proxy = handler'[e].proxy /\ handler'[d].proxy # None => d = e
      /\ \A q \in Proxy : q # p => (Held(q)' <=> Held(q)) /\ (Lost(q)' <=> Lost(q))
      /\ Held(p)' \/ Lost(p)'
      /\ ~(Held(p)' /\ Lost(p)')
  BY <1>1, ChooseMoves
<1>3. TypeOK'  BY <1>2, OtherTypes DEF TypeOK
<1>4. NoDuplicates'  BY <1>2, OtherTypes DEF ServerInv, NoDuplicates
<1>5. PoolIsCurrent'
  <2>1. \A e \in pool' : time'[e.proxy] = e.time /\ grade'[e.proxy] = "good"
    BY OtherTypes DEF PoolIsCurrent
  <2>2. \A i \in DOMAIN newcomers' : grade'[newcomers'[i]] = "new"
    BY OtherTypes DEF PoolIsCurrent, In
  <2> QED  BY <2>1, <2>2 DEF PoolIsCurrent
<1>6. \A q \in Proxy : q # p => Placed(q)'
  BY <1>2, StaysPlaced, OtherTypes DEF Stays
<1>7. Placed(p)'  BY <1>1, <1>2 DEF Placed
<1> QED  BY <1>2, <1>3, <1>4, <1>5, <1>6, <1>7 DEF ServerInv

\* get() and _import(): the four ways to be given a proxy.
LEMMA GetNewcomerKeeps ==
  ASSUME ServerInv, NEW c \in Client, GetNewcomer(c)
  PROVE  ServerInv'
<1> DEFINE p == Head(newcomers)
<1>1. newcomers # <<>> /\ newcomers' = Tail(newcomers) /\ Choose(c, p)
      /\ handler[c].st = "get" /\ turn' = None
      /\ UNCHANGED <<supply, pool, grade, time, listening, delivered>>
  BY DEF GetNewcomer, MyTurn
<1>2. newcomers \in Seq(Proxy) /\ Once(newcomers) /\ Once(supply)
      /\ supply \in Seq(Proxy \cup {None}) /\ \A q \in Proxy : Placed(q) /\ q # None
  BY OtherTypes, HandlerTypes
<1>3. newcomers' \in Seq(Proxy) /\ p \in Proxy /\ In(newcomers, p) /\ Once(newcomers')
      /\ \A q \in Proxy : In(newcomers', q) <=> In(newcomers, q) /\ q # p
  BY <1>1, <1>2, TailIn
<1> HIDE DEF p
<1>4. IsNewcomer(p) /\ ~InSupply(p) /\ ~Pooled(p)
  BY <1>2, <1>3 DEF IsNewcomer, Placed
<1>5. \A q \in Proxy : /\ InSupply(q)' <=> InSupply(q)
                       /\ IsNewcomer(q)' <=> IsNewcomer(q) /\ q # p
                       /\ Pooled(q)' <=> Pooled(q)
  BY <1>1, <1>3 DEF InSupply, IsNewcomer, Pooled
<1>6. \A i \in DOMAIN newcomers' : In(newcomers, newcomers'[i])
  <2> TAKE i \in DOMAIN newcomers'
  <2>1. newcomers'[i] \in Proxy  BY <1>3, LenProperties, ElementOfSeq
  <2>2. In(newcomers', newcomers'[i])  BY DEF In
  <2> QED  BY <1>3, <2>1, <2>2
<1> QED  BY <1>1, <1>2, <1>3, <1>4, <1>5, <1>6, GivenKeeps

LEMMA GetBestKeeps ==
  ASSUME ServerInv, NEW c \in Client, GetBest(c)
  PROVE  ServerInv'
<1>1. PICK e \in pool : pool' = pool \ {e} /\ Choose(c, e.proxy)
  BY DEF GetBest, Best, Suitable
<1>2. handler[c].st = "get" /\ turn' = None
      /\ UNCHANGED <<supply, newcomers, grade, time, listening, delivered>>
  BY DEF GetBest, MyTurn
<1>3. e.proxy \in Proxy /\ Pooled(e.proxy)  BY OtherTypes DEF Entry, Pooled
<1>4. ~InSupply(e.proxy) /\ ~IsNewcomer(e.proxy)  BY <1>3, OtherTypes DEF Placed
<1>5. \A q \in Proxy : /\ InSupply(q)' <=> InSupply(q)
                       /\ IsNewcomer(q)' <=> IsNewcomer(q)
                       /\ Pooled(q)' <=> Pooled(q) /\ q # e.proxy
  BY <1>1, <1>2 DEF InSupply, IsNewcomer, Pooled, ServerInv, NoDuplicates
<1>6. \A i \in DOMAIN newcomers' : In(newcomers, newcomers'[i])  BY <1>2 DEF In
<1> QED  BY <1>1, <1>2, <1>3, <1>4, <1>5, <1>6, OtherTypes, GivenKeeps

LEMMA ImportMatchKeeps ==
  ASSUME ServerInv, NEW c \in Client, ImportMatch(c)
  PROVE  ServerInv'
<1> DEFINE p == Head(supply)
<1>1. supply # <<>> /\ p # None /\ supply' = Tail(supply) /\ Choose(c, p)
      /\ handler[c].st = "import"
      /\ UNCHANGED <<newcomers, pool, grade, time, listening, turn, delivered>>
  BY DEF ImportMatch
<1>2. newcomers \in Seq(Proxy) /\ Once(newcomers) /\ Once(supply)
      /\ supply \in Seq(Proxy \cup {None}) /\ \A q \in Proxy : Placed(q) /\ q # None
  BY OtherTypes, HandlerTypes
<1>3. supply' \in Seq(Proxy \cup {None}) /\ p \in Proxy /\ In(supply, p) /\ Once(supply')
      /\ \A q \in Proxy : In(supply', q) <=> In(supply, q) /\ q # p
  BY <1>1, <1>2, TailIn
<1> HIDE DEF p
<1>4. InSupply(p) /\ ~IsNewcomer(p) /\ ~Pooled(p)
  BY <1>2, <1>3 DEF InSupply, Placed
<1>5. \A q \in Proxy : /\ InSupply(q)' <=> InSupply(q) /\ q # p
                       /\ IsNewcomer(q)' <=> IsNewcomer(q)
                       /\ Pooled(q)' <=> Pooled(q)
  BY <1>1, <1>3 DEF InSupply, IsNewcomer, Pooled
<1>6. \A i \in DOMAIN newcomers' : In(newcomers, newcomers'[i])  BY <1>1 DEF In
<1> QED  BY <1>1, <1>2, <1>3, <1>4, <1>5, <1>6, OtherTypes, GivenKeeps

\* Proxies leave the heap for good: removed, or lost when a comparison raised.
LEMMA LeavingKeeps ==
  ASSUME ServerInv, HandlersSound', handler' \in [Client -> Handler],
         \A c \in Client : handler'[c].proxy = handler[c].proxy,
         NEW lost \in SUBSET pool, NEW how \in {"removed", "heapError"},
         pool' = pool \ lost,
         gone' = [q \in Proxy |-> IF q \in {e.proxy : e \in lost} THEN how ELSE gone[q]],
         turn' \in Client \cup {None},
         UNCHANGED <<supply, newcomers, grade, time, listening, delivered>>
  PROVE  ServerInv'
<1>1. gone' \in [Proxy -> Gone]  BY OtherTypes DEF Gone, Loss
<1>2. TypeOK'  BY <1>1, OtherTypes DEF TypeOK
<1>3. NoDuplicates'  BY DEF ServerInv, NoDuplicates
<1>4. PoolIsCurrent'  BY OtherTypes DEF PoolIsCurrent
<1>5. \A q \in Proxy : /\ InSupply(q)' <=> InSupply(q)
                       /\ IsNewcomer(q)' <=> IsNewcomer(q)
                       /\ Held(q)' <=> Held(q)
  BY DEF InSupply, IsNewcomer, Held
<1>6. ASSUME NEW q \in Proxy PROVE Placed(q)'
  <2>1. CASE \E e \in lost : e.proxy = q
    <3>1. Pooled(q) /\ Lost(q)'  BY <2>1 DEF Pooled, Lost
    <3>2. ~Pooled(q)'  BY <2>1 DEF Pooled, ServerInv, NoDuplicates
    <3> QED  BY <1>5, <3>1, <3>2, OtherTypes DEF Placed
  <2>2. CASE ~\E e \in lost : e.proxy = q
    <3>1. gone'[q] = gone[q]  BY <2>2
    <3>2. Stays(q)  BY <1>5, <2>2, <3>1 DEF Stays, Pooled, Lost
    <3> QED  BY <3>2, StaysPlaced, OtherTypes
  <2> QED  BY <2>1, <2>2
<1> QED  BY <1>2, <1>3, <1>4, <1>6 DEF ServerInv

\* A handler that holds no proxy goes on to a state in which it holds none.
LEMMA HandlerMoves ==
  ASSUME ServerInv, NEW c \in Client, NEW r \in Handler,
         handler[c].st \notin {"use", "cancelling"}, r.proxy = handler[c].proxy,
         handler' = [handler EXCEPT ![c] = r],
         r.st \notin {"use", "cancelling"},
         r.st \in {"idle"} \cup Busy => r.tries < MaxTries,
         r.st = "import" => r.retries < MaxImportRetries
  PROVE  /\ handler' \in [Client -> Handler] /\ HandlersSound'
         /\ \A d \in Client : handler'[d].proxy = handler[d].proxy
<1>1. handler' \in [Client -> Handler] /\ handler'[c] = r
      /\ \A d \in Client : d # c => handler'[d] = handler[d]
  BY HandlerTypes
<1>2. handler[c].proxy = None  BY DEF ServerInv, HandlersSound, Using
<1>3. HandlersSound'  BY <1>1, <1>2, OneHandler
<1> QED  BY <1>1, <1>3

LEMMA GetRaisesKeeps ==
  ASSUME ServerInv, NEW c \in Client, GetRaises(c)
  PROVE  ServerInv'
<1> DEFINE r == [handler[c] EXCEPT !.st = "heapError"]
<1>1. handler' = [handler EXCEPT ![c] = r] /\ handler[c].st = "get" /\ turn' = None
      /\ UNCHANGED <<supply, newcomers, grade, time, listening, delivered>>
  BY HandlerTypes DEF GetRaises, MyTurn
<1>2. r \in Handler /\ r.st = "heapError" /\ r.proxy = handler[c].proxy
  BY HandlerTypes DEF Handler, Ended
<1> HIDE DEF r
<1>3. r.st \notin {"use", "cancelling", "import", "idle"} \cup Busy  BY <1>2 DEF Busy
<1>4. handler' \in [Client -> Handler] /\ HandlersSound'
      /\ \A d \in Client : handler'[d].proxy = handler[d].proxy
  BY <1>1, <1>2, <1>3, HandlerMoves
<1>5. PICK lost \in SUBSET pool :
        /\ pool' = pool \ lost
        /\ gone' = [q \in Proxy |-> IF q \in {e.proxy : e \in lost} THEN "heapError" ELSE gone[q]]
  BY DEF GetRaises, Popped
<1> QED  BY <1>1, <1>4, <1>5, LeavingKeeps

\* The control API.
LEMMA RemoveKeeps ==
  ASSUME ServerInv, NEW a \in Address, RemoveEstablished(a) \/ RemoveRaises(a)
  PROVE  ServerInv'
<1>1. UNCHANGED <<supply, newcomers, grade, time, handler, listening, turn, delivered>>
  BY DEF RemoveEstablished, RemoveRaises
<1>2. handler' \in [Client -> Handler] /\ HandlersSound' /\ turn' \in Client \cup {None}
  <2>1. HandlersSound'  BY <1>1 DEF ServerInv, HandlersSound, Using
  <2> QED  BY <1>1, <2>1, OtherTypes DEF ServerInv, TypeOK
<1>3. CASE RemoveEstablished(a)
  <2>1. PICK e \in pool : pool' = pool \ {e} /\ gone' = [gone EXCEPT ![e.proxy] = "removed"]
    BY <1>3 DEF RemoveEstablished
  <2> DEFINE lost == {e}
  <2>2. gone' = [q \in Proxy |-> IF q \in {f.proxy : f \in lost} THEN "removed" ELSE gone[q]]
    BY <2>1, OtherTypes
  <2>3. lost \in SUBSET pool /\ pool' = pool \ lost  BY <2>1
  <2> HIDE DEF lost
  <2> QED  BY <1>1, <1>2, <2>2, <2>3, LeavingKeeps
<1>4. CASE RemoveRaises(a)
  <2>1. PICK lost \in SUBSET pool :
          /\ pool' = pool \ lost
          /\ gone' = [q \in Proxy |-> IF q \in {e.proxy : e \in lost} THEN "heapError" ELSE gone[q]]
    BY <1>4 DEF RemoveRaises
  <2> QED  BY <1>1, <1>2, <2>1, LeavingKeeps
<1> QED  BY <1>3, <1>4

LEMMA RemoveNewcomerKeeps ==
  ASSUME ServerInv, NEW a \in Address, RemoveNewcomer(a)
  PROVE  ServerInv'
<1>0. PICK i \in DOMAIN newcomers :
        /\ newcomers' = RemoveAt(newcomers, i)
        /\ gone' = [gone EXCEPT ![newcomers[i]] = "removed"]
  BY DEF RemoveNewcomer, NewcomersAt
<1>p. PICK p \in Proxy : p = newcomers[i]  BY OtherTypes, LenProperties, ElementOfSeq
<1>1. newcomers[i] = p /\ newcomers' = RemoveAt(newcomers, i)  BY <1>0, <1>p
<1>2. gone' = [gone EXCEPT ![p] = "removed"]
      /\ UNCHANGED <<supply, pool, grade, time, handler, listening, turn, delivered>>
  BY <1>0, <1>p DEF RemoveNewcomer
<1>3. newcomers' \in Seq(Proxy) /\ Once(newcomers')
      /\ \A q \in Proxy : In(newcomers', q) <=> In(newcomers, q) /\ q # p
  BY <1>1, OtherTypes, HandlerTypes, PoolAssumption, RemoveAtIn
<1>4. IsNewcomer(p)  BY <1>1 DEF IsNewcomer, In
<1>5. gone' \in [Proxy -> Gone]
      /\ gone'[p] = "removed" /\ \A q \in Proxy : q # p => gone'[q] = gone[q]
  BY <1>2, OtherTypes DEF Gone
<1>6. TypeOK'  BY <1>2, <1>3, <1>5, OtherTypes DEF ServerInv, TypeOK
<1>7. NoDuplicates' /\ HandlersSound'
  BY <1>2, <1>3 DEF ServerInv, NoDuplicates, HandlersSound, Using
<1>8. PoolIsCurrent'
  <2>1. \A j \in DOMAIN newcomers' : In(newcomers, newcomers'[j])
    <3> TAKE j \in DOMAIN newcomers'
    <3>1. newcomers'[j] \in Proxy  BY <1>3, LenProperties, ElementOfSeq
    <3>2. In(newcomers', newcomers'[j])  BY DEF In
    <3> QED  BY <1>3, <3>1, <3>2
  <2>2. \A j \in DOMAIN newcomers' : grade'[newcomers'[j]] = "new"
    BY <1>2, <2>1, OtherTypes DEF PoolIsCurrent, In
  <2> QED  BY <1>2, <2>2, OtherTypes DEF PoolIsCurrent
<1>9. \A q \in Proxy : /\ InSupply(q)' <=> InSupply(q)
                       /\ IsNewcomer(q)' <=> IsNewcomer(q) /\ q # p
                       /\ Pooled(q)' <=> Pooled(q)
                       /\ Held(q)' <=> Held(q)
                       /\ q # p => (Lost(q)' <=> Lost(q))
  BY <1>2, <1>3, <1>5 DEF InSupply, IsNewcomer, Pooled, Held, Lost
<1>10. Lost(p)'  BY <1>5 DEF Lost
<1>11. Placed(p)'  BY <1>2, <1>4, <1>9, <1>10, OtherTypes DEF Placed
<1>12. \A q \in Proxy : q # p => Placed(q)'
  BY <1>2, <1>9, StaysPlaced, OtherTypes DEF Stays
<1> QED  BY <1>6, <1>7, <1>8, <1>11, <1>12 DEF ServerInv

\* _import(): a proxy that does not suit goes into the pool.
LEMMA ImportMismatchKeeps ==
  ASSUME ServerInv, NEW c \in Client, ImportMismatch(c)
  PROVE  ServerInv'
<1>1. supply # <<>> /\ Head(supply) # None /\ supply' = Tail(supply)
      /\ handler[c].st = "import" /\ UNCHANGED <<listening, turn, delivered>>
  BY DEF ImportMismatch
<1>2. supply \in Seq(Proxy \cup {None}) /\ Once(supply)  BY OtherTypes
<1>3. PICK p \in Proxy : p = Head(supply)
  BY <1>1, <1>2, TailIn
<1>4. supply' \in Seq(Proxy \cup {None}) /\ Once(supply') /\ In(supply, p)
      /\ \A q \in Proxy : In(supply', q) <=> In(supply, q) /\ q # p
  BY <1>1, <1>2, <1>3, HandlerTypes, TailIn
<1>5. Put(p, grade[p], time[p])  BY <1>3 DEF ImportMismatch
<1>6. InSupply(p) /\ ~IsNewcomer(p) /\ ~Pooled(p) /\ ~Held(p) /\ ~Lost(p) /\ p \in delivered
  BY <1>4, OtherTypes DEF InSupply, Placed
<1>7. PICK g \in Grade, t \in Times : g = grade[p] /\ t = time[p]  BY OtherTypes
<1>8. /\ newcomers' \in Seq(Proxy) /\ pool' \subseteq Entry
      /\ grade' \in [Proxy -> Grade] /\ time' \in [Proxy -> Times]
      /\ gone' \in [Proxy -> Gone]
      /\ Once(newcomers') /\ \A e, f \in pool' : e.proxy = f.proxy => e = f
      /\ PoolIsCurrent'
      /\ IsNewcomer(p)' \/ Pooled(p)' \/ Lost(p)'
      /\ IsNewcomer(p)' => ~Pooled(p)' /\ ~Lost(p)'
      /\ Pooled(p)' => ~Lost(p)'
      /\ \A q \in Proxy : q # p =>
           /\ IsNewcomer(q)' <=> IsNewcomer(q)
           /\ Pooled(q)' <=> Pooled(q)
           /\ Lost(q)' <=> Lost(q)
  BY <1>5, <1>6, <1>7, PutMoves
<1> DEFINE tries == handler[c].retries + 1
           more == [handler[c] EXCEPT !.retries = handler[c].retries + 1,
                                      !.st = IF handler[c].retries + 1 < MaxImportRetries
                                               THEN "import" ELSE "noProxy"]
           fail == [handler[c] EXCEPT !.st = "heapError"]
<1>9. handler' = [handler EXCEPT ![c] = more] \/ handler' = [handler EXCEPT ![c] = fail]
  BY HandlerTypes DEF ImportMismatch
<1>10. handler[c].retries < MaxImportRetries /\ handler[c].tries < MaxTries
  BY <1>1 DEF ServerInv, HandlersSound, Busy
<1>11. tries \in 0..MaxImportRetries  BY <1>10, HandlerTypes
<1>12. more \in Handler /\ more.proxy = handler[c].proxy /\ more.tries = handler[c].tries
       /\ more.st \in {"import", "noProxy"}
       /\ (more.st = "import" => more.retries < MaxImportRetries)
  BY <1>11, HandlerTypes DEF Handler, Busy, Ended
<1>13. fail \in Handler /\ fail.proxy = handler[c].proxy /\ fail.tries = handler[c].tries
       /\ fail.st = "heapError"
  BY HandlerTypes DEF Handler, Ended
<1> HIDE DEF tries, more, fail
<1>14. PICK r \in Handler :
         /\ r.proxy = handler[c].proxy /\ r.tries < MaxTries
         /\ r.st \notin {"use", "cancelling"}
         /\ r.st = "import" => r.retries < MaxImportRetries
         /\ handler' = [handler EXCEPT ![c] = r]
  BY <1>9, <1>10, <1>12, <1>13
<1>15. handler' \in [Client -> Handler] /\ HandlersSound'
       /\ \A d \in Client : handler'[d].proxy = handler[d].proxy
  BY <1>1, <1>14, HandlerMoves
<1>16. TypeOK'  BY <1>1, <1>4, <1>8, <1>15, OtherTypes DEF TypeOK
<1>17. NoDuplicates'  BY <1>4, <1>8, <1>15, OtherTypes DEF ServerInv, NoDuplicates
<1>18. \A q \in Proxy : (Held(q)' <=> Held(q)) /\ (InSupply(q)' <=> InSupply(q) /\ q # p)
  BY <1>4, <1>15 DEF Held, InSupply
<1>19. \A q \in Proxy : q # p => Placed(q)'
  BY <1>1, <1>8, <1>18, StaysPlaced, OtherTypes DEF Stays
<1>20. Placed(p)'  BY <1>1, <1>6, <1>8, <1>18 DEF Placed
<1> QED  BY <1>8, <1>15, <1>16, <1>17, <1>19, <1>20 DEF ServerInv

\* A handler goes on, or ends, without a proxy, and nothing else happens.
LEMMA HandlerOnlyKeeps ==
  ASSUME ServerInv, NEW c \in Client, NEW r \in Handler,
         handler[c].st \notin {"use", "cancelling"}, r.proxy = handler[c].proxy,
         handler' = [handler EXCEPT ![c] = r],
         r.st \notin {"use", "cancelling"},
         r.st \in {"idle"} \cup Busy => r.tries < MaxTries,
         r.st = "import" => r.retries < MaxImportRetries,
         supply' \in Seq(Proxy \cup {None}), Once(supply'),
         \A q \in Proxy : In(supply', q) <=> In(supply, q),
         turn' \in Client \cup {None}, listening' \in BOOLEAN,
         UNCHANGED <<newcomers, pool, grade, time, gone, delivered>>
  PROVE  ServerInv'
<1>1. handler' \in [Client -> Handler] /\ HandlersSound'
      /\ \A d \in Client : handler'[d].proxy = handler[d].proxy
  BY HandlerMoves
<1>2. TypeOK'  BY <1>1, OtherTypes DEF TypeOK
<1>3. \A q \in Proxy : InSupply(q)' <=> InSupply(q)  BY DEF InSupply
<1> QED  BY <1>1, <1>2, <1>3, NothingMoves

LEMMA HandlerAloneKeeps ==
  ASSUME ServerInv, NEW c \in Client, GetImports(c) \/ ImportEnds(c)
  PROVE  ServerInv'
<1>1. CASE GetImports(c)
  <2> DEFINE r == [handler[c] EXCEPT !.st = "import", !.retries = 0]
  <2>1. handler' = [handler EXCEPT ![c] = r] /\ handler[c].st = "get" /\ turn' = None
        /\ UNCHANGED <<poolVars, listening, delivered>>
    BY <1>1, HandlerTypes DEF GetImports, MyTurn
  <2>2. handler[c].tries < MaxTries  BY <2>1 DEF ServerInv, HandlersSound, Busy
  <2>3. 0 \in 0..MaxImportRetries /\ 0 < MaxImportRetries  BY HandlerTypes
  <2>4. r \in Handler /\ r.st = "import" /\ r.retries = 0 /\ r.tries = handler[c].tries
        /\ r.proxy = handler[c].proxy
    BY <2>3, HandlerTypes DEF Handler, Busy
  <2> HIDE DEF r
  <2> QED  BY <2>1, <2>2, <2>3, <2>4, OtherTypes, HandlerOnlyKeeps DEF poolVars
<1>2. CASE ImportEnds(c)
  <2> DEFINE r == [handler[c] EXCEPT !.st = "noProxy"]
  <2>1. handler' = [handler EXCEPT ![c] = r] /\ handler[c].st = "import"
        /\ UNCHANGED <<newcomers, pool, grade, time, gone, listening, turn, delivered>>
    BY <1>2, HandlerTypes DEF ImportEnds
  <2>2. r \in Handler /\ r.st = "noProxy" /\ r.proxy = handler[c].proxy
    BY HandlerTypes DEF Handler, Ended
  <2> HIDE DEF r
  <2>3. r.st \notin {"use", "cancelling", "idle", "import"} \cup Busy  BY <2>2 DEF Busy
  <2>4. supply' \in Seq(Proxy \cup {None}) /\ Once(supply')
        /\ \A q \in Proxy : In(supply', q) <=> In(supply, q)
    <3>1. CASE supply # <<>> /\ Head(supply) = None /\ supply' = Tail(supply)
      BY <3>1, OtherTypes, HandlerTypes, TailIn
    <3> QED  BY <1>2, <3>1, OtherTypes DEF ImportEnds
  <2> QED  BY <2>1, <2>2, <2>3, <2>4, OtherTypes, HandlerOnlyKeeps
<1> QED  BY <1>1, <1>2

LEMMA RequestKeeps ==
  ASSUME ServerInv, NEW c \in Client, NEW s \in Scheme, Request(c, s)
  PROVE  ServerInv'
<1> DEFINE r == [handler[c] EXCEPT !.st = "get", !.scheme = s]
<1>1. handler' = [handler EXCEPT ![c] = r] /\ handler[c].st = "idle"
      /\ UNCHANGED <<poolVars, listening, turn, delivered>>
  BY HandlerTypes DEF Request
<1>2. handler[c].tries < MaxTries  BY <1>1 DEF ServerInv, HandlersSound
<1>3. r \in Handler /\ r.st = "get" /\ r.tries = handler[c].tries
      /\ r.proxy = handler[c].proxy
  BY HandlerTypes DEF Handler, Busy
<1> HIDE DEF r
<1> QED  BY <1>1, <1>2, <1>3, OtherTypes, HandlerOnlyKeeps DEF poolVars

\* stop() cancels every connection, and takes no proxy out of a hand.
LEMMA StopMoves ==
  ASSUME ServerInv
  PROVE  /\ StopConnections \in [Client -> Handler]
         /\ \A d \in Client :
              /\ StopConnections[d].proxy = handler[d].proxy
              /\ StopConnections[d].st \in {"use", "cancelling"} <=> Using(d)
              /\ StopConnections[d].st \in {"idle"} \cup Busy =>
                   StopConnections[d].tries < MaxTries
              /\ StopConnections[d].st # "import"
              /\ handler[d].st = "noProxy" => StopConnections[d].st = "noProxy"
<1> DEFINE r(d) == StopConnections[d]
<1>1. ASSUME NEW d \in Client
      PROVE  /\ r(d) \in Handler /\ r(d).proxy = handler[d].proxy
             /\ r(d).st \in {"use", "cancelling"} <=> Using(d)
             /\ r(d).st \in {"idle"} \cup Busy => r(d).tries < MaxTries
             /\ r(d).st # "import"
             /\ handler[d].st = "noProxy" => r(d).st = "noProxy"
  <2>1. handler[d] \in Handler
        /\ (handler[d].st \in {"idle"} \cup Busy => handler[d].tries < MaxTries)
    BY HandlerTypes DEF ServerInv, HandlersSound
  <2>2. CASE handler[d].st = "use"
    <3>1. r(d) = [handler[d] EXCEPT !.st = "cancelling"]  BY <2>2 DEF StopConnections
    <3> QED  BY <2>1, <2>2, <3>1 DEF Handler, Busy, Using
  <2>3. CASE handler[d].st \in {"get", "import"}
    <3>1. r(d) = [handler[d] EXCEPT !.st = "cancelled"]  BY <2>3 DEF StopConnections
    <3> QED  BY <2>1, <2>3, <3>1 DEF Handler, Busy, Ended, Using
  <2>4. CASE handler[d].st \notin {"use", "get", "import"}
    <3>1. r(d) = handler[d]  BY <2>4 DEF StopConnections
    <3> QED  BY <2>1, <2>4, <3>1 DEF Using
  <2> QED  BY <2>2, <2>3, <2>4
<1>2. DOMAIN StopConnections = Client
      /\ StopConnections = [d \in Client |-> StopConnections[d]]
  BY DEF StopConnections
<1> QED  BY <1>1, <1>2

LEMMA StopsKeep ==
  ASSUME ServerInv, ServerStops \/ \E c \in Client : NoProxyStops(c)
  PROVE  ServerInv'
<1>1. UNCHANGED <<poolVars, turn, delivered>> /\ listening' \in BOOLEAN
  BY DEF ServerStops, NoProxyStops
<1>2. CASE ServerStops
  <2>1. handler' = StopConnections  BY <1>2 DEF ServerStops
  <2>2. handler' \in [Client -> Handler] /\ \A d \in Client : handler'[d].proxy = handler[d].proxy
    BY <2>1, StopMoves
  <2>3. HandlersSound'
    BY <2>1, StopMoves DEF HandlersSound, Using, ServerInv
  <2>4. TypeOK'  BY <1>1, <2>2, OtherTypes DEF TypeOK, poolVars
  <2>5. Once(supply)' /\ \A q \in Proxy : InSupply(q)' <=> InSupply(q)
    BY <1>1, OtherTypes DEF poolVars, InSupply
  <2> QED  BY <1>1, <2>2, <2>3, <2>4, <2>5, NothingMoves DEF poolVars
<1>3. ASSUME NEW c \in Client, NoProxyStops(c) PROVE ServerInv'
  <2> DEFINE h == IF listening THEN StopConnections ELSE handler
             r == [h[c] EXCEPT !.st = "closed"]
  <2>1. handler[c].st = "noProxy"  BY <1>3 DEF NoProxyStops
  <2>2. h \in [Client -> Handler]
        /\ \A d \in Client :
             /\ h[d].proxy = handler[d].proxy
             /\ h[d].st \in {"use", "cancelling"} <=> Using(d)
             /\ h[d].st \in {"idle"} \cup Busy => h[d].tries < MaxTries
             /\ h[d].st = "import" => h[d].retries < MaxImportRetries
    <3>1. CASE listening
      <4>1. h = StopConnections  BY <3>1
      <4> QED  BY <4>1, StopMoves
    <3>2. CASE ~listening
      <4>1. h = handler  BY <3>2
      <4> QED  BY <4>1, HandlerTypes DEF ServerInv, HandlersSound, Using
    <3> QED  BY <3>1, <3>2
  <2>3. handler' = [h EXCEPT ![c] = r]  BY <1>3, <2>2 DEF NoProxyStops
  <2> HIDE DEF h
  <2>4. r \in Handler /\ r.st = "closed" /\ r.proxy = handler[c].proxy
    BY <2>2 DEF Handler, Ended
  <2> HIDE DEF r
  <2>5. handler' \in [Client -> Handler] /\ handler'[c] = r
        /\ \A d \in Client : d # c => handler'[d] = h[d]
    BY <2>2, <2>3, <2>4
  <2>6. \A d \in Client : handler'[d].proxy = handler[d].proxy  BY <2>2, <2>4, <2>5
  <2>7. handler[c].proxy = None  BY <2>1 DEF ServerInv, HandlersSound, Using
  <2>8. HandlersSound'
    BY <2>2, <2>4, <2>5, <2>7 DEF ServerInv, HandlersSound, Using, Busy
  <2>9. TypeOK'  BY <1>1, <2>5, OtherTypes DEF TypeOK, poolVars
  <2>10. Once(supply)' /\ \A q \in Proxy : InSupply(q)' <=> InSupply(q)
    BY <1>1, OtherTypes DEF poolVars, InSupply
  <2> QED  BY <1>1, <2>6, <2>8, <2>9, <2>10, NothingMoves DEF poolVars
<1> QED  BY <1>2, <1>3

\* The broker's side.
LEMMA SupplyKeeps ==
  ASSUME ServerInv, SupplyEnds \/ \E p \in Proxy : Supply(p)
  PROVE  ServerInv'
<1>1. UNCHANGED <<newcomers, pool, grade, time, gone, handler, listening, turn>>
  BY DEF SupplyEnds, Supply
<1>2. HandlersSound'  BY <1>1 DEF ServerInv, HandlersSound, Using
<1>3. CASE SupplyEnds
  <2>1. supply' = Append(supply, None) /\ delivered' = delivered  BY <1>3 DEF SupplyEnds
  <2>2. None \in Proxy \cup {None} /\ \A q \in Proxy : q # None  BY PoolAssumption
  <2>3. supply' \in Seq(Proxy \cup {None}) /\ Once(supply')
        /\ \A q \in Proxy : In(supply', q) <=> In(supply, q)
    BY <2>1, <2>2, OtherTypes, AppendIn
  <2>4. TypeOK'  BY <1>1, <2>1, <2>3 DEF ServerInv, TypeOK
  <2>5. \A q \in Proxy : InSupply(q)' <=> InSupply(q)  BY <2>3 DEF InSupply
  <2> QED  BY <1>1, <1>2, <2>1, <2>3, <2>4, <2>5, NothingMoves
<1>4. ASSUME NEW p \in Proxy, Supply(p) PROVE ServerInv'
  <2>1. supply' = Append(supply, p) /\ p \notin delivered /\ delivered' = delivered \cup {p}
    BY <1>4 DEF Supply
  <2>2. ~InSupply(p) /\ ~IsNewcomer(p) /\ ~Pooled(p) /\ ~Held(p) /\ ~Lost(p)
    BY <2>1, OtherTypes DEF Placed
  <2>3. supply' \in Seq(Proxy \cup {None}) /\ Once(supply')
        /\ \A q \in Proxy : In(supply', q) <=> In(supply, q) \/ q = p
    BY <2>1, <2>2, OtherTypes, AppendIn DEF InSupply
  <2>4. TypeOK'  BY <1>1, <2>1, <2>3, OtherTypes DEF ServerInv, TypeOK
  <2>5. NoDuplicates' /\ PoolIsCurrent'
    BY <1>1, <2>3 DEF ServerInv, NoDuplicates, PoolIsCurrent
  <2>6. \A q \in Proxy : /\ InSupply(q)' <=> InSupply(q) \/ q = p
                         /\ IsNewcomer(q)' <=> IsNewcomer(q)
                         /\ Pooled(q)' <=> Pooled(q)
                         /\ Held(q)' <=> Held(q)
                         /\ Lost(q)' <=> Lost(q)
                         /\ q \in delivered' <=> q \in delivered \/ q = p
    BY <1>1, <2>1, <2>3 DEF InSupply, IsNewcomer, Pooled, Held, Lost
  <2>7. Placed(p)'  BY <2>2, <2>6 DEF Placed
  <2>8. \A q \in Proxy : q # p => Placed(q)'
    BY <2>6, StaysPlaced, OtherTypes DEF Stays
  <2> QED  BY <1>2, <2>4, <2>5, <2>7, <2>8 DEF ServerInv
<1> QED  BY <1>3, <1>4

\* An attempt ends.
LEMMA UseKeeps ==
  ASSUME ServerInv, NEW c \in Client, UseEnds(c) \/ UseFails(c) \/ UseCancelled(c)
  PROVE  ServerInv'
<1>1. Using(c) /\ UNCHANGED <<supply, listening, delivered>>
  BY DEF UseEnds, UseFails, UseCancelled, Using
<1>2. PICK next \in {"served", "get", "exhausted", "cancelled"} :
        PutBack(c, next) /\ (next = "get" => handler[c].tries + 1 < MaxTries)
  BY DEF UseEnds, UseFails, UseCancelled
<1>3. CASE DecodeRaises(c)  BY <1>1, <1>3, DecodeRaisesKeeps
<1>4. CASE ~DecodeRaises(c)  BY <1>1, <1>2, <1>4, PutBackKeeps
<1> QED  BY <1>3, <1>4

\* The invariant holds before the first connection.
LEMMA ServerInit == Init => ServerInv
<1> SUFFICES ASSUME Init PROVE ServerInv  OBVIOUS
<1>1. DOMAIN supply = {} /\ DOMAIN newcomers = {} /\ supply \in Seq(Proxy \cup {None})
      /\ newcomers \in Seq(Proxy)
  BY DEF Init
<1>2. 0 \in 0..MaxTries /\ 0 \in 0..MaxImportRetries /\ 0 < MaxTries
  BY ServerAssumption, PoolAssumption
<1>3. handler \in [Client -> Handler]
      /\ \A c \in Client : handler[c].st = "idle" /\ handler[c].proxy = None /\ handler[c].tries = 0
  BY <1>2 DEF Init, Handler
<1>4. TypeOK  BY <1>1, <1>3 DEF Init, TypeOK, Gone
<1>5. HandlersSound  BY <1>2, <1>3 DEF HandlersSound, Using
<1>6. NoDuplicates /\ PoolIsCurrent
  BY <1>1, <1>3 DEF Init, NoDuplicates, Once, PoolIsCurrent
<1>7. \A p \in Proxy : Placed(p)
  BY <1>1, <1>3, PoolAssumption
     DEF Init, Placed, InSupply, IsNewcomer, In, Pooled, Held, Lost
<1> QED  BY <1>4, <1>5, <1>6, <1>7 DEF ServerInv

\* The invariant is inductive.
LEMMA ServerStep == ServerInv /\ [Next]_vars => ServerInv'
<1> SUFFICES ASSUME ServerInv, [Next]_vars PROVE ServerInv'  OBVIOUS
<1>1. ASSUME NEW a \in Address, RemoveNewcomer(a) \/ RemoveEstablished(a) \/ RemoveRaises(a)
      PROVE  ServerInv'
  BY <1>1, RemoveNewcomerKeeps, RemoveKeeps
<1>2. CASE SupplyEnds \/ \E p \in Proxy : Supply(p)
  BY <1>2, SupplyKeeps
<1>3. CASE ServerStops \/ \E c \in Client : NoProxyStops(c)
  BY <1>3, StopsKeep
<1>4. ASSUME NEW c \in Client, NEW s \in Scheme, Request(c, s) PROVE ServerInv'
  BY <1>4, RequestKeeps
<1>5. ASSUME NEW c \in Client, GetImports(c) \/ ImportEnds(c) PROVE ServerInv'
  BY <1>5, HandlerAloneKeeps
<1>6. ASSUME NEW c \in Client, GetNewcomer(c) \/ GetBest(c) \/ GetRaises(c) PROVE ServerInv'
  BY <1>6, GetNewcomerKeeps, GetBestKeeps, GetRaisesKeeps
<1>7. ASSUME NEW c \in Client, ImportMatch(c) \/ ImportMismatch(c) PROVE ServerInv'
  BY <1>7, ImportMatchKeeps, ImportMismatchKeeps
<1>8. ASSUME NEW c \in Client, UseEnds(c) \/ UseFails(c) \/ UseCancelled(c) PROVE ServerInv'
  BY <1>8, UseKeeps
<1>9. CASE UNCHANGED vars
  <2>1. HandlersSound'  BY <1>9 DEF vars, ServerInv, HandlersSound, Using
  <2>2. TypeOK'  BY <1>9 DEF vars, poolVars, ServerInv, TypeOK
  <2>3. Once(supply)' /\ \A q \in Proxy : InSupply(q)' <=> InSupply(q)
    BY <1>9, OtherTypes DEF vars, poolVars, InSupply
  <2> QED  BY <1>9, <2>1, <2>2, <2>3, NothingMoves DEF vars, poolVars
<1> QED
  BY <1>1, <1>2, <1>3, <1>4, <1>5, <1>6, <1>7, <1>8, <1>9 DEF Next, HandlerStep, OwnStep

\* In every behaviour each proxy object is in the place its handler's step says:
\* back in the pool, or gone by the exception that ended that connection, be it
\* in get(), in _choice_proto, in request.decode() or in put().
THEOREM ServerInvariant == Spec => []ServerInv
<1> QED  BY ServerInit, ServerStep, PTL DEF Spec

\* A connection's own step leaves the others as they are, and it has not ended.
LEMMA OthersStay ==
  ASSUME ServerInv, NEW d \in Client,
         HandlerStep(d) \/ (\E s \in Scheme : Request(d, s)), ~NoProxyStops(d)
  PROVE  /\ handler[d].st \in {"idle"} \cup Busy
         /\ \A c \in Client : c # d => handler'[c] = handler[c]
<1> USE HandlerTypes
<1>1. CASE GetImports(d) \/ GetRaises(d)
  BY <1>1 DEF GetImports, GetRaises, MyTurn, Busy
<1>2. CASE GetNewcomer(d) \/ GetBest(d) \/ ImportMatch(d)
  BY <1>2 DEF GetNewcomer, GetBest, ImportMatch, Choose, MyTurn, Busy
<1>3. CASE ImportMismatch(d) \/ ImportEnds(d)
  BY <1>3 DEF ImportMismatch, ImportEnds, Busy
<1>4. CASE UseEnds(d) \/ UseFails(d) \/ UseCancelled(d)
  <2>1. handler[d].st \in Busy /\ \E next : PutBack(d, next)
    BY <1>4 DEF UseEnds, UseFails, UseCancelled, Busy
  <2>2. \E st : handler' = Released(d, st)  BY <2>1 DEF PutBack, DecodeRaises
  <2> QED  BY <2>1, <2>2 DEF Released
<1>5. ASSUME NEW s \in Scheme, Request(d, s)
      PROVE  handler[d].st = "idle" /\ \A c \in Client : c # d => handler'[c] = handler[c]
  BY <1>5 DEF Request
<1> QED  BY <1>1, <1>2, <1>3, <1>4, <1>5 DEF HandlerStep, OwnStep

\* A connection that ended with such an exception stays so.
LEMMA EndsStay ==
  ASSUME ServerInv, [Next]_vars, NEW c \in Client,
         handler[c].st \in {"protoError", "decodeError"}
  PROVE  handler'[c].st = handler[c].st
<1>1. ASSUME NEW d \in Client, HandlerStep(d) \/ (\E s \in Scheme : Request(d, s)),
             ~NoProxyStops(d)
      PROVE  handler'[c].st = handler[c].st
  BY <1>1, OthersStay DEF Busy
<1>2. StopConnections[c] = handler[c]  BY DEF StopConnections
<1>3. CASE ServerStops  BY <1>2, <1>3 DEF ServerStops
<1>4. ASSUME NEW d \in Client, NoProxyStops(d) PROVE handler'[c].st = handler[c].st
  <2>1. d # c  BY <1>4 DEF NoProxyStops
  <2> DEFINE h == IF listening THEN StopConnections ELSE handler
  <2>2. handler' = [h EXCEPT ![d].st = "closed"] /\ h[c] = handler[c]
    BY <1>2, <1>4 DEF NoProxyStops
  <2>3. h \in [Client -> Handler]  BY StopMoves, HandlerTypes
  <2> HIDE DEF h
  <2> QED  BY <2>1, <2>2, <2>3
<1>5. CASE handler' = handler  BY <1>5
<1>6. \/ ServerStops \/ handler' = handler
      \/ \E d \in Client : HandlerStep(d) \/ (\E s \in Scheme : Request(d, s))
  BY DEF Next, vars, Supply, SupplyEnds, RemoveNewcomer, RemoveEstablished, RemoveRaises
<1> QED  BY <1>1, <1>3, <1>4, <1>5, <1>6

\* put() costs nobody such an exception; what does ends the connection with it.
LEMMA LossMoves ==
  ASSUME ServerInv, [Next]_vars, NEW p \in Proxy,
         gone'[p] \in {"protoError", "decodeError"}, gone'[p] # gone[p]
  PROVE  \E c \in Client : handler'[c].st = gone'[p]
<1> USE HandlerTypes, OtherTypes
<1>1. ASSUME NEW c \in Client, GetNewcomer(c) \/ GetBest(c) \/ ImportMatch(c)
      PROVE  handler'[c].st = gone'[p]
  <2>1. PICK q : Choose(c, q)  BY <1>1 DEF GetNewcomer, GetBest, ImportMatch
  <2>2. handler[c].scheme \notin Schemes[q]  BY <2>1 DEF Choose
  <2>3. handler' = [handler EXCEPT ![c].st = "protoError"]
        /\ gone' = [gone EXCEPT ![q] = "protoError"]
    BY <2>1, <2>2 DEF Choose
  <2> QED  BY <2>3
<1>2. ASSUME NEW q, NEW g, NEW t, Put(q, g, t) PROVE FALSE
  <2>1. gone' = gone \/ gone' = [gone EXCEPT ![q] = "discarded"]  BY <1>2 DEF Put
  <2> QED  BY <2>1
<1>3. ASSUME NEW c \in Client, UseEnds(c) \/ UseFails(c) \/ UseCancelled(c)
      PROVE  handler'[c].st = gone'[p]
  <2>1. \E next : PutBack(c, next)  BY <1>3 DEF UseEnds, UseFails, UseCancelled
  <2>2. DecodeRaises(c)  BY <1>2, <2>1 DEF PutBack
  <2>3. handler' = Released(c, "decodeError")
        /\ gone' = [gone EXCEPT ![handler[c].proxy] = "decodeError"]
    BY <2>2 DEF DecodeRaises
  <2>4. handler'[c].st = "decodeError"  BY <2>3 DEF Released
  <2> QED  BY <2>3, <2>4
<1>4. ASSUME NEW c \in Client, ImportMismatch(c) PROVE FALSE
  BY <1>2, <1>4 DEF ImportMismatch
<1>5. ASSUME NEW c \in Client, GetRaises(c) PROVE FALSE
  BY <1>5 DEF GetRaises
<1>6. ASSUME NEW a \in Address, RemoveNewcomer(a) \/ RemoveEstablished(a) \/ RemoveRaises(a)
      PROVE  FALSE
  BY <1>6 DEF RemoveNewcomer, RemoveEstablished, RemoveRaises
<1>7. gone' # gone  OBVIOUS
<1> QED
  BY <1>1, <1>3, <1>4, <1>5, <1>6, <1>7
     DEF Next, vars, poolVars, HandlerStep, OwnStep, GetImports, ImportEnds, NoProxyStops,
         Supply, SupplyEnds, ServerStops, Request

\* The invariants together.
LEMMA TracedStep == ServerInv /\ Traced /\ [Next]_vars => Traced'
<1> SUFFICES ASSUME ServerInv, Traced, [Next]_vars, NEW p \in Proxy,
                    gone'[p] \in {"protoError", "decodeError"}
             PROVE  \E c \in Client : handler'[c].st = gone'[p]
  BY DEF Traced
<1>1. CASE gone'[p] = gone[p]
  <2>1. PICK c \in Client : handler[c].st = gone[p]  BY <1>1 DEF Traced
  <2> QED  BY <1>1, <2>1, EndsStay
<1>2. CASE gone'[p] # gone[p]  BY <1>2, LossMoves
<1> QED  BY <1>1, <1>2

\* An object the broker delivered is in exactly one place (server.py:512): two
\* connections never share it, and it leaves only by put() or remove(), or by an
\* exception that ends the connection: of _choice_proto (server.py:76),
\* of a comparison in the heap (193) or of request.decode() (510).
THEOREM ServerCustody == Spec => []Custody
<1>1. Init => Traced  BY DEF Init, Traced
<1>2. Spec => []Traced  BY <1>1, ServerInvariant, TracedStep, PTL DEF Spec
<1> QED  BY <1>2, PlacedIsCustody, ServerInvariant, PTL

\* The key of a heap entry (server.py:193) is the proxy's present response time, and
\* the heap holds what has proved itself, the queue of newcomers what has not.
THEOREM ServerPoolIsCurrent == Spec => []PoolIsCurrent
<1>1. ServerInv => PoolIsCurrent  BY DEF ServerInv
<1> QED  BY <1>1, ServerInvariant, PTL
=============================================================================
