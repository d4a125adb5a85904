---------------------------- MODULE ProviderProofs ----------------------------
(***************************************************************************)
(* Provider: the inductive invariant of a provider that is fetched pass    *)
(* after pass, and the proof that its semaphore is kept, that only a fetch *)
(* which failed leaves tasks behind, and that what documented pages list   *)
(* is what is handed over: no more and no less.                            *)
(***************************************************************************)
EXTENDS Provider, FiniteSetTheorems, WellFoundedInduction, TLAPS

-----------------------------------------------------------------------------
(* What a page lists, and what a provider reads in it. *)

\* A set of natural numbers has a least member.
LEMMA LeastOf ==
  ASSUME NEW S \in SUBSET Nat, S # {}
  PROVE  \E n \in S : \A m \in S : n <= m
<1>1. PICK n \in S : \A m \in S : ~ (<<m, n>> \in OpToRel(<, Nat))
  BY NatLessThanWellFounded, WFMin
<1>2. \A m \in S : ~ (m < n) BY <1>1 DEF OpToRel
<1> QED BY <1>2

\* And one that is bounded has a greatest: the last mark of an address.
LEMMA GreatestOf ==
  ASSUME NEW n \in Nat, NEW S \in SUBSET (1..n), S # {}
  PROVE  Max(S) \in S
<1> DEFINE D == {n - i : i \in S}
<1>0. \A i \in S : i \in 1..n OBVIOUS
<1>1. D \in SUBSET Nat /\ D # {}
  <2>1. \A i \in S : n - i \in Nat BY <1>0
  <2>2. \A d \in D : d \in Nat BY <2>1
  <2> QED BY <2>2
<1>2. PICK d \in D : \A m \in D : d <= m
  <2> HIDE DEF D
  <2> QED BY <1>1, LeastOf
<1>3. PICK i \in S : d = n - i BY <1>2
<1>4. \A j \in S : i >= j
  <2> TAKE j \in S
  <2>1. d <= n - j BY <1>2
  <2> QED BY <2>1, <1>3, <1>0
<1> QED BY <1>3, <1>4 DEF Max

\* The tables on the way through the definitions of a page: the recursion
\* defines them, whatever the table it starts from.
LEMMA TablesExist ==
  ASSUME NEW defs, NEW before, Len(defs) \in Nat
  PROVE  /\ Tables(defs, before)[0] = before
         /\ \A i \in 1..Len(defs) :
              Tables(defs, before)[i] = Define(Tables(defs, before)[i - 1], defs[i])
<1> DEFINE Body(g, n) == [i \in 0..n |-> IF i = 0 THEN before ELSE Define(g[i - 1], defs[i])]
           Missing == {n \in Nat : ~ \E g : g = Body(g, n)}
<1>1. Missing = {}
  <2> SUFFICES ASSUME Missing # {} PROVE FALSE OBVIOUS
  <2>1. PICK n \in Missing : \A m \in Missing : n <= m
    <3> HIDE DEF Body
    <3> QED BY LeastOf
  <2>2. CASE n = 0
    <3> DEFINE g == [i \in 0..0 |-> before]
    <3>1. g = Body(g, 0) OBVIOUS
    <3> HIDE DEF g, Body
    <3> QED BY <3>1, <2>1, <2>2
  <2>3. CASE n # 0
    <3>1. n - 1 \in Nat /\ n - 1 \notin Missing
      <4> HIDE DEF Body
      <4> QED BY <2>1, <2>3
    <3>2. PICK h : h = Body(h, n - 1)
      <4> HIDE DEF Body
      <4> QED BY <3>1
    <3> DEFINE g == [i \in 0..n |-> IF i < n THEN h[i] ELSE Define(h[n - 1], defs[n])]
    <3>3. \A i \in 0..n - 1 : h[i] = IF i = 0 THEN before ELSE Define(h[i - 1], defs[i])
      BY <3>2, <3>1
    <3>4. \A i \in 0..n : g[i] = IF i = 0 THEN before ELSE Define(g[i - 1], defs[i])
      <4> SUFFICES ASSUME NEW i \in 0..n
                   PROVE  g[i] = IF i = 0 THEN before ELSE Define(g[i - 1], defs[i])
        OBVIOUS
      <4>1. CASE i = 0 BY <4>1, <3>3, <3>1
      <4>2. CASE i # 0
        <5>1. i - 1 \in 0..n - 1 BY <4>2, <3>1
        <5>2. g[i - 1] = h[i - 1] BY <5>1, <3>1
        <5>3. g[i] = Define(h[i - 1], defs[i])
          <6>1. CASE i = n BY <6>1, <4>2
          <6>2. CASE i # n
            <7>1. i \in 0..n - 1 BY <6>2, <3>1
            <7> QED BY <7>1, <3>3, <4>2, <3>1
          <6> QED BY <6>1, <6>2
        <5> HIDE DEF g
        <5> QED BY <4>2, <5>2, <5>3
      <4> QED BY <4>1, <4>2
    <3>5. g = Body(g, n)
      <4>1. g = [i \in 0..n |-> g[i]] OBVIOUS
      <4> HIDE DEF g
      <4> QED BY <4>1, <3>4
    <3> HIDE DEF g, Body
    <3> QED BY <3>5, <2>1
  <2> QED BY <2>2, <2>3
<1>2. \E g : g = Body(g, Len(defs))
  <2> HIDE DEF Body
  <2> QED BY <1>1
<1>3. Tables(defs, before) = Body(Tables(defs, before), Len(defs))
  BY <1>2 DEF Tables
<1> HIDE DEF Missing
<1>4. \A i \in 0..Len(defs) :
        Tables(defs, before)[i] =
          IF i = 0 THEN before ELSE Define(Tables(defs, before)[i - 1], defs[i])
  BY <1>3
<1> QED BY <1>4

\* When every symbol is defined once, and after those it refers to, what the
\* table says of them in the end satisfies their definitions.
LEMMA TableMeans ==
  ASSUME NEW p, IsSymbols(p), NEW before,
         \A i, j \in 1..Len(p.defs) : p.defs[i].sym = p.defs[j].sym => i = j,
         \A i \in 1..Len(p.defs) :
           p.defs[i].ref \in {None} \cup {p.defs[j].sym : j \in 1..i - 1},
         NEW i \in 1..Len(p.defs)
  PROVE  LET end == Tables(p.defs, before)[Len(p.defs)]
         IN /\ p.defs[i].sym \in DOMAIN end
            /\ end[p.defs[i].sym] = Value(end, p.defs[i])
            /\ end[p.defs[i].sym] \in 0..1
<1> DEFINE D == p.defs
           n == Len(D)
           T == Tables(D, before)
           Known(k) == \A j \in 1..k : /\ D[j].sym \in DOMAIN T[k]
                                      /\ T[k][D[j].sym] = Value(T[k], D[j])
                                      /\ T[k][D[j].sym] \in 0..1
           Bad == {k \in 0..n : ~ Known(k)}
<1>1. D \in Seq(ToSet(D)) /\ n \in Nat /\ \A j \in 1..n : D[j].num \in 0..1
  BY DEF IsSymbols
<1>2. \A k \in 1..n : T[k] = Define(T[k - 1], D[k])
  BY <1>1, TablesExist
<1>3. ASSUME NEW k \in 1..n, Known(k - 1)
      PROVE  Known(k)
  <2> DEFINE old == T[k - 1]
             new == T[k]
             v == Value(old, D[k])
  <2>1. k - 1 \in Nat /\ \A j \in 1..k - 1 : j \in 1..n /\ j # k /\ D[j].sym # D[k].sym
    BY <1>1
  <2>2. \A j \in 1..k - 1 : D[j].sym \in DOMAIN old /\ old[D[j].sym] = Value(old, D[j])
                             /\ old[D[j].sym] \in 0..1
    BY <1>3
  <2>3. D[k].ref # None => \E j \in 1..k - 1 : D[k].ref = D[j].sym
    OBVIOUS
  <2>4. D[k].ref \in DOMAIN old \cup {None}
    BY <2>2, <2>3
  <2>5. new = With(old, D[k].sym, v)
    BY <1>2, <2>4 DEF Define
  <2>6. D[k].sym \in DOMAIN new /\ new[D[k].sym] = v
    BY <2>5 DEF With
  <2>7. \A s \in DOMAIN old : s # D[k].sym => s \in DOMAIN new /\ new[s] = old[s]
    BY <2>5 DEF With
  <2>8. \A j \in 1..k : D[j].ref # None => new[D[j].ref] = old[D[j].ref]
    <3> TAKE j \in 1..k
    <3> HAVE D[j].ref # None
    <3>1. j \in 1..n BY <1>1
    <3>2. PICK l \in 1..j - 1 : D[j].ref = D[l].sym BY <3>1
    <3>3. l \in 1..k - 1 BY <3>1, <1>1
    <3> QED BY <3>2, <3>3, <2>1, <2>2, <2>7
  <2>9. \A j \in 1..k : Value(new, D[j]) = Value(old, D[j])
    BY <2>8 DEF Value
  <2>10. v \in 0..1
    <3>1. CASE D[k].ref = None BY <3>1, <1>1 DEF Value
    <3>2. CASE D[k].ref # None
      <4>1. old[D[k].ref] \in 0..1 BY <2>2, <2>3, <3>2
      <4>2. D[k].num \in 0..1 BY <1>1
      <4>3. v = Xor(D[k].num, old[D[k].ref]) BY <3>2 DEF Value
      <4> QED BY <4>1, <4>2, <4>3 DEF Xor
    <3> QED BY <3>1, <3>2
  <2> HIDE DEF old, new, v
  <2>11. ASSUME NEW j \in 1..k
         PROVE  /\ D[j].sym \in DOMAIN new
                /\ new[D[j].sym] = Value(new, D[j])
                /\ new[D[j].sym] \in 0..1
    <3>1. CASE j = k
      <4>1. Value(old, D[k]) = v BY DEF v
      <4> QED BY <3>1, <4>1, <2>6, <2>9, <2>10
    <3>2. CASE j # k
      <4>1. j \in 1..k - 1 BY <3>2, <1>1
      <4> QED BY <4>1, <2>1, <2>2, <2>7, <2>9
    <3> QED BY <3>1, <3>2
  <2> QED BY <2>11 DEF new
<1>4. Bad = {}
  <2> SUFFICES ASSUME Bad # {} PROVE FALSE OBVIOUS
  <2>1. Bad \in SUBSET Nat BY <1>1
  <2>2. PICK k \in Bad : \A m \in Bad : k <= m
    <3> HIDE DEF Bad
    <3> QED BY <2>1, LeastOf
  <2>3. k # 0 /\ k \in 1..n BY <1>1, <2>2
  <2> HIDE DEF Known
  <2>4. k - 1 \in 0..n /\ k - 1 \notin Bad
    <3>1. k - 1 \in 0..n /\ ~ (k <= k - 1) BY <2>3, <1>1
    <3> QED BY <3>1, <2>2
  <2>5. Known(k - 1) BY <2>4
  <2> QED BY <2>5, <2>3, <1>3, <2>2
<1>5. Known(n)
  <2> HIDE DEF Known
  <2> QED BY <1>4, <1>1
<1> QED BY <1>5

\* So the digits that the table gives to the symbols of such a page are those
\* the page means, whatever earlier pages have left in it.
LEMMA TableIsMeaning ==
  ASSUME NEW p, IsSymbols(p), NEW before,
         \A i, j \in 1..Len(p.defs) : p.defs[i].sym = p.defs[j].sym => i = j,
         \A i \in 1..Len(p.defs) :
           p.defs[i].ref \in {None} \cup {p.defs[j].sym : j \in 1..i - 1},
         NEW i \in 1..Len(p.defs)
  PROVE  LET end == Tables(p.defs, before)[Len(p.defs)]
         IN /\ p.defs[i].sym \in DOMAIN end
            /\ Meaning(p)[p.defs[i].sym] = end[p.defs[i].sym]
            /\ end[p.defs[i].sym] \in 0..1
<1> DEFINE D == p.defs
           n == Len(D)
           end == Tables(D, before)[n]
           Syms == {def.sym : def \in ToSet(D)}
           Fits(t) == \A def \in ToSet(D) : t[def.sym] = Value(t, def)
           m == [s \in Syms |-> end[s]]
           Bad == {j \in 1..n : Meaning(p)[D[j].sym] # end[D[j].sym]}
<1>1. /\ D \in Seq(ToSet(D)) /\ n \in Nat /\ DOMAIN D = 1..n
      /\ ToSet(D) = {D[j] : j \in 1..n}
  BY DEF IsSymbols, ToSet
<1>2. \A j \in 1..n : /\ D[j].sym \in DOMAIN end /\ D[j].sym \in Syms
                      /\ end[D[j].sym] = Value(end, D[j])
                      /\ end[D[j].sym] \in 0..1
  <2> TAKE j \in 1..n
  <2>1. /\ D[j].sym \in DOMAIN end
        /\ end[D[j].sym] = Value(end, D[j])
        /\ end[D[j].sym] \in 0..1
    BY TableMeans
  <2>2. D[j].sym \in Syms BY <1>1
  <2> QED BY <2>1, <2>2
<1> HIDE DEF end
<1>3. \A j \in 1..n : D[j].ref # None => \E l \in 1..j - 1 : l \in 1..n /\ D[j].ref = D[l].sym
  <2> TAKE j \in 1..n
  <2> HAVE D[j].ref # None
  <2>1. PICK l \in 1..j - 1 : D[j].ref = D[l].sym OBVIOUS
  <2>2. l \in 1..n BY <1>1
  <2> QED BY <2>1, <2>2
<1>4. Fits(m)
  <2>1. \A j \in 1..n : m[D[j].sym] = Value(m, D[j])
    <3> TAKE j \in 1..n
    <3>1. m[D[j].sym] = end[D[j].sym] BY <1>2
    <3>2. Value(m, D[j]) = Value(end, D[j])
      <4>1. CASE D[j].ref = None BY <4>1 DEF Value
      <4>2. CASE D[j].ref # None
        <5>1. m[D[j].ref] = end[D[j].ref] BY <1>2, <1>3, <4>2
        <5> HIDE DEF m
        <5> QED BY <5>1, <4>2 DEF Value
      <4> QED BY <4>1, <4>2
    <3> HIDE DEF m
    <3> QED BY <3>1, <3>2, <1>2
  <2> HIDE DEF m
  <2> QED BY <2>1, <1>1
<1>5. m \in [Syms -> 0..1]
  <2>1. \A s \in Syms : end[s] \in 0..1
    <3> TAKE s \in Syms
    <3>1. PICK def \in ToSet(D) : s = def.sym OBVIOUS
    <3>2. PICK j \in 1..n : def = D[j] BY <1>1
    <3> QED BY <3>1, <3>2, <1>2
  <2> HIDE DEF Syms
  <2> QED BY <2>1
<1>6. Fits(Meaning(p))
  <2> HIDE DEF m
  <2> QED BY <1>4, <1>5 DEF Meaning
<1>7. Bad = {}
  <2> SUFFICES ASSUME Bad # {} PROVE FALSE OBVIOUS
  <2>1. Bad \in SUBSET Nat OBVIOUS
  <2>2. PICK j \in Bad : \A k \in Bad : j <= k
    <3> HIDE DEF Bad
    <3> QED BY <2>1, LeastOf
  <2>3. j \in 1..n /\ Meaning(p)[D[j].sym] = Value(Meaning(p), D[j])
    BY <1>1, <1>6
  <2>4. Value(Meaning(p), D[j]) = Value(end, D[j])
    <3>1. CASE D[j].ref = None BY <3>1 DEF Value
    <3>2. CASE D[j].ref # None
      <4>1. PICK l \in 1..j - 1 : l \in 1..n /\ D[j].ref = D[l].sym BY <2>3, <3>2, <1>3
      <4>2. ~ (j <= l) BY <2>3
      <4>3. Meaning(p)[D[l].sym] = end[D[l].sym] BY <2>2, <4>1, <4>2
      <4> QED BY <3>2, <4>1, <4>3 DEF Value
    <3> QED BY <3>1, <3>2
  <2> QED BY <2>2, <2>3, <2>4, <1>2
<1> QED BY <1>2, <1>7 DEF end

\* A documented page of symbols is read for what it lists, and every address
\* on it has a port.
LEMMA SymbolsDecoded ==
  ASSUME NEW reads, reads.keeps \in BOOLEAN, NEW p, p.kind = "symbols", IsSymbols(p),
         DocumentedSymbols(reads, p), NEW table
  PROVE  /\ BySymbols(p, Defined(p, table, reads.keeps), reads.keeps) = Listed(p)
         /\ \A a \in Listed(p) : a[2] # NoPort
<1> DEFINE D == p.defs
           n == Len(D)
           end == Defined(p, table, reads.keeps)
<1>1. \A i, j \in 1..n : D[i].sym = D[j].sym => i = j
  BY DEF DocumentedSymbols
<1>2. \A i \in 1..n : D[i].ref \in {None} \cup {D[j].sym : j \in 1..i - 1}
  BY DEF DocumentedSymbols
<1>3. \A row \in p.rows : /\ ToSet(row.syms) \subseteq {D[i].sym : i \in 1..n}
                          /\ reads.keeps => Len(row.syms) = 2
  BY DEF DocumentedSymbols
<1>4. \A i \in 1..n : /\ D[i].sym \in DOMAIN end
                      /\ Meaning(p)[D[i].sym] = end[D[i].sym]
                      /\ end[D[i].sym] \in 0..1
  <2>1. PICK before : end = Tables(D, before)[n] BY DEF Defined
  <2> HIDE DEF end
  <2> TAKE i \in 1..n
  <2> QED BY <2>1, <1>1, <1>2, TableIsMeaning
<1> HIDE DEF end
<1>5. ASSUME NEW row \in p.rows
      PROVE  /\ Decodable(row, end, reads.keeps)
             /\ Port(row, end) = Port(row, Meaning(p))
             /\ Port(row, end) \in 0..1
  <2>0. row.syms \in Seq(ToSet(row.syms)) /\ Len(row.syms) \in 1..2
    BY DEF IsSymbols
  <2>1. /\ Len(row.syms) \in 1..2
        /\ ToSet(row.syms) = {row.syms[k] : k \in 1..Len(row.syms)}
    <3>1. DOMAIN row.syms = 1..Len(row.syms) BY <2>0
    <3> QED BY <2>0, <3>1 DEF ToSet
  <2>2. \A k \in 1..Len(row.syms) : \E i \in 1..n : row.syms[k] = D[i].sym
    BY <2>1, <1>3
  <2>3. \A k \in 1..Len(row.syms) : /\ row.syms[k] \in DOMAIN end
                                    /\ Meaning(p)[row.syms[k]] = end[row.syms[k]]
                                    /\ end[row.syms[k]] \in 0..1
    BY <2>2, <1>4
  <2>4. Decodable(row, end, reads.keeps)
    BY <2>1, <2>3, <1>3 DEF Decodable
  <2>5. CASE Len(row.syms) = 1
    BY <2>3, <2>4, <2>5 DEF Port
  <2>6. CASE Len(row.syms) = 2
    BY <2>3, <2>4, <2>6 DEF Port, Xor
  <2> QED BY <2>1, <2>5, <2>6
<1>6. BySymbols(p, end, reads.keeps) = {<<row.host, Port(row, Meaning(p))>> : row \in p.rows}
  BY <1>5 DEF BySymbols
<1>7. Listed(p) = {<<row.host, Port(row, Meaning(p))>> : row \in p.rows}
  BY DEF Listed
<1>8. \A a \in Listed(p) : a[2] # NoPort
  BY <1>5, <1>7, NoneAssumption DEF NoPort
<1> QED BY <1>6, <1>7, <1>8 DEF end

\* The lines of a page that is of some forms only: a reader of these forms finds
\* all that is listed, a reader of others nothing.
LEMMA OnAllOf ==
  ASSUME NEW p, p.kind = "text", IsText(p), NEW F, AllOf(p, F), NEW G
  PROVE  /\ F \subseteq G => On(p, G) = Listed(p)
         /\ F \cap G = {} => On(p, G) = {}
<1>1. /\ DOMAIN p.lines = 1..Len(p.lines)
      /\ \A i \in DOMAIN p.lines : p.lines[i].form \in LineForm
  BY DEF IsText
<1>2. \A l \in ToSet(p.lines) : l.form \in F /\ l.form \in LineForm
  BY <1>1 DEF ToSet, AllOf
<1>3. Listed(p) = {l.addr : l \in ToSet(p.lines)}
  BY <1>2 DEF Listed, On
<1>4. F \subseteq G => On(p, G) = {l.addr : l \in ToSet(p.lines)}
  BY <1>2 DEF On
<1>5. F \cap G = {} => On(p, G) = {}
  BY <1>2 DEF On
<1> QED BY <1>3, <1>4, <1>5

\* What a documented text or JSON page lists are addresses.
LEMMA ListedAddresses ==
  ASSUME NEW p, IsPage(p), p.kind \in {"text", "json"}, NEW a \in Listed(p)
  PROVE  IsAddress(a)
<1>1. CASE p.kind = "json"
  BY <1>1 DEF Listed, IsPage, Blank
<1>2. CASE p.kind = "text"
  <2>1. IsText(p) BY <1>2 DEF IsPage, Blank
  <2>2. \A l \in ToSet(p.lines) : IsAddress(l.addr) BY <2>1 DEF IsText, ToSet
  <2> QED BY <2>2, <1>2 DEF Listed, On
<1> QED BY <1>1, <1>2

\* Paired by position, the hosts and ports of rows that have both are those of
\* one row each.
LEMMA RowsPaired ==
  ASSUME NEW p, p.kind = "text", IsText(p), AllOf(p, {"tagged"})
  PROVE  ByPosition(p) = Listed(p)
<1> DEFINE L == p.lines
           n == Len(L)
           hosts == {i \in DOMAIN L : L[i].form # "hostless"}
<1>1. n \in Nat /\ DOMAIN L = 1..n /\ \A i \in 1..n : IsAddress(L[i].addr)
  BY DEF IsText
<1>2. hosts = 1..n
  BY <1>1 DEF AllOf
<1>3. ASSUME NEW i \in 1..n
      PROVE  Cardinality({j \in hosts : j <= i}) = i
  <2>1. {j \in hosts : j <= i} = 1..i BY <1>1, <1>2
  <2>2. Cardinality(1..i) = i BY FS_Interval
  <2> HIDE DEF hosts
  <2> QED BY <2>1, <2>2
<1>4. \A i \in 1..n : L[i].addr = <<L[i].addr[1], L[i].addr[2]>>
  BY <1>1 DEF IsAddress
<1>5. ByPosition(p) = {<<L[i].addr[1], L[Cardinality({j \in hosts : j <= i})].addr[2]>> : i \in hosts}
  BY DEF ByPosition
<1>6. ByPosition(p) = {L[i].addr : i \in 1..n}
  <2>1. \A i \in hosts :
          <<L[i].addr[1], L[Cardinality({j \in hosts : j <= i})].addr[2]>> = L[i].addr
    <3> HIDE DEF hosts
    <3> QED BY <1>2, <1>3, <1>4
  <2> HIDE DEF hosts
  <2>2. ByPosition(p) = {L[i].addr : i \in hosts} BY <1>5, <2>1
  <2> QED BY <2>2, <1>2
<1>7. Listed(p) = On(p, {"tagged"}) BY OnAllOf
<1>8. On(p, {"tagged"}) = {l.addr : l \in {k \in ToSet(L) : k.form = "tagged"}}
  BY DEF On
<1>9. {k \in ToSet(L) : k.form = "tagged"} = ToSet(L)
  BY <1>1 DEF ToSet, AllOf
<1>10. ToSet(L) = {L[i] : i \in 1..n} BY <1>1 DEF ToSet
<1> QED BY <1>6, <1>7, <1>8, <1>9, <1>10

\* A documented text page is read for what it lists.
LEMMA TextRead ==
  ASSUME NEW reads, NEW p, p.kind = "text", IsText(p), DocumentedText(reads, p), NEW table
  PROVE  Received(reads, p, table) = Listed(p)
<1>0. /\ \A F, G : AllOf(p, F) /\ F \subseteq G => On(p, G) = Listed(p)
      /\ \A F, G : AllOf(p, F) /\ F \cap G = {} => On(p, G) = {}
  BY OnAllOf
<1>1. \A F : F \subseteq LineForm \ {"garbled"} /\ AllOf(p, F) => On(p, {"garbled"}) = {}
  BY <1>0
<1>2. \A form : Uniform(p, form) <=> AllOf(p, {form})
  BY DEF Uniform, AllOf
<1>3. ASSUME NEW F, AllOf(p, F), F \subseteq Plain \ {"v6"}
      PROVE  FindIPv4(p) = Listed(p)
  <2>1. On(p, Plain \ {"v6"}) = Listed(p) BY <1>0, <1>3
  <2>2. On(p, {"portless"}) = {} BY <1>0, <1>3 DEF Plain
  <2> QED BY <2>1, <2>2 DEF FindIPv4
<1>4. CASE reads.by = "pattern"
  <2>1. AllOf(p, Plain) BY <1>4 DEF DocumentedText
  <2>2. On(p, {"garbled"}) = {} BY <2>1, <1>0 DEF Plain
  <2>3. On(p, {"portless"}) = {} BY <2>1, <1>0 DEF Plain
  <2>4. ByPattern(p) = On(p, Plain \ {"v6"}) \cup On(p, {"v6"})
    BY <2>3 DEF ByPattern, FindIPv4
  <2>5. On(p, Plain \ {"v6"}) \cup On(p, {"v6"}) = On(p, Plain)
    BY DEF On, Plain
  <2>6. On(p, Plain) = Listed(p) BY <2>1, <1>0
  <2> QED BY <1>4, <2>2, <2>4, <2>5, <2>6 DEF Received
<1>5. CASE reads.by = "api"
  <2>1. AllOf(p, Plain \ {"v6"}) BY <1>5 DEF DocumentedText
  <2>2. On(p, {"garbled"}) = {} BY <2>1, <1>0 DEF Plain
  <2>3. ByApi(p, reads.format, reads.path) = FindIPv4(p) BY DEF ByApi
  <2> QED BY <1>5, <2>1, <2>2, <2>3, <1>3 DEF Received
<1>6. CASE reads.by = "custom"
  <2>1. reads.groups \in 1..2 /\ AllOf(p, {"colon", "url"}) BY <1>6 DEF DocumentedText
  <2>2. On(p, {"garbled"}) = {} BY <2>1, <1>0
  <2> QED BY <1>6, <2>1, <2>2, <1>0 DEF Received, ByCustomPattern
<1>7. CASE reads.by = "base64"
  <2>1. AllOf(p, {"coded"}) BY <1>7 DEF DocumentedText
  <2>2. On(p, {"garbled"}) = {} BY <2>1, <1>0
  <2>3. On(p, {"coded", "triple"}) = Listed(p) BY <2>1, <1>0
  <2> QED BY <1>7, <2>2, <2>3 DEF Received, ByBase64
<1>8. CASE reads.by = "position"
  <2>1. AllOf(p, {"tagged"}) BY <1>8 DEF DocumentedText
  <2>2. On(p, {"garbled"}) = {} BY <2>1, <1>0
  <2> QED BY <1>8, <2>1, <2>2, RowsPaired DEF Received
<1>9. CASE reads.by = "simple"
  <2>1. \/ reads.format = "text" /\ AllOf(p, {"colon", "noted", "spaced"})
        \/ reads.format = "html" /\ AllOf(p, Plain \ {"v6"})
        \/ reads.format = "csv" /\ AllOf(p, {"comma"})
        \/ /\ reads.format = "auto"
           /\ \/ \E form \in {"colon", "spaced", "tagged"} : AllOf(p, {form})
              \/ AllOf(p, {"comma"}) /\ Len(p.lines) > 1
    BY <1>9, <1>2 DEF DocumentedText
  <2>2. ASSUME AllOf(p, {"colon", "noted", "spaced"})
        PROVE  ByText(p) = Listed(p) /\ On(p, {"garbled"}) = {}
    <3>1. On(p, {"colon", "noted", "spaced"}) = Listed(p) BY <2>2, <1>0
    <3>2. On(p, {"prose"}) = {} BY <2>2, <1>0
    <3>3. On(p, {"garbled"}) = {} BY <2>2, <1>0
    <3> QED BY <3>1, <3>2, <3>3 DEF ByText, JunkIf
  <2>3. ASSUME AllOf(p, {"comma"})
        PROVE  ByCsv(p) = Listed(p) /\ On(p, {"garbled"}) = {}
    <3>1. On(p, {"comma"}) = Listed(p) BY <2>3, <1>0
    <3>2. On(p, {"noted"}) = {} BY <2>3, <1>0
    <3>3. On(p, {"garbled"}) = {} BY <2>3, <1>0
    <3> QED BY <3>1, <3>2, <3>3 DEF ByCsv, JunkIf
  <2>4. ASSUME AllOf(p, Plain \ {"v6"})
        PROVE  FindIPv4(p) = Listed(p) /\ On(p, {"garbled"}) = {}
    <3>1. On(p, {"garbled"}) = {} BY <2>4, <1>0 DEF Plain
    <3> QED BY <3>1, <2>4, <1>3
  <2>5. On(p, {"garbled"}) = {} => Received(reads, p, table) = BySimple(p, reads.format)
    BY <1>9 DEF Received
  <2>6. CASE reads.format = "text" /\ AllOf(p, {"colon", "noted", "spaced"})
    BY <2>6, <2>2, <2>5 DEF BySimple
  <2>7. CASE reads.format = "html" /\ AllOf(p, Plain \ {"v6"})
    BY <2>7, <2>4, <2>5 DEF BySimple
  <2>8. CASE reads.format = "csv" /\ AllOf(p, {"comma"})
    BY <2>8, <2>3, <2>5 DEF BySimple
  <2>9. CASE reads.format = "auto" /\ AllOf(p, {"comma"}) /\ Len(p.lines) > 1
    <3>1. p.lines[1].form = "comma" BY <2>9 DEF AllOf, IsText
    <3>2. Detected(p) = "csv" BY <3>1, <2>9 DEF Detected, FirstLineHasComma
    <3> QED BY <3>2, <2>9, <2>3, <2>5 DEF BySimple
  <2>10. ASSUME reads.format = "auto", NEW form \in {"colon", "spaced", "tagged"},
                AllOf(p, {form})
         PROVE  Received(reads, p, table) = Listed(p)
    <3>1. ~ FirstLineHasComma(p)
      <4>1. Len(p.lines) > 1 => p.lines[1].form = form BY <2>10 DEF AllOf, IsText
      <4> QED BY <4>1 DEF FirstLineHasComma
    <3>2. On(p, {"garbled"}) = {} BY <2>10, <1>0
    <3>3. CASE On(p, {"tagged"}) = {}
      <4>1. Detected(p) = "text" BY <3>1, <3>3 DEF Detected
      <4>2. ByText(p) = Listed(p)
        <5>1. CASE form \in {"colon", "spaced"}
          <6>1. AllOf(p, {"colon", "noted", "spaced"}) BY <2>10, <5>1 DEF AllOf
          <6> QED BY <6>1, <2>2
        <5>2. CASE form = "tagged"
          <6>1. Listed(p) = {} BY <2>10, <5>2, <3>3, <1>0
          <6>2. On(p, {"colon", "noted", "spaced"}) = {} /\ On(p, {"prose"}) = {}
            BY <2>10, <5>2, <1>0
          <6> QED BY <6>1, <6>2 DEF ByText, JunkIf
        <5> QED BY <5>1, <5>2
      <4> QED BY <4>1, <4>2, <3>2, <2>5, <2>10 DEF BySimple
    <3>4. CASE On(p, {"tagged"}) # {}
      <4>1. Detected(p) = "html" BY <3>1, <3>4 DEF Detected
      <4>2. form = "tagged" BY <2>10, <3>4, <1>0
      <4>3. FindIPv4(p) = Listed(p) BY <4>2, <2>10, <1>3 DEF Plain
      <4> QED BY <4>1, <4>3, <3>2, <2>5, <2>10 DEF BySimple
    <3> QED BY <3>3, <3>4
  <2> QED BY <2>1, <2>6, <2>7, <2>8, <2>9, <2>10
<1> QED BY <1>4, <1>5, <1>6, <1>7, <1>8, <1>9 DEF DocumentedText

\* And so is JSON of the shape that is expected: whether the path is found or
\* the pattern has to help out, the items are the same.
LEMMA JsonRead ==
  ASSUME NEW reads, NEW p, p.kind = "json", DocumentedJson(reads, p), NEW table
  PROVE  Received(reads, p, table) = Listed(p)
<1>1. On(p, {"garbled"}) = {} /\ Listed(p) = {item.addr : item \in p.items}
  BY DEF On, Listed
<1>2. \A hosts, ports :
        {"ip", "host", "address"} \subseteq hosts /\ {"port", "p"} \subseteq ports
          => ItemsWith(p.items, hosts, ports) = {item.addr : item \in p.items}
  <2> TAKE hosts, ports
  <2> HAVE {"ip", "host", "address"} \subseteq hosts /\ {"port", "p"} \subseteq ports
  <2>1. \A i \in p.items : i.ip = "text" \/ (i.ip \in hosts /\ i.port \in ports)
    BY DEF DocumentedJson
  <2> QED BY <2>1 DEF ItemsWith
<1>3. CASE reads.by = "simple"
  <2>1. reads.format \in {"auto", "json"} /\ p.at \in {<<>>, <<"proxies">>, <<"list">>}
    BY <1>3 DEF DocumentedJson
  <2>2. ByJson(p) = {item.addr : item \in p.items}
    BY <2>1, <1>2 DEF ByJson
  <2>3. Detected(p) = "json" BY DEF Detected
  <2>4. BySimple(p, reads.format) = ByJson(p) BY <2>1, <2>3 DEF BySimple
  <2> QED BY <1>1, <1>3, <2>2, <2>4 DEF Received
<1>4. CASE reads.by = "api"
  <2>1. FindIPv4(p) = {item.addr : item \in p.items} BY DEF FindIPv4
  <2>2. ItemsWith(p.items, {"ip", "host", "address", "proxy_ip"}, {"port", "proxy_port", "p"})
          = {item.addr : item \in p.items}
    BY <1>2
  <2>3. ByApi(p, reads.format, reads.path) = {item.addr : item \in p.items}
    BY <2>1, <2>2 DEF ByApi
  <2> QED BY <1>1, <1>4, <2>3 DEF Received
<1> QED BY <1>3, <1>4 DEF DocumentedJson

\* Whatever a provider reads, a documented page is read for what it lists.
LEMMA ListedIsReceived ==
  ASSUME NEW reads, reads.by = "symbols" => reads.keeps \in BOOLEAN,
         NEW p, IsPage(p), Documented(reads, p), NEW table
  PROVE  /\ Received(reads, p, Defined(p, table, reads.by = "symbols" /\ reads.keeps)) = Listed(p)
         /\ \A a \in Listed(p) : a[2] # NoPort
<1>1. CASE p.kind = "text"
  <2>1. IsText(p) BY <1>1 DEF IsPage, Blank
  <2>2. DocumentedText(reads, p) BY <1>1 DEF Documented
  <2>3. \A a \in Listed(p) : a[2] # NoPort BY <1>1, ListedAddresses DEF IsAddress
  <2> QED BY <1>1, <2>1, <2>2, <2>3, TextRead
<1>2. CASE p.kind = "json"
  <2>1. DocumentedJson(reads, p) BY <1>2 DEF Documented
  <2>2. \A a \in Listed(p) : a[2] # NoPort BY <1>2, ListedAddresses DEF IsAddress
  <2> QED BY <1>2, <2>1, <2>2, JsonRead
<1>3. CASE p.kind = "symbols"
  <2>1. IsSymbols(p) BY <1>3 DEF IsPage, Blank
  <2>2. DocumentedSymbols(reads, p) BY <1>3 DEF Documented
  <2>3. reads.by = "symbols" BY <2>2 DEF DocumentedSymbols
  <2>4. (reads.by = "symbols" /\ reads.keeps) = reads.keeps BY <2>3
  <2>5. On(p, {"garbled"}) = {} BY <1>3 DEF On
  <2>6. \A t : Received(reads, p, t) = BySymbols(p, t, reads.keeps)
    BY <2>3, <2>5 DEF Received
  <2> QED BY <1>3, <2>1, <2>2, <2>3, <2>4, <2>6, SymbolsDecoded
<1> QED BY <1>1, <1>2, <1>3 DEF Documented

\* The empty string, where a page was not got, shows nothing to any reader.
LEMMA BlankIsEmpty ==
  ASSUME NEW s \in Sources, NEW table
  PROVE  Received(s.reads, Blank, table) = {} /\ ~ Documented(s.reads, Blank)
<1>1. \A forms : On(Blank, forms) = {} BY DEF On, Blank
<1>2. FindIPv4(Blank) = {} BY <1>1 DEF FindIPv4, Blank
<1>3. ~ Documented(s.reads, Blank) BY DEF Documented, Blank
<1>4. \A form : JunkIf(Blank, form) = {} BY <1>1 DEF JunkIf
<1>5. ByText(Blank) = {} /\ ByCsv(Blank) = {} /\ ByJson(Blank) = {}
  BY <1>1, <1>4 DEF ByText, ByCsv, ByJson, Blank
<1>6. Detected(Blank) = "text" BY <1>1 DEF Detected, Blank
<1>7. s.reads.by = "simple" => BySimple(Blank, s.reads.format) = {}
  BY <1>2, <1>5, <1>6, SourcesAssumption DEF BySimple
<1>8. ByApi(Blank, s.reads.format, s.reads.path) = {}
  BY <1>2 DEF ByApi, Blank
<1>9. /\ ByPattern(Blank) = {} /\ ByCustomPattern(Blank, s.reads.groups) = {}
      /\ ByBase64(Blank) = {} /\ ByPosition(Blank) = {}
      /\ BySymbols(Blank, table, s.reads.keeps) = {}
  BY <1>1, <1>2 DEF ByPattern, ByCustomPattern, ByBase64, ByPosition, BySymbols, Blank
<1>10. Received(s.reads, Blank, table) = {}
  BY <1>1, <1>7, <1>8, <1>9, SourcesAssumption DEF Received
<1> QED BY <1>3, <1>10

\* The entries of a page are what was received from it, each with a protocol of
\* the marking of its address.
LEMMA EntriesOf ==
  ASSUME NEW p, IsPage(p), NEW R, \A a \in R : a[2] # NoPort, NEW default
  PROVE  /\ \A a \in R : \E e \in Entries(p, R, default) :
                            e.addr = a /\ e.proto \in ProtoOf(p, a, default)
         /\ \A e \in Entries(p, R, default) :
              e.addr \in R /\ e.proto \in ProtoOf(p, e.addr, default)
<1> DEFINE proto(a) == IF Marks(p, a) = {} THEN default ELSE MarkAt(p, Max(Marks(p, a)))
           entry(a) == [addr |-> a, proto |-> proto(a)]
<1>1. \A a : proto(a) \in ProtoOf(p, a, default)
  <2> TAKE a
  <2>1. CASE Marks(p, a) = {} BY <2>1 DEF ProtoOf
  <2>2. CASE Marks(p, a) # {}
    <3>1. IsText(p) BY <2>2 DEF Marks, IsPage, Blank
    <3>2. Len(p.lines) \in Nat /\ DOMAIN p.lines = 1..Len(p.lines) BY <3>1 DEF IsText
    <3>3. Marks(p, a) \in SUBSET (1..Len(p.lines)) BY <3>2 DEF Marks
    <3>4. Max(Marks(p, a)) \in Marks(p, a) BY <2>2, <3>2, <3>3, GreatestOf
    <3> QED BY <2>2, <3>4 DEF ProtoOf
  <2> QED BY <2>1, <2>2
<1>2. {r \in R : r[2] # NoPort} = R OBVIOUS
<1>3. Entries(p, R, default) = {entry(a) : a \in R}
  BY <1>2 DEF Entries
<1> HIDE DEF proto
<1>4. \A a : entry(a).addr = a /\ entry(a).proto = proto(a) OBVIOUS
<1> HIDE DEF entry
<1> QED BY <1>1, <1>3, <1>4

Task == [st : {"off", "waiting", "asking", "read", "blank", "raised", "shut", "cancelled"},
         for : {"none", "index", "pages"}, tries : Nat, via : 0..Fetches]

Shown == {Blank} \cup UNION {source.site[u] : u \in Url}

TypeOK ==
  /\ source \in Sources
  /\ fetch \in [Fetch -> {"off", "index", "pages", "cancelling"} \cup Over]
  /\ task \in [Fetch -> [Url -> Task]]
  /\ page \in [Fetch -> [Url -> Shown]]
  /\ free \in Nat
  /\ session \in 0..Fetches
  /\ handed \in [Fetch -> SUBSET proxies]

\* A fetch that has not begun, is done or has timed out has no task; the tasks
\* of one that looks at index pages are for index pages.
TasksOfFetches ==
  \A f \in Fetch, u \in Url : task[f][u].st \in Live =>
    /\ fetch[f] \notin {"off", "done", "timedOut"}
    /\ fetch[f] = "index" => task[f][u].for = "index"

\* The fetches begin in turn, and unless two Brokers share the provider the
\* one that is on its way has opened the session.
SessionsInTurn ==
  /\ \A f \in Fetch : fetch[f] = "off" <=> f > session
  /\ ~source.shared => \A f \in Fetch :
       /\ fetch[f] \in Running \cup {"cancelling"} => session = f
       /\ \A u \in Url : task[f][u].st = "shut" => fetch[f] = "failed"

\* A page is read once.
ReadOnce ==
  \A f \in Fetch, u \in Url :
    fetch[f] \in {"off", "index"} \/ (task[f][u].st \in Live /\ task[f][u].for = "pages")
      => page[f][u] = Blank

\* What a page lists is in a set of entries; an entry is on a page.
Has(s, set, p) ==
  Documented(s.reads, p) =>
    \A a \in Listed(p) : \E e \in set : e.addr = a /\ e.proto \in ProtoOf(p, a, s.proto)

Shows(s, p, e) ==
  p # Blank /\ e.addr \in Listed(p) /\ e.proto \in ProtoOf(p, e.addr, s.proto)

PagesFound ==
  \A f \in Fetch, u \in Url :
    /\ Has(source, proxies, page[f][u])
    /\ fetch[f] = "done" => Has(source, handed[f], page[f][u])

NothingElse ==
  (\A f \in Fetch, u \in Url : page[f][u] = Blank \/ Documented(source.reads, page[f][u])) =>
    \A e \in proxies : \E g \in Fetch, u \in Url : Shows(source, page[g][u], e)

ProviderInv ==
  /\ TypeOK
  /\ TasksOfFetches
  /\ SessionsInTurn
  /\ ReadOnce
  /\ ConnectionsBounded
  /\ PagesFound
  /\ NothingElse

-----------------------------------------------------------------------------
(* The semaphore counts requests. *)

Out == {r \in Fetch \X Url : task[r[1]][r[2]].st = "asking"}

\* The requests that hold a place of the semaphore can be counted.
LEMMA OutIsFinite ==
  ASSUME TypeOK
  PROVE  IsFiniteSet(Out) /\ Cardinality(Out) \in Nat
<1>1. IsFiniteSet(Fetch) BY ProviderAssumption, FS_Interval DEF Fetch
<1>2. IsFiniteSet(Url) BY SourcesAssumption DEF TypeOK, Url
<1>3. IsFiniteSet(Fetch \X Url) BY <1>1, <1>2, FS_Product
<1>4. Out \in SUBSET (Fetch \X Url) BY DEF Out
<1>5. IsFiniteSet(Out) BY <1>3, <1>4, FS_Subset
<1> QED BY <1>5, FS_CardinalityType

\* One task goes on: it is one request more, one less, or as many as before.
LEMMA OneTask ==
  ASSUME TypeOK, source' = source, NEW f \in Fetch, NEW u \in Url, NEW t \in Task,
         task' = [task EXCEPT ![f][u] = t]
  PROVE  LET asks  == IF t.st = "asking" THEN 1 ELSE 0
             asked == IF task[f][u].st = "asking" THEN 1 ELSE 0
         IN Cardinality(Out') = Cardinality(Out) + asks - asked
<1> DEFINE r == <<f, u>>
<1>1. \A g \in Fetch, v \in Url : task'[g][v] = IF g = f /\ v = u THEN t ELSE task[g][v]
  BY DEF TypeOK
<1>2. Url' = Url BY DEF Url
<1>3. r \in Fetch \X Url /\ (r \in Out <=> task[f][u].st = "asking") BY DEF Out
<1>4. \A q \in Fetch \X Url : q # r => (q \in Out' <=> q \in Out)
  <2> TAKE q \in Fetch \X Url
  <2> HAVE q # r
  <2>1. q[1] \in Fetch /\ q[2] \in Url /\ q = <<q[1], q[2]>> OBVIOUS
  <2>2. task'[q[1]][q[2]] = task[q[1]][q[2]] BY <1>1, <2>1
  <2> QED BY <1>2, <2>2 DEF Out
<1>5. r \in Out' <=> t.st = "asking"
  BY <1>1, <1>2, <1>3 DEF Out
<1>6. Out \subseteq Fetch \X Url /\ Out' \subseteq Fetch \X Url BY <1>2 DEF Out
<1>7. IsFiniteSet(Out) /\ Cardinality(Out) \in Nat BY OutIsFinite
<1> HIDE DEF r
<1>8. CASE t.st = "asking"
  <2>1. Out' = Out \cup {r} BY <1>3, <1>4, <1>5, <1>6, <1>8
  <2>2. Cardinality(Out \cup {r}) = IF r \in Out THEN Cardinality(Out) ELSE Cardinality(Out) + 1
    BY <1>7, FS_AddElement
  <2> QED BY <1>3, <1>7, <1>8, <2>1, <2>2
<1>9. CASE t.st # "asking"
  <2>1. Out' = Out \ {r} BY <1>3, <1>4, <1>5, <1>6, <1>9
  <2>2. Cardinality(Out \ {r}) = IF r \in Out THEN Cardinality(Out) - 1 ELSE Cardinality(Out)
    BY <1>7, FS_RemoveElement
  <2> QED BY <1>3, <1>7, <1>9, <2>1, <2>2
<1> QED BY <1>8, <1>9

\* A fetch without requests is given new tasks: no request is made.
LEMMA NewTasks ==
  ASSUME TypeOK, source' = source, NEW f \in Fetch, NEW urls, NEW for \in {"none", "index", "pages"},
         \A u \in Url : task[f][u].st # "asking",
         task' = [task EXCEPT ![f] = Tasks(urls, for)]
  PROVE  /\ Out' = Out
         /\ task' \in [Fetch -> [Url -> Task]]
         /\ \A u \in Url : /\ task'[f][u].st \in {"off", "waiting"}
                           /\ task'[f][u].st = "waiting" => task'[f][u].for = for
         /\ \A g \in Fetch, u \in Url : g # f => task'[g][u] = task[g][u]
<1>1. \A u \in Url : Tasks(urls, for)[u] \in
        {[st |-> "waiting", for |-> for, tries |-> 0, via |-> 0], NoTask}
  BY DEF Tasks, NoTask
<1>2. \A u \in Url : /\ Tasks(urls, for)[u] \in Task
                     /\ Tasks(urls, for)[u].st \in {"off", "waiting"}
                     /\ Tasks(urls, for)[u].st = "waiting" => Tasks(urls, for)[u].for = for
  BY <1>1, ProviderAssumption DEF Task, NoTask
<1>3. Tasks(urls, for) \in [Url -> Task]
  BY <1>2 DEF Tasks
<1>4. \A g \in Fetch, u \in Url :
        task'[g][u] = IF g = f THEN Tasks(urls, for)[u] ELSE task[g][u]
  BY DEF TypeOK
<1>5. task' \in [Fetch -> [Url -> Task]]
  BY <1>3 DEF TypeOK
<1>6. \A g \in Fetch, u \in Url : task'[g][u].st = "asking" <=> task[g][u].st = "asking"
  BY <1>2, <1>4
<1>7. Url' = Url BY DEF Url
<1>8. Out' = Out
  <2>1. \A q \in Fetch \X Url : task'[q[1]][q[2]].st = "asking" <=> task[q[1]][q[2]].st = "asking"
    BY <1>6
  <2> QED BY <1>7, <2>1 DEF Out
<1> QED BY <1>2, <1>4, <1>5, <1>8

-----------------------------------------------------------------------------
(* The invariant. *)

\* They are what ConnectionsBounded counts.
LEMMA CountIsOut == ConnectionsBounded <=> free + Cardinality(Out) = MaxConn
BY DEF ConnectionsBounded, Out

\* The invariant holds of a provider that has fetched nothing.
LEMMA ProviderStarts == Init => ProviderInv
<1> SUFFICES ASSUME Init PROVE ProviderInv OBVIOUS
<1>1. \A u \in Url : Tasks({}, "none")[u] = NoTask BY DEF Tasks
<1>2. \A f \in Fetch, u \in Url : task[f][u] = NoTask /\ page[f][u] = Blank
  BY <1>1 DEF Init
<1>3. NoTask \in Task /\ NoTask.st = "off" BY ProviderAssumption DEF NoTask, Task
<1>4. TypeOK
  <2>1. Tasks({}, "none") \in [Url -> Task] BY <1>1, <1>3 DEF Tasks
  <2> QED BY <2>1, ProviderAssumption DEF TypeOK, Init, Shown
<1>5. TasksOfFetches BY <1>2, <1>3 DEF TasksOfFetches, Live
<1>6. SessionsInTurn
  <2>1. \A f \in Fetch : fetch[f] = "off" /\ f > 0 BY DEF Init, Fetch
  <2>2. \A f \in Fetch, u \in Url : task[f][u].st # "shut" BY <1>2, <1>3
  <2>3. session = 0 BY DEF Init
  <2> QED BY <2>1, <2>2, <2>3 DEF SessionsInTurn, Running
<1>7. ReadOnce BY <1>2 DEF ReadOnce
<1>8. ConnectionsBounded
  <2>1. Out = {}
    <3>1. \A q \in Fetch \X Url : task[q[1]][q[2]].st # "asking" BY <1>2, <1>3
    <3> QED BY <3>1 DEF Out
  <2>2. Cardinality(Out) = 0 BY <2>1, FS_EmptySet
  <2> QED BY <2>2, CountIsOut, ProviderAssumption DEF Init
<1>9. PagesFound
  <2>1. \A S : Has(source, S, Blank) BY BlankIsEmpty, <1>4 DEF Has, TypeOK
  <2> QED BY <1>2, <2>1 DEF PagesFound
<1>10. NothingElse BY DEF NothingElse, Init
<1> QED BY <1>4, <1>5, <1>6, <1>7, <1>8, <1>9, <1>10 DEF ProviderInv

\* As long as no page is read and no fetch is done, what has been found stays
\* as it is.
LEMMA FoundStays ==
  ASSUME ProviderInv, source' = source, page' = page, proxies' = proxies, handed' = handed,
         \A f \in Fetch : fetch'[f] = "done" => fetch[f] = "done"
  PROVE  PagesFound' /\ NothingElse'
<1>1. Url' = Url BY DEF Url
<1>2. PagesFound'
  BY <1>1 DEF ProviderInv, PagesFound
<1>3. NothingElse'
  BY <1>1 DEF ProviderInv, NothingElse
<1> QED BY <1>2, <1>3

-----------------------------------------------------------------------------
(* The steps of a fetch. *)

\* One that leaves the tasks as they are.
LEMMA FetchGoesOn ==
  ASSUME ProviderInv, UNCHANGED <<source, task, page, free, session, proxies>>, NEW f \in Fetch,
         fetch[f] \in Running \cup {"cancelling"}, NEW st \in {"cancelling"} \cup Over,
         fetch' = [fetch EXCEPT ![f] = st],
         st \in {"done", "timedOut"} => \A u \in Url : task[f][u].st \notin Live
  PROVE  /\ fetch' \in [Fetch -> {"off", "index", "pages", "cancelling"} \cup Over]
         /\ TasksOfFetches' /\ SessionsInTurn' /\ ReadOnce' /\ ConnectionsBounded'
<1>1. Url' = Url BY DEF Url
<1>2. \A g \in Fetch : fetch'[g] = IF g = f THEN st ELSE fetch[g]
  BY DEF ProviderInv, TypeOK
<1>3. st \notin {"off", "index", "pages"} BY DEF Over
<1>4. fetch[f] # "off" BY DEF Running
<1>5. fetch' \in [Fetch -> {"off", "index", "pages", "cancelling"} \cup Over]
  BY DEF ProviderInv, TypeOK
<1>6. TasksOfFetches'
  <2> SUFFICES ASSUME NEW g \in Fetch, NEW u \in Url, task[g][u].st \in Live
               PROVE  /\ fetch'[g] \notin {"off", "done", "timedOut"}
                      /\ fetch'[g] = "index" => task[g][u].for = "index"
    BY <1>1 DEF TasksOfFetches
  <2> QED BY <1>2, <1>3 DEF ProviderInv, TasksOfFetches
<1>7. SessionsInTurn'
  <2>1. \A g \in Fetch : fetch'[g] = "off" <=> g > session
    BY <1>2, <1>3, <1>4 DEF ProviderInv, SessionsInTurn
  <2>2. ASSUME ~ source.shared, NEW g \in Fetch
        PROVE  /\ fetch'[g] \in Running \cup {"cancelling"} => session = g
               /\ \A u \in Url : task[g][u].st = "shut" => fetch'[g] = "failed"
    <3>1. \A u \in Url : task[g][u].st = "shut" => fetch[g] = "failed"
      BY <2>2 DEF ProviderInv, SessionsInTurn
    <3>2. fetch[g] \in Running \cup {"cancelling"} => session = g
      BY <2>2 DEF ProviderInv, SessionsInTurn
    <3>3. fetch[f] # "failed" BY DEF Running
    <3> QED BY <1>2, <3>1, <3>2, <3>3
  <2> QED BY <1>1, <2>1, <2>2 DEF SessionsInTurn
<1>8. ReadOnce'
  BY <1>1, <1>2, <1>3 DEF ProviderInv, ReadOnce
<1>9. ConnectionsBounded'
  BY <1>1 DEF ProviderInv, ConnectionsBounded
<1> QED BY <1>5, <1>6, <1>7, <1>8, <1>9

\* It holds when a fetch hands over what the provider has found.
LEMMA PagesEndKeeps ==
  ASSUME ProviderInv, NEW f \in Fetch, PagesEnd(f) PROVE ProviderInv'
<1>1. fetch[f] = "pages" /\ \A u \in Url : task[f][u].st \notin Live
  BY DEF PagesEnd, AllPagesOver, InState
<1>2. /\ UNCHANGED <<source, task, page, free, session, proxies>>
      /\ fetch' = [fetch EXCEPT ![f] = "done"] /\ handed' = [handed EXCEPT ![f] = proxies]
  BY DEF PagesEnd, pages, found
<1>3. /\ fetch' \in [Fetch -> {"off", "index", "pages", "cancelling"} \cup Over]
      /\ TasksOfFetches' /\ SessionsInTurn' /\ ReadOnce' /\ ConnectionsBounded'
  BY <1>1, <1>2, FetchGoesOn DEF Running, Over
<1>4. TypeOK'
  <2>1. Url' = Url /\ Shown' = Shown BY <1>2 DEF Url, Shown
  <2>2. handed' \in [Fetch -> SUBSET proxies'] BY <1>2 DEF ProviderInv, TypeOK
  <2> QED BY <1>2, <1>3, <2>1, <2>2 DEF ProviderInv, TypeOK
<1>5. PagesFound'
  <2> SUFFICES ASSUME NEW g \in Fetch, NEW u \in Url
               PROVE  /\ Has(source, proxies, page[g][u])
                      /\ fetch'[g] = "done" => Has(source, handed'[g], page[g][u])
    BY <1>2 DEF PagesFound, Url
  <2>1. Has(source, proxies, page[g][u]) BY DEF ProviderInv, PagesFound
  <2>2. CASE g = f BY <1>2, <2>1, <2>2 DEF ProviderInv, TypeOK
  <2>3. CASE g # f
    <3>1. fetch'[g] = fetch[g] /\ handed'[g] = handed[g]
      BY <1>2, <2>3 DEF ProviderInv, TypeOK
    <3> QED BY <2>1, <3>1 DEF ProviderInv, PagesFound
  <2> QED BY <2>2, <2>3
<1>6. NothingElse'
  BY <1>2 DEF ProviderInv, NothingElse, Url
<1> QED BY <1>3, <1>4, <1>5, <1>6 DEF ProviderInv

\* It holds when a fetch fails, its time is over, or its tasks have ended after that.
LEMMA FetchStepsKeep ==
  ASSUME ProviderInv, NEW f \in Fetch, FetchFails(f) \/ TimeOut(f) \/ TimedOut(f)
  PROVE  ProviderInv'
<1>1. UNCHANGED <<source, task, page, free, session, proxies, handed>>
  BY DEF FetchFails, TimeOut, TimedOut, pages, found
<1>2. PICK st \in {"failed", "cancelling", "timedOut"} :
        /\ fetch' = [fetch EXCEPT ![f] = st]
        /\ fetch[f] \in Running \cup {"cancelling"}
        /\ st = "timedOut" => \A u \in Url : task[f][u].st \notin Live
  <2>1. CASE FetchFails(f) BY <2>1 DEF FetchFails
  <2>2. CASE TimeOut(f) BY <2>2 DEF TimeOut
  <2>3. CASE TimedOut(f)
    <3>1. \A u \in Url : task[f][u].st \notin Live
      BY <2>3 DEF TimedOut, Awaited, InState
    <3> QED BY <2>3, <3>1 DEF TimedOut
  <2> QED BY <2>1, <2>2, <2>3
<1>3. /\ fetch' \in [Fetch -> {"off", "index", "pages", "cancelling"} \cup Over]
      /\ TasksOfFetches' /\ SessionsInTurn' /\ ReadOnce' /\ ConnectionsBounded'
  BY <1>1, <1>2, FetchGoesOn DEF Over
<1>4. \A g \in Fetch : fetch'[g] = "done" => fetch[g] = "done"
  BY <1>2 DEF ProviderInv, TypeOK
<1>5. PagesFound' /\ NothingElse'
  BY <1>1, <1>4, FoundStays
<1>6. TypeOK'
  BY <1>1, <1>3 DEF ProviderInv, TypeOK, Url, Shown
<1> QED BY <1>3, <1>5, <1>6 DEF ProviderInv

\* One that gives new tasks to a fetch that has none under way.
LEMMA FetchAsks ==
  ASSUME ProviderInv, UNCHANGED <<source, page, free, found, handed>>, NEW f \in Fetch,
         NEW st \in Running, fetch' = [fetch EXCEPT ![f] = st], fetch[f] \in {"off", "index"},
         \A u \in Url : task[f][u].st \notin Live,
         NEW urls, NEW for \in {"index", "pages"}, st = "index" => for = "index",
         task' = [task EXCEPT ![f] = Tasks(urls, for)],
         SessionsInTurn', session' \in 0..Fetches
  PROVE  ProviderInv'
<1>1. Url' = Url /\ Shown' = Shown BY DEF Url, Shown
<1>2. \A g \in Fetch : fetch'[g] = IF g = f THEN st ELSE fetch[g]
  BY DEF ProviderInv, TypeOK
<1>3. /\ Out' = Out
      /\ task' \in [Fetch -> [Url -> Task]]
      /\ \A u \in Url : /\ task'[f][u].st \in {"off", "waiting"}
                        /\ task'[f][u].st = "waiting" => task'[f][u].for = for
      /\ \A g \in Fetch, u \in Url : g # f => task'[g][u] = task[g][u]
  <2>1. TypeOK /\ source' = source /\ for \in {"none", "index", "pages"} BY DEF ProviderInv
  <2>2. \A u \in Url : task[f][u].st # "asking" BY DEF Live
  <2> QED BY <2>1, <2>2, NewTasks
<1>4. st \in {"index", "pages"} BY DEF Running
<1>5. fetch' \in [Fetch -> {"off", "index", "pages", "cancelling"} \cup Over]
  BY <1>4 DEF ProviderInv, TypeOK
<1>6. TypeOK'
  BY <1>1, <1>3, <1>5 DEF ProviderInv, TypeOK, found
<1>7. TasksOfFetches'
  <2> SUFFICES ASSUME NEW g \in Fetch, NEW u \in Url, task'[g][u].st \in Live
               PROVE  /\ fetch'[g] \notin {"off", "done", "timedOut"}
                      /\ fetch'[g] = "index" => task'[g][u].for = "index"
    BY <1>1 DEF TasksOfFetches
  <2>1. CASE g = f
    <3>1. task'[f][u].for = for BY <1>3, <2>1 DEF Live
    <3> QED BY <1>2, <1>4, <2>1, <3>1
  <2>2. CASE g # f
    <3>1. task'[g][u] = task[g][u] /\ fetch'[g] = fetch[g] BY <1>2, <1>3, <2>2
    <3> QED BY <3>1 DEF ProviderInv, TasksOfFetches
  <2> QED BY <2>1, <2>2
<1>8. ReadOnce'
  <2> SUFFICES ASSUME NEW g \in Fetch, NEW u \in Url,
                      \/ fetch'[g] \in {"off", "index"}
                      \/ task'[g][u].st \in Live /\ task'[g][u].for = "pages"
               PROVE  page[g][u] = Blank
    BY <1>1 DEF ReadOnce
  <2>1. CASE g = f BY <2>1 DEF ProviderInv, ReadOnce
  <2>2. CASE g # f
    <3>1. task'[g][u] = task[g][u] /\ fetch'[g] = fetch[g] BY <1>2, <1>3, <2>2
    <3> QED BY <3>1 DEF ProviderInv, ReadOnce
  <2> QED BY <2>1, <2>2
<1>9. ConnectionsBounded'
  <2>1. ConnectionsBounded' <=> free' + Cardinality(Out') = MaxConn
    BY DEF ConnectionsBounded, Out
  <2> QED BY <1>3, <2>1, CountIsOut DEF ProviderInv
<1>10. PagesFound' /\ NothingElse'
  <2>1. \A g \in Fetch : fetch'[g] = "done" => fetch[g] = "done" BY <1>2, <1>4
  <2> QED BY <2>1, FoundStays DEF found
<1> QED BY <1>6, <1>7, <1>8, <1>9, <1>10 DEF ProviderInv

\* It holds when a fetch starts.
LEMMA StartKeeps ==
  ASSUME ProviderInv, NEW f \in Fetch, Start(f) PROVE ProviderInv'
<1>1. fetch[f] = "off" /\ \A u \in Url : task[f][u].st \notin Live
  BY DEF Start, ProviderInv, TasksOfFetches
<1>2. UNCHANGED <<source, page, free, found, handed>> /\ session' = f
  BY DEF Start
<1>0. \E urls : \E st \in Running, for \in {"index", "pages"} :
        /\ fetch' = [fetch EXCEPT ![f] = st]
        /\ task' = [task EXCEPT ![f] = Tasks(urls, for)]
        /\ st = "index" => for = "index"
  <2>1. CASE source.index = <<>>
    <3>1. /\ fetch' = [fetch EXCEPT ![f] = "pages"]
          /\ task' = [task EXCEPT ![f] = Tasks(Pages(f), "pages")]
      BY <2>1 DEF Start
    <3> QED BY <3>1 DEF Running
  <2>2. CASE source.index # <<>>
    <3>1. /\ fetch' = [fetch EXCEPT ![f] = "index"]
          /\ task' = [task EXCEPT ![f] = Tasks(FirstAsked, "index")]
      BY <2>2 DEF Start
    <3> QED BY <3>1 DEF Running
  <2> QED BY <2>1, <2>2
<1>3. PICK urls : \E st \in Running, for \in {"index", "pages"} :
        /\ fetch' = [fetch EXCEPT ![f] = st]
        /\ task' = [task EXCEPT ![f] = Tasks(urls, for)]
        /\ st = "index" => for = "index"
  BY <1>0
<1>28. PICK st \in Running, for \in {"index", "pages"} :
        /\ fetch' = [fetch EXCEPT ![f] = st]
        /\ task' = [task EXCEPT ![f] = Tasks(urls, for)]
        /\ st = "index" => for = "index"
  BY <1>3
<1>4. \A g \in Fetch : fetch'[g] = IF g = f THEN st ELSE fetch[g]
  BY <1>28 DEF ProviderInv, TypeOK
<1>5. f \in 1..Fetches /\ session \in 0..Fetches /\ Fetches \in Nat
  BY ProviderAssumption DEF Fetch, ProviderInv, TypeOK
<1>6. \A g \in Fetch : fetch[g] = "off" <=> g > session
  BY DEF ProviderInv, SessionsInTurn
<1>7. session = f - 1 /\ (~ source.shared /\ f > 1 => fetch[f - 1] \in Over)
  <2>1. f > session BY <1>1, <1>6
  <2>2. CASE f = 1 BY <2>1, <2>2, <1>5
  <2>3. CASE f > 1
    <3>1. f - 1 \in Fetch BY <2>3, <1>5 DEF Fetch
    <3>2. fetch[f - 1] # "off" BY <2>3 DEF Start, Over
    <3>3. ~ (f - 1 > session) BY <3>1, <3>2, <1>6
    <3> QED BY <2>1, <2>3, <3>3, <1>5 DEF Start
  <2> QED BY <2>2, <2>3, <1>5
<1>8. st # "off" BY DEF Running
<1>9. \A g \in Fetch : fetch'[g] = "off" <=> g > session'
  <2> TAKE g \in Fetch
  <2>1. g \in 1..Fetches BY DEF Fetch
  <2> QED BY <2>1, <1>2, <1>4, <1>5, <1>6, <1>7, <1>8
<1>10. TypeOK /\ source' = source /\ \A u \in Url : task[f][u].st # "asking"
  BY <1>1, <1>2 DEF ProviderInv, Live
<1>11. /\ \A u \in Url : task'[f][u].st \in {"off", "waiting"}
       /\ \A g \in Fetch, u \in Url : g # f => task'[g][u] = task[g][u]
  BY <1>28, <1>10, NewTasks
<1>12. ASSUME ~ source.shared, NEW g \in Fetch
       PROVE  /\ fetch'[g] \in Running \cup {"cancelling"} => session' = g
              /\ \A u \in Url : task'[g][u].st = "shut" => fetch'[g] = "failed"
  <2>1. CASE g = f BY <2>1, <1>2, <1>11
  <2>2. CASE g # f
    <3>1. fetch'[g] = fetch[g] /\ \A u \in Url : task'[g][u] = task[g][u]
      BY <2>2, <1>4, <1>11
    <3>2. fetch[g] \notin Running \cup {"cancelling"}
      <4>1. ASSUME fetch[g] \in Running \cup {"cancelling"} PROVE FALSE
        <5>1. session = g BY <4>1, <1>12 DEF ProviderInv, SessionsInTurn
        <5>2. g = f - 1 /\ f > 1 BY <5>1, <1>7, <1>5 DEF Fetch
        <5>3. fetch[g] \in Over BY <5>2, <1>7, <1>12
        <5> QED BY <4>1, <5>3 DEF Over, Running
      <4> QED BY <4>1
    <3>3. \A u \in Url : task[g][u].st = "shut" => fetch[g] = "failed"
      BY <1>12 DEF ProviderInv, SessionsInTurn
    <3> QED BY <3>1, <3>2, <3>3
  <2> QED BY <2>1, <2>2
<1>13. SessionsInTurn'
  BY <1>2, <1>9, <1>12 DEF SessionsInTurn, Url
<1>14. session' \in 0..Fetches BY <1>2, <1>5
<1>15. UNCHANGED <<source, page, free, found, handed>> /\ fetch[f] \in {"off", "index"}
  BY <1>1, <1>2
<1> QED BY <1>1, <1>28, <1>13, <1>14, <1>15, FetchAsks

\* It holds when the index pages lead to the next kind or to the pages.
LEMMA IndexStepsKeep ==
  ASSUME ProviderInv, NEW f \in Fetch, NextKind(f) \/ IndexEnds(f) PROVE ProviderInv'
<1>1. fetch[f] = "index" /\ \A u \in Url : task[f][u].st \notin Live
  <2>1. fetch[f] = "index" /\ InState(f, Live \cup {"raised", "shut"}) = {}
    BY DEF NextKind, IndexEnds
  <2> QED BY <2>1 DEF InState
<1>2. UNCHANGED <<source, page, free, session, found, handed>>
  BY DEF NextKind, IndexEnds
<1>0. \E urls : \E st \in Running, for \in {"index", "pages"} :
        /\ fetch' = [fetch EXCEPT ![f] = st]
        /\ task' = [task EXCEPT ![f] = Tasks(urls, for)]
        /\ st = "index" => for = "index"
  <2>1. CASE NextKind(f)
    <3>1. fetch' = [fetch EXCEPT ![f] = "index"]
      BY <2>1, <1>1 DEF NextKind, ProviderInv, TypeOK
    <3>2. task' = [task EXCEPT ![f] = Tasks({Head(index[f])}, "index")]
      BY <2>1 DEF NextKind
    <3> QED BY <3>1, <3>2 DEF Running
  <2>2. CASE IndexEnds(f)
    <3>1. /\ fetch' = [fetch EXCEPT ![f] = "pages"]
          /\ task' = [task EXCEPT ![f] = Tasks(Pages(f), "pages")]
      BY <2>2 DEF IndexEnds
    <3> QED BY <3>1 DEF Running
  <2> QED BY <2>1, <2>2
<1>3. PICK urls : \E st \in Running, for \in {"index", "pages"} :
        /\ fetch' = [fetch EXCEPT ![f] = st]
        /\ task' = [task EXCEPT ![f] = Tasks(urls, for)]
        /\ st = "index" => for = "index"
  BY <1>0
<1>28. PICK st \in Running, for \in {"index", "pages"} :
        /\ fetch' = [fetch EXCEPT ![f] = st]
        /\ task' = [task EXCEPT ![f] = Tasks(urls, for)]
        /\ st = "index" => for = "index"
  BY <1>3
<1>4. \A g \in Fetch : fetch'[g] = IF g = f THEN st ELSE fetch[g]
  BY <1>28 DEF ProviderInv, TypeOK
<1>5. TypeOK /\ source' = source /\ \A u \in Url : task[f][u].st # "asking"
  BY <1>1, <1>2 DEF ProviderInv, Live
<1>6. /\ \A u \in Url : task'[f][u].st \in {"off", "waiting"}
      /\ \A g \in Fetch, u \in Url : g # f => task'[g][u] = task[g][u]
  BY <1>28, <1>5, NewTasks
<1>7. SessionsInTurn'
  <2>1. \A g \in Fetch : fetch'[g] = "off" <=> g > session'
    BY <1>1, <1>2, <1>4 DEF ProviderInv, SessionsInTurn, Running
  <2>2. ASSUME ~ source.shared, NEW g \in Fetch
        PROVE  /\ fetch'[g] \in Running \cup {"cancelling"} => session' = g
               /\ \A u \in Url : task'[g][u].st = "shut" => fetch'[g] = "failed"
    <3>1. /\ fetch[g] \in Running \cup {"cancelling"} => session = g
          /\ \A u \in Url : task[g][u].st = "shut" => fetch[g] = "failed"
      BY <2>2 DEF ProviderInv, SessionsInTurn
    <3>2. fetch[f] \in Running BY <1>1 DEF Running
    <3>3. CASE g = f BY <3>1, <3>2, <3>3, <1>2, <1>6
    <3>4. CASE g # f BY <3>1, <3>4, <1>2, <1>4, <1>6
    <3> QED BY <3>3, <3>4
  <2> QED BY <1>2, <2>1, <2>2 DEF SessionsInTurn, Url
<1>8. session' \in 0..Fetches BY <1>2 DEF ProviderInv, TypeOK
<1>9. UNCHANGED <<source, page, free, found, handed>> /\ fetch[f] \in {"off", "index"}
  BY <1>1, <1>2
<1> QED BY <1>1, <1>28, <1>7, <1>8, <1>9, FetchAsks

-----------------------------------------------------------------------------
(* The steps of a task: it goes on, or it ends. *)

GoesOn(f, u, t) ==
  /\ task' = [task EXCEPT ![f][u] = t]
  /\ t.st \in Live => t.for = task[f][u].for
  /\ t.st = "shut" => source.shared \/ fetch[f] = "failed"
  /\ free' \in Nat
  /\ free' = free + (IF task[f][u].st = "asking" THEN 1 ELSE 0)
                  - (IF t.st = "asking" THEN 1 ELSE 0)

\* The parts that hold whatever step a task takes.
LEMMA TaskGoesOn ==
  ASSUME ProviderInv, UNCHANGED <<source, fetch, session>>,
         NEW f \in Fetch, NEW u \in Url, task[f][u].st \in Live,
         NEW t \in Task, GoesOn(f, u, t)
  PROVE  /\ task' \in [Fetch -> [Url -> Task]]
         /\ TasksOfFetches' /\ SessionsInTurn' /\ ConnectionsBounded'
         /\ page' = page => ReadOnce'
<1>1. Url' = Url BY DEF Url
<1>2. \A g \in Fetch, v \in Url : task'[g][v] = IF g = f /\ v = u THEN t ELSE task[g][v]
  BY DEF GoesOn, ProviderInv, TypeOK
<1>3. task' \in [Fetch -> [Url -> Task]]
  BY DEF GoesOn, ProviderInv, TypeOK
<1>4. TasksOfFetches'
  <2> SUFFICES ASSUME NEW g \in Fetch, NEW v \in Url, task'[g][v].st \in Live
               PROVE  /\ fetch[g] \notin {"off", "done", "timedOut"}
                      /\ fetch[g] = "index" => task'[g][v].for = "index"
    BY <1>1 DEF TasksOfFetches
  <2>1. task[g][v].st \in Live /\ task'[g][v].for = task[g][v].for BY <1>2 DEF GoesOn
  <2> QED BY <2>1 DEF ProviderInv, TasksOfFetches
<1>5. SessionsInTurn'
  <2>1. \A g \in Fetch : fetch'[g] = "off" <=> g > session'
    BY DEF ProviderInv, SessionsInTurn
  <2>2. ASSUME ~ source.shared, NEW g \in Fetch
        PROVE  /\ fetch[g] \in Running \cup {"cancelling"} => session = g
               /\ \A v \in Url : task'[g][v].st = "shut" => fetch[g] = "failed"
    <3>1. /\ fetch[g] \in Running \cup {"cancelling"} => session = g
          /\ \A v \in Url : task[g][v].st = "shut" => fetch[g] = "failed"
      BY <2>2 DEF ProviderInv, SessionsInTurn
    <3> QED BY <1>2, <2>2, <3>1 DEF GoesOn
  <2> QED BY <1>1, <2>1, <2>2 DEF SessionsInTurn
<1>6. ConnectionsBounded'
  <2> DEFINE asks  == IF t.st = "asking" THEN 1 ELSE 0
             asked == IF task[f][u].st = "asking" THEN 1 ELSE 0
  <2>1. Cardinality(Out') = Cardinality(Out) + asks - asked
    BY OneTask DEF GoesOn, ProviderInv
  <2>2. free + Cardinality(Out) = MaxConn BY CountIsOut DEF ProviderInv
  <2>3. free \in Nat /\ Cardinality(Out) \in Nat BY OutIsFinite DEF ProviderInv, TypeOK
  <2>4. free' + Cardinality(Out') = MaxConn BY <2>1, <2>2, <2>3 DEF GoesOn
  <2> QED BY <2>4 DEF ConnectionsBounded, Out
<1>7. page' = page => ReadOnce'
  <2> SUFFICES ASSUME page' = page, NEW g \in Fetch, NEW v \in Url,
                      \/ fetch[g] \in {"off", "index"}
                      \/ task'[g][v].st \in Live /\ task'[g][v].for = "pages"
               PROVE  page[g][v] = Blank
    BY <1>1 DEF ReadOnce
  <2>1. \/ fetch[g] \in {"off", "index"}
        \/ task[g][v].st \in Live /\ task[g][v].for = "pages"
    BY <1>2 DEF GoesOn
  <2> QED BY <2>1 DEF ProviderInv, ReadOnce
<1> QED BY <1>3, <1>4, <1>5, <1>6, <1>7

\* What a task becomes.
LEMMA TaskForms ==
  ASSUME NEW t \in Task
  PROVE  /\ \A st \in {"read", "blank", "raised", "shut", "cancelled"} :
              [NoTask EXCEPT !.st = st] \in Task /\ [NoTask EXCEPT !.st = st].st = st
         /\ \A via \in 0..Fetches :
              /\ [t EXCEPT !.st = "asking", !.via = via] \in Task
              /\ [t EXCEPT !.st = "asking", !.via = via].st = "asking"
              /\ [t EXCEPT !.st = "asking", !.via = via].for = t.for
         /\ Tried(t) \in Task /\ Tried(t).st \in {"waiting", "blank"}
         /\ Tried(t).st = "waiting" => Tried(t).for = t.for
<1>1. 0 \in 0..Fetches BY ProviderAssumption
<1>2. \A st \in {"read", "blank", "raised", "shut", "cancelled"} :
        [NoTask EXCEPT !.st = st] \in Task /\ [NoTask EXCEPT !.st = st].st = st
  BY <1>1 DEF Task, NoTask
<1>3. \A via \in 0..Fetches :
        /\ [t EXCEPT !.st = "asking", !.via = via] \in Task
        /\ [t EXCEPT !.st = "asking", !.via = via].st = "asking"
        /\ [t EXCEPT !.st = "asking", !.via = via].for = t.for
  BY DEF Task
<1>4. Tried(t) \in Task /\ Tried(t).st \in {"waiting", "blank"}
      /\ (Tried(t).st = "waiting" => Tried(t).for = t.for)
  <2>1. CASE t.tries + 1 < MaxTries
    <3> DEFINE m == [t EXCEPT !.tries = @ + 1]
               n == [m EXCEPT !.st = "waiting", !.via = 0]
    <3>1. m \in Task /\ m.for = t.for BY DEF Task
    <3>2. Tried(t) = n BY <2>1 DEF Tried
    <3> HIDE DEF m
    <3>3. n \in Task /\ n.st = "waiting" /\ n.for = m.for BY <3>1, <1>1 DEF Task
    <3> QED BY <3>1, <3>2, <3>3
  <2>2. CASE ~ (t.tries + 1 < MaxTries)
    <3>1. Tried(t) = [NoTask EXCEPT !.st = "blank"] BY <2>2 DEF Tried
    <3> QED BY <1>2, <3>1
  <2> QED BY <2>1, <2>2
<1> QED BY <1>2, <1>3, <1>4

\* The steps that read no page.
LEMMA TaskStepsKeep ==
  ASSUME ProviderInv, NEW f \in Fetch, NEW u \in Url,
         Ask(f, u) \/ NoAnswer(f, u) \/ Breaks(f, u) \/ IndexAnswers(f, u) \/ Cancelled(f, u)
  PROVE  ProviderInv'
<1>1. UNCHANGED <<source, fetch, page, session, proxies, handed>>
  BY DEF Ask, NoAnswer, Breaks, IndexAnswers, Cancelled, pages, found
<1>2. task[f][u].st \in Live
  BY DEF Ask, NoAnswer, Breaks, IndexAnswers, Cancelled, Asking, Live
<1>3. free \in Nat /\ session \in 0..Fetches /\ task[f][u] \in Task BY DEF ProviderInv, TypeOK
<1>4. \E t \in Task : GoesOn(f, u, t)
  <2>1. CASE Ask(f, u)
    <3>1. task[f][u].st = "waiting" /\ free > 0 /\ fetch[f] # "cancelling" BY <2>1 DEF Ask
    <3>2. CASE IsOpen(session)
      <4> DEFINE t == [task[f][u] EXCEPT !.st = "asking", !.via = session]
      <4>1. task' = [task EXCEPT ![f][u] = t] /\ free' = free - 1
        BY <2>1, <3>2 DEF Ask, Set
      <4>2. t \in Task /\ t.st = "asking" /\ t.for = task[f][u].for BY TaskForms, <1>3
      <4> HIDE DEF t
      <4>3. GoesOn(f, u, t) BY <4>1, <4>2, <3>1, <1>3 DEF GoesOn
      <4> QED BY <4>2, <4>3
    <3>3. CASE ~ IsOpen(session)
      <4> DEFINE t == [NoTask EXCEPT !.st = "shut"]
      <4>1. task' = [task EXCEPT ![f][u] = t] /\ free' = free
        BY <2>1, <3>3 DEF Ask, Ends, Set
      <4>2. t \in Task /\ t.st = "shut" BY TaskForms, <1>3
      <4>3. source.shared \/ fetch[f] = "failed"
        <5>1. ASSUME ~ source.shared, fetch[f] # "failed" PROVE FALSE
          <6>1. fetch[f] \notin {"off", "done", "timedOut"}
            BY <1>2 DEF ProviderInv, TasksOfFetches
          <6>2. fetch[f] \in Running
            BY <3>1, <5>1, <6>1 DEF ProviderInv, TypeOK, Over, Running
          <6>3. session = f BY <5>1, <6>2 DEF ProviderInv, SessionsInTurn
          <6>4. f # 0 BY DEF Fetch
          <6> QED BY <3>3, <6>2, <6>3, <6>4 DEF IsOpen
        <5> QED BY <5>1
      <4> HIDE DEF t
      <4>4. GoesOn(f, u, t) BY <4>1, <4>2, <4>3, <3>1, <1>3 DEF GoesOn, Live
      <4> QED BY <4>2, <4>4
    <3> QED BY <3>2, <3>3
  <2>2. CASE NoAnswer(f, u)
    <3> DEFINE t == Tried(task[f][u])
    <3>1. task[f][u].st = "asking" /\ free' = free + 1 /\ task' = [task EXCEPT ![f][u] = t]
      BY <2>2 DEF NoAnswer, Asking, Set
    <3>2. /\ t \in Task /\ t.st \in {"waiting", "blank"}
          /\ t.st = "waiting" => t.for = task[f][u].for
      BY TaskForms, <1>3
    <3> HIDE DEF t
    <3>3. GoesOn(f, u, t) BY <3>1, <3>2, <1>3 DEF GoesOn, Live
    <3> QED BY <3>2, <3>3
  <2>3. CASE Breaks(f, u) \/ IndexAnswers(f, u) \/ Cancelled(f, u)
    <3>1. PICK st \in {"read", "raised", "cancelled"} :
            /\ task' = [task EXCEPT ![f][u] = [NoTask EXCEPT !.st = st]]
            /\ free' = IF task[f][u].st = "asking" THEN free + 1 ELSE free
      <4>1. CASE Breaks(f, u) BY <4>1 DEF Breaks, Asking, Ends, Set
      <4>2. CASE IndexAnswers(f, u) BY <4>2 DEF IndexAnswers, Asking, Ends, Set
      <4>3. CASE Cancelled(f, u) BY <4>3 DEF Cancelled, Ends, Set, LeavesSemaphore
      <4> QED BY <2>3, <4>1, <4>2, <4>3
    <3> DEFINE t == [NoTask EXCEPT !.st = st]
    <3>2. t \in Task /\ t.st = st BY TaskForms, <1>3
    <3>3. /\ task' = [task EXCEPT ![f][u] = t]
          /\ free' = IF task[f][u].st = "asking" THEN free + 1 ELSE free
      BY <3>1
    <3> HIDE DEF t
    <3>4. t.st \notin Live /\ t.st # "shut" /\ t.st # "asking" BY <3>2 DEF Live
    <3>5. GoesOn(f, u, t) BY <3>3, <3>4, <1>3 DEF GoesOn
    <3> QED BY <3>2, <3>5
  <2> QED BY <2>1, <2>2, <2>3
<1>5. PICK t \in Task : GoesOn(f, u, t) BY <1>4
<1>6. /\ task' \in [Fetch -> [Url -> Task]]
      /\ TasksOfFetches' /\ SessionsInTurn' /\ ConnectionsBounded' /\ ReadOnce'
  BY <1>1, <1>2, <1>5, TaskGoesOn
<1>7. TypeOK'
  BY <1>1, <1>5, <1>6 DEF ProviderInv, TypeOK, Url, Shown, GoesOn
<1>8. PagesFound' /\ NothingElse' BY <1>1, FoundStays
<1> QED BY <1>6, <1>7, <1>8 DEF ProviderInv

\* A page is read: what it lists is found if it is documented, and if all pages
\* have been documented nothing else is.
LEMMA PageIsFound ==
  ASSUME ProviderInv, UNCHANGED <<source, fetch, handed>>, NEW f \in Fetch, NEW u \in Url,
         fetch[f] # "done", page[f][u] = Blank,
         NEW p \in source.site[u], page' = [page EXCEPT ![f][u] = p],
         NEW table, NEW R,
         R = Received(source.reads, p,
                      Defined(p, table, source.reads.by = "symbols" /\ source.reads.keeps)),
         proxies' = proxies \cup Entries(p, R, source.proto)
  PROVE  PagesFound' /\ NothingElse'
<1>1. Url' = Url BY DEF Url
<1>2. \A g \in Fetch, v \in Url : page'[g][v] = IF g = f /\ v = u THEN p ELSE page[g][v]
  BY DEF ProviderInv, TypeOK
<1>3. source \in Sources /\ IsPage(p) /\ (source.reads.by = "symbols" => source.reads.keeps \in BOOLEAN)
  BY SourcesAssumption DEF ProviderInv, TypeOK, Url
<1>4. Documented(source.reads, p) => R = Listed(p) /\ \A a \in R : a[2] # NoPort
  BY <1>3, ListedIsReceived
<1>5. p = Blank => R = {} /\ ~ Documented(source.reads, p)
  BY <1>3, BlankIsEmpty
<1>6. (\A a \in R : a[2] # NoPort) =>
        /\ \A a \in R : \E e \in Entries(p, R, source.proto) :
             e.addr = a /\ e.proto \in ProtoOf(p, a, source.proto)
        /\ \A e \in Entries(p, R, source.proto) :
             e.addr \in R /\ e.proto \in ProtoOf(p, e.addr, source.proto)
  BY <1>3, EntriesOf
<1>7. \A q : Has(source, proxies, q) => Has(source, proxies', q)
  BY DEF Has
<1>8. Has(source, proxies', p)
  BY <1>4, <1>6 DEF Has
<1>9. PagesFound'
  <2> SUFFICES ASSUME NEW g \in Fetch, NEW v \in Url
               PROVE  /\ Has(source, proxies', page'[g][v])
                      /\ fetch[g] = "done" => Has(source, handed[g], page'[g][v])
    BY <1>1 DEF PagesFound
  <2>1. CASE g = f /\ v = u BY <2>1, <1>2, <1>8
  <2>2. CASE ~ (g = f /\ v = u)
    <3>1. page'[g][v] = page[g][v] BY <2>2, <1>2
    <3> QED BY <3>1, <1>7 DEF ProviderInv, PagesFound
  <2> QED BY <2>1, <2>2
<1>10. NothingElse'
  <2> SUFFICES ASSUME \A g \in Fetch, v \in Url :
                        page'[g][v] = Blank \/ Documented(source.reads, page'[g][v]),
                      NEW e \in proxies'
               PROVE  \E g \in Fetch, v \in Url : Shows(source, page'[g][v], e)
    BY <1>1 DEF NothingElse
  <2>1. \A g \in Fetch, v \in Url : page[g][v] = Blank \/ Documented(source.reads, page[g][v])
    BY <1>2
  <2>2. CASE e \in proxies
    <3>1. PICK g \in Fetch, v \in Url : Shows(source, page[g][v], e)
      BY <2>1, <2>2 DEF ProviderInv, NothingElse
    <3>2. page[g][v] # Blank BY <3>1 DEF Shows
    <3>3. page'[g][v] = page[g][v] BY <3>2, <1>2
    <3> QED BY <3>1, <3>3
  <2>3. CASE e \in Entries(p, R, source.proto)
    <3>1. R # {} BY <2>3 DEF Entries
    <3>2. p # Blank /\ page'[f][u] = p BY <3>1, <1>2, <1>5
    <3>3. Documented(source.reads, p) BY <3>2
    <3>4. e.addr \in Listed(p) /\ e.proto \in ProtoOf(p, e.addr, source.proto)
      BY <2>3, <3>3, <1>4, <1>6
    <3>5. Shows(source, page'[f][u], e) BY <3>2, <3>4 DEF Shows
    <3> QED BY <3>5
  <2> QED BY <2>2, <2>3
<1> QED BY <1>9, <1>10

\* It holds when a page is read, and its addresses join the set of proxies.
LEMMA PageAnswersKeeps ==
  ASSUME ProviderInv, NEW f \in Fetch, NEW u \in Url, PageAnswers(f, u)
  PROVE  ProviderInv'
<1>1. UNCHANGED <<source, fetch, session, handed>> BY DEF PageAnswers
<1>2. /\ task[f][u].st = "asking" /\ task[f][u].for = "pages" /\ free' = free + 1
      /\ task[f][u].st \in Live
  BY DEF PageAnswers, Asking, Live
<1>3. page[f][u] = Blank BY <1>2 DEF ProviderInv, ReadOnce
<1>4. fetch[f] \notin {"off", "index", "done", "timedOut"}
  BY <1>2 DEF ProviderInv, TasksOfFetches
<1>5. free \in Nat /\ task[f][u] \in Task BY DEF ProviderInv, TypeOK
<1>6. PICK st \in {"read", "raised"} : task' = [task EXCEPT ![f][u] = [NoTask EXCEPT !.st = st]]
  BY DEF PageAnswers, Ends, Set
<1> DEFINE t == [NoTask EXCEPT !.st = st]
<1>7. t \in Task /\ t.st = st BY TaskForms, <1>5
<1>8. task' = [task EXCEPT ![f][u] = t] BY <1>6
<1> HIDE DEF t
<1>9. t.st \notin Live /\ t.st # "shut" /\ t.st # "asking" BY <1>7 DEF Live
<1>10. GoesOn(f, u, t) BY <1>2, <1>5, <1>8, <1>9 DEF GoesOn
<1>11. /\ task' \in [Fetch -> [Url -> Task]]
       /\ TasksOfFetches' /\ SessionsInTurn' /\ ConnectionsBounded'
       /\ page' = page => ReadOnce'
  BY <1>1, <1>2, <1>7, <1>10, TaskGoesOn
<1>12. Url' = Url /\ Shown' = Shown BY <1>1 DEF Url, Shown
<1>13. CASE page' = page /\ proxies' = proxies
  <2>1. PagesFound' /\ NothingElse' BY <1>1, <1>13, FoundStays
  <2>2. TypeOK' BY <1>1, <1>2, <1>5, <1>11, <1>12, <1>13 DEF ProviderInv, TypeOK
  <2> QED BY <1>11, <1>13, <2>1, <2>2 DEF ProviderInv
<1>14. CASE ~ (page' = page /\ proxies' = proxies)
  <2>1. PICK p \in source.site[u] :
          /\ page' = [page EXCEPT ![f][u] = p]
          /\ symbols' = Defined(p, symbols, source.reads.by = "symbols" /\ source.reads.keeps)
          /\ proxies' = proxies \cup Entries(p, Received(source.reads, p, symbols'), source.proto)
    BY <1>14 DEF PageAnswers, found
  <2>2. PagesFound' /\ NothingElse'
    <3> DEFINE R == Received(source.reads, p, symbols')
    <3>1. R = Received(source.reads, p,
                       Defined(p, symbols, source.reads.by = "symbols" /\ source.reads.keeps))
      BY <2>1
    <3>2. proxies' = proxies \cup Entries(p, R, source.proto) BY <2>1
    <3> HIDE DEF R
    <3> QED BY <1>1, <1>3, <1>4, <2>1, <3>1, <3>2, PageIsFound
  <2>3. \A g \in Fetch, v \in Url : page'[g][v] = IF g = f /\ v = u THEN p ELSE page[g][v]
    BY <2>1 DEF ProviderInv, TypeOK
  <2>4. ReadOnce'
    <3> SUFFICES ASSUME NEW g \in Fetch, NEW v \in Url,
                        \/ fetch[g] \in {"off", "index"}
                        \/ task'[g][v].st \in Live /\ task'[g][v].for = "pages"
                 PROVE  page'[g][v] = Blank
      BY <1>1, <1>12 DEF ReadOnce
    <3>1. task'[g][v] = IF g = f /\ v = u THEN t ELSE task[g][v]
      BY <1>8 DEF ProviderInv, TypeOK
    <3>2. ~ (g = f /\ v = u) BY <3>1, <1>4, <1>9
    <3> QED BY <2>3, <3>1, <3>2 DEF ProviderInv, ReadOnce
  <2>5. TypeOK'
    <3>1. p \in Shown BY <2>1 DEF Shown
    <3>2. page' \in [Fetch -> [Url -> Shown]] BY <2>1, <3>1 DEF ProviderInv, TypeOK
    <3>3. proxies \subseteq proxies' BY <2>1
    <3>4. handed' \in [Fetch -> SUBSET proxies'] BY <1>1, <3>3 DEF ProviderInv, TypeOK
    <3> QED BY <1>1, <1>2, <1>5, <1>11, <1>12, <3>2, <3>4 DEF ProviderInv, TypeOK
  <2> QED BY <1>11, <2>2, <2>4, <2>5 DEF ProviderInv
<1> QED BY <1>13, <1>14

\* It holds when nothing changes.
LEMMA StutterKeeps ==
  ASSUME ProviderInv, UNCHANGED vars PROVE ProviderInv'
<1>1. UNCHANGED <<source, fetch, task, page, free, session, proxies, handed>>
  BY DEF vars
<1>2. Url' = Url /\ Shown' = Shown BY <1>1 DEF Url, Shown
<1>3. PagesFound' /\ NothingElse' BY <1>1, FoundStays
<1>4. TypeOK' BY <1>1, <1>2 DEF ProviderInv, TypeOK
<1>5. TasksOfFetches' /\ ReadOnce' BY <1>1, <1>2 DEF ProviderInv, TasksOfFetches, ReadOnce
<1>6. SessionsInTurn' BY <1>1, <1>2 DEF ProviderInv, SessionsInTurn
<1>7. ConnectionsBounded' BY <1>1, <1>2 DEF ProviderInv, ConnectionsBounded
<1> QED BY <1>3, <1>4, <1>5, <1>6, <1>7 DEF ProviderInv

\* The invariant is inductive.
LEMMA ProviderSteps == ProviderInv /\ [Next]_vars => ProviderInv'
<1> SUFFICES ASSUME ProviderInv, [Next]_vars PROVE ProviderInv' OBVIOUS
<1>1. CASE UNCHANGED vars BY <1>1, StutterKeeps
<1>2. ASSUME NEW f \in Fetch, Start(f) \/ TimeOut(f) \/ Step(f) PROVE ProviderInv'
  <2>1. CASE Start(f) BY <2>1, StartKeeps
  <2>2. CASE TimeOut(f) BY <2>2, FetchStepsKeep
  <2>3. CASE NextKind(f) \/ IndexEnds(f) BY <2>3, IndexStepsKeep
  <2>4. CASE PagesEnd(f) BY <2>4, PagesEndKeeps
  <2>5. CASE FetchFails(f) \/ TimedOut(f) BY <2>5, FetchStepsKeep
  <2>6. ASSUME NEW u \in Url, Ask(f, u) \/ Cancelled(f, u) \/ NoAnswer(f, u) \/ Breaks(f, u)
                              \/ IndexAnswers(f, u) \/ PageAnswers(f, u)
        PROVE  ProviderInv'
    BY <2>6, TaskStepsKeep, PageAnswersKeeps
  <2> QED BY <1>2, <2>1, <2>2, <2>3, <2>4, <2>5, <2>6 DEF Step
<1> QED BY <1>1, <1>2 DEF Next

\* It holds in every behaviour, whatever the fetches, their pages and the end of
\* their time do to each other.
THEOREM ProviderInvariant == Spec => []ProviderInv
BY ProviderStarts, ProviderSteps, PTL DEF Spec

-----------------------------------------------------------------------------
\* Provider._get under its semaphore: however a request ends, in an answer, an
\* error, a cancellation or on a closed session, max_conn is what is free and
\* what is out.
THEOREM ProviderBoundsConnections == Spec => []ConnectionsBounded
<1>1. ProviderInv => ConnectionsBounded BY DEF ProviderInv
<1> QED BY <1>1, ProviderInvariant, PTL

\* get_proxies() and wait_for(): a fetch that is done or timed out has no task
\* left, and a task meets a closed session only after its fetch has failed,
\* unless two Brokers use the provider.
THEOREM ProviderStraysAreOfFailures == Spec => []StraysAreOfFailures
<1>1. ProviderInv => StraysAreOfFailures
  BY DEF ProviderInv, TasksOfFetches, SessionsInTurn, StraysAreOfFailures, InState
<1> QED BY <1>1, ProviderInvariant, PTL

\* find_proxies() of every provider and the setter of proxies: whatever other
\* pages do, a fetch that is done hands over all that the documented pages it
\* has read list, each with a protocol of its marking.
THEOREM ProviderHandsOver == Spec => []HandsOver
<1>1. ProviderInv => HandsOver
  <2> SUFFICES ASSUME ProviderInv, NEW f \in Fetch, fetch[f] = "done", NEW u \in ReadBy(f),
                      Documented(source.reads, page[f][u]), NEW a \in Listed(page[f][u])
               PROVE  \E e \in handed[f] :
                        e.addr = a /\ e.proto \in ProtoOf(page[f][u], a, source.proto)
    BY DEF HandsOver
  <2>1. u \in Url BY DEF ReadBy
  <2>2. Has(source, handed[f], page[f][u]) BY <2>1 DEF ProviderInv, PagesFound
  <2> QED BY <2>2 DEF Has
<1> QED BY <1>1, ProviderInvariant, PTL

\* And as long as all pages have been documented ones it hands over nothing
\* that is not on a page.
THEOREM ProviderInventsNothing == Spec => []NothingInvented
<1>1. ProviderInv => NothingInvented
  <2> SUFFICES ASSUME ProviderInv,
                      \A f \in Fetch : \A u \in ReadBy(f) : Documented(source.reads, page[f][u]),
                      NEW f \in Fetch, NEW e \in handed[f]
               PROVE  \E g \in Fetch : \E u \in ReadBy(g) :
                        /\ e.addr \in Listed(page[g][u])
                        /\ e.proto \in ProtoOf(page[g][u], e.addr, source.proto)
    BY DEF NothingInvented
  <2>1. \A g \in Fetch, u \in Url : page[g][u] = Blank \/ Documented(source.reads, page[g][u])
    BY DEF ReadBy
  <2>2. e \in proxies BY DEF ProviderInv, TypeOK
  <2>3. PICK g \in Fetch, u \in Url : Shows(source, page[g][u], e)
    BY <2>1, <2>2 DEF ProviderInv, NothingElse
  <2> QED BY <2>3 DEF Shows, ReadBy
<1> QED BY <1>1, ProviderInvariant, PTL
=============================================================================
