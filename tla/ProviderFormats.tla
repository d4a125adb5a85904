--------------------------- MODULE ProviderFormats ---------------------------
(***************************************************************************)
(* What the providers of proxybroker.providers and .provider_utils read in *)
(* a page: patterns, formats and decoders as pure operators.  An address   *)
(* is a pair <<host, port>>, a page one of                                 *)
(*   [kind |-> "text",    lines |-> Seq([form, addr, mark])]               *)
(*   [kind |-> "json",    at |-> Seq(key), items |-> set of [ip, port, addr]] *)
(*   [kind |-> "symbols", defs |-> Seq([sym, num, ref]),                   *)
(*                        rows |-> set of [host, syms]]                    *)
(*   [kind |-> "index",   links |-> set of URLs or of page numbers]        *)
(*   Blank, the empty string.                                              *)
(***************************************************************************)
EXTENDS Integers, Sequences, FiniteSets, SequencesExt

CONSTANT None  \* Python's None

ASSUME NoneAssumption == None \notin 0..1

Blank == [kind |-> "blank"]

\* A line shows an address as `h:p', `h:p, note', `h p', `h,p',
\* <td>h</td><td>p</td>, `scheme://h:p', `[v6]:p' or in base64, with a third
\* part or without a host or a port; or it is prose, or garbled base64.
Plain == {"colon", "noted", "spaced", "comma", "tagged", "url", "v6"}
LineForm == Plain \cup {"coded", "triple", "hostless", "portless", "prose", "garbled"}

NoPort == None  \* what a pattern finds where there is no port
Junk == <<"word", "word">>  \* taken for an address by a parser, and none

\* The addresses on the lines of some forms.
On(page, forms) ==
  IF page.kind # "text" THEN {}
  ELSE {line.addr : line \in {l \in ToSet(page.lines) : l.form \in forms}}

JunkIf(page, form) == IF On(page, {form}) # {} THEN {Junk} ELSE {}

\* What a site may show, for the assumption on the sources: the schemes are
\* those of the pattern in _proxies_with_schemes, a digit is a bit.
IsAddress(addr) == addr = <<addr[1], addr[2]>> /\ addr[2] # NoPort

IsText(page) ==
  /\ page.lines \in Seq(ToSet(page.lines))
  /\ \A i \in DOMAIN page.lines :
       /\ page.lines[i].form \in LineForm
       /\ IsAddress(page.lines[i].addr)
       /\ page.lines[i].form = "url" => page.lines[i].mark \in {"socks5", "socks4", "https", "http"}

IsSymbols(page) ==
  /\ page.defs \in Seq(ToSet(page.defs))
  /\ \A i \in DOMAIN page.defs : page.defs[i].num \in 0..1
  /\ \A row \in page.rows : row.syms \in Seq(ToSet(row.syms)) /\ Len(row.syms) \in 1..2

IsPage(page) ==
  \/ page = Blank
  \/ page.kind = "text" /\ IsText(page)
  \/ page.kind = "json" /\ \A item \in page.items : IsAddress(item.addr)
  \/ page.kind = "symbols" /\ IsSymbols(page)
  \/ page.kind = "index"

-----------------------------------------------------------------------------
(* Provider. *)

\* _find_proxies: an IPv4 address is found wherever a port follows it, and
\* with an empty port where none does.
FindIPv4(page) ==
  IF page.kind = "json" THEN {item.addr : item \in page.items}
  ELSE On(page, Plain \ {"v6"}) \cup {<<addr[1], NoPort>> : addr \in On(page, {"portless"})}

\* find_proxies: IPv6 entries are masked and added apart.
ByPattern(page) == FindIPv4(page) \cup On(page, {"v6"})

SchemeProto(mark) ==
  CASE mark = "socks5" -> {"SOCKS5"}
    [] mark = "socks4" -> {"SOCKS4"}
    [] mark = "https"  -> {"HTTPS", "CONNECT:80", "CONNECT:25"}
    [] mark = "http"   -> {"HTTP", "CONNECT:80"}

\* The lines that mark an address with a scheme.
Marks(page, addr) ==
  IF page.kind # "text" THEN {}
  ELSE {i \in DOMAIN page.lines : page.lines[i].form = "url" /\ page.lines[i].addr = addr}

MarkAt(page, i) == SchemeProto(page.lines[i].mark)

\* The entries that what was received from a page becomes, in the setter or,
\* when the page marks any address, in _proxies_with_schemes: the last mark
\* of an address wins, and addresses without a port are dropped.
EntriesAsDeclared(page, received, proto) ==
  {[addr |-> a, proto |-> proto] : a \in {r \in received : r[2] # NoPort}}

Entries(page, received, proto) ==
  {[addr |-> a,
    proto |-> IF Marks(page, a) = {} THEN proto ELSE MarkAt(page, Max(Marks(page, a)))] :
   a \in {r \in received : r[2] # NoPort}}

-----------------------------------------------------------------------------
(* SimpleProvider. *)

\* A custom pattern with two groups finds pairs; with one, the joined text,
\* which is split at its last colon.
ByCustomPattern(page, groups) ==
  CASE groups = 2 -> On(page, {"colon", "noted", "spaced", "comma", "url"})
    [] groups = 1 -> On(page, {"colon", "noted", "url"})
    [] OTHER      -> {}

\* _parse_text: the digits after the first colon, else the first two words.
ByText(page) == On(page, {"colon", "noted", "spaced"}) \cup JunkIf(page, "prose")

\* _parse_csv: the first two fields of each row.
ByCsv(page) == On(page, {"comma"}) \cup JunkIf(page, "noted")

\* The items with a known field for the host and one for the port, and those
\* that are the text `h:p'.
ItemsWith(items, hosts, ports) ==
  {item.addr : item \in {i \in items : i.ip = "text" \/ (i.ip \in hosts /\ i.port \in ports)}}

\* _parse_json: a list, or an object that wraps one under a known key.
ByJson(page) ==
  IF page.kind = "json"
     /\ \/ page.at = <<>>
        \/ Len(page.at) = 1 /\ page.at[1] \in {"proxies", "data", "results", "items", "list"}
  THEN ItemsWith(page.items, {"ip", "host", "address", "proxy"}, {"port", "p"})
  ELSE {}

\* _detect_format, anew for each page.
FirstLineHasComma(page) ==
  Len(page.lines) > 1 /\ page.lines[1].form \in {"comma", "noted"}

Detected(page) ==
  IF page.kind = "json" THEN "json"
  ELSE IF page.kind = "text" /\ FirstLineHasComma(page) THEN "csv"
  ELSE IF On(page, {"tagged"}) # {} THEN "html" ELSE "text"

\* find_proxies.
BySimple(page, format) ==
  LET fmt == IF format = "auto" THEN Detected(page) ELSE format
  IN CASE fmt = "json" -> ByJson(page)
       [] fmt = "csv"  -> ByCsv(page)
       [] fmt = "text" -> ByText(page)
       [] fmt = "html" -> FindIPv4(page)

-----------------------------------------------------------------------------
(* APIProvider. *)

\* _walk_proxy_path: where the list is, seen from where the path leads; a key
\* that is not there is passed over.
Walked(at, path) ==
  FoldLeft(LAMBDA rest, key : IF rest # <<>> /\ rest[1] = key THEN Tail(rest) ELSE rest,
           at, path)

\* find_proxies: the list at the end of the path or under a common key there,
\* or else whatever the pattern finds in the page.
ByApi(page, format, path) ==
  IF format # "json" \/ page.kind # "json" THEN FindIPv4(page)
  ELSE LET rest == Walked(page.at, path)
       IN IF rest = <<>> \/ (Len(rest) = 1 /\ rest[1] \in {"proxies", "data", "results", "items"})
          THEN ItemsWith(page.items, {"ip", "host", "address", "proxy_ip"},
                         {"port", "proxy_port", "p"})
          ELSE FindIPv4(page)

-----------------------------------------------------------------------------
(* The sites that hide their addresses. *)

\* Proxy_list_org and Free_proxy_cz.
ByBase64(page) == On(page, {"coded", "triple"})

\* Proxyb_net: the hosts are paired with the ports by position, and a row
\* without a host loses its place among the hosts only.
ByPosition(page) ==
  IF page.kind # "text" THEN {}
  ELSE LET hosts == {i \in DOMAIN page.lines : page.lines[i].form # "hostless"}
           place(i) == Cardinality({j \in hosts : j <= i})
       IN {<<page.lines[i].addr[1], page.lines[place(i)].addr[2]>> : i \in hosts}

\* charEqNum: the digit of each symbol; here a digit is a bit.
Xor(a, b) == (a + b) % 2

Value(table, def) == IF def.ref = None THEN def.num ELSE Xor(def.num, table[def.ref])
With(table, sym, num) ==
  [s \in DOMAIN table \cup {sym} |-> IF s = sym THEN num ELSE table[s]]

DefineOnce(table, def) ==
  IF def.ref \notin DOMAIN table \cup {None} \/ def.sym \in DOMAIN table THEN table
  ELSE With(table, def.sym, Value(table, def))

\* One definition, `sym=num' or `sym=num^ref'; one whose ref is unknown is
\* skipped, and a later one replaces an earlier one.
Define(table, def) ==
  IF def.ref \notin DOMAIN table \cup {None} THEN table
  ELSE With(table, def.sym, Value(table, def))

\* The tables on the way through the definitions of a page.
Tables(defs, before) ==
  LET table[i \in 0..Len(defs)] ==
        IF i = 0 THEN before ELSE Define(table[i - 1], defs[i])
  IN table

\* The table after a page: Xseo_in and Nntime_com start each page afresh,
\* Spys_ru adds to what earlier pages, also of earlier passes, have left.
Defined(page, table, keeps) ==
  IF page.kind # "symbols" THEN table
  ELSE Tables(page.defs, IF keeps THEN table ELSE <<>>)[Len(page.defs)]

Port(row, table) ==
  IF Len(row.syms) = 1 THEN table[row.syms[1]]
  ELSE Xor(table[row.syms[1]], table[row.syms[2]])

\* Spys_ru only knows ports of two symbols.
Decodable(row, table, keeps) ==
  ToSet(row.syms) \subseteq DOMAIN table /\ (keeps => Len(row.syms) = 2)

\* Spys_ru leaves a port with an unknown symbol alone: that address has none.
\* The others raise KeyError, which costs the page.
BySymbols(page, table, keeps) ==
  IF page.kind # "symbols" \/ (~keeps /\ \E row \in page.rows : ~Decodable(row, table, keeps)) THEN {}
  ELSE {<<row.host, IF Decodable(row, table, keeps) THEN Port(row, table) ELSE NoPort>> :
        row \in page.rows}

-----------------------------------------------------------------------------
\* find_proxies of a provider, by what it reads; raising counts as nothing.
Received(reads, page, table) ==
  CASE On(page, {"garbled"}) # {} -> {}
    [] OTHER ->
       CASE reads.by = "pattern"  -> ByPattern(page)
         [] reads.by = "custom"   -> ByCustomPattern(page, reads.groups)
         [] reads.by = "simple"   -> BySimple(page, reads.format)
         [] reads.by = "api"      -> ByApi(page, reads.format, reads.path)
         [] reads.by = "base64"   -> ByBase64(page)
         [] reads.by = "position" -> ByPosition(page)
         [] reads.by = "symbols"  -> BySymbols(page, table, reads.keeps)

\* Base64 that decodes to three parts cannot be unpacked, and the setter is
\* not in the try block: it is the fetch that fails.
Unpackable(reads, page) == reads.by = "base64" /\ On(page, {"triple"}) # {}

-----------------------------------------------------------------------------
(* What a page means, for the properties. *)

Uniform(page, form) == \A i \in 1..Len(page.lines) : page.lines[i].form = form
AllOf(page, forms) == \A i \in 1..Len(page.lines) : page.lines[i].form \in forms

\* The pages a provider is written for: lists of a form it reads, a table of
\* several rows or lines of one form when it has to find out; JSON of the
\* shape it expects; symbols defined before they are used.
DocumentedText(reads, page) ==
  CASE reads.by = "pattern"  -> AllOf(page, Plain)
    [] reads.by = "api"      -> AllOf(page, Plain \ {"v6"})
    [] reads.by = "custom"   -> reads.groups \in 1..2 /\ AllOf(page, {"colon", "url"})
    [] reads.by = "base64"   -> AllOf(page, {"coded"})
    [] reads.by = "position" -> AllOf(page, {"tagged"})
    [] reads.by = "simple"   ->
         CASE reads.format = "text" -> AllOf(page, {"colon", "noted", "spaced"})
           [] reads.format = "html" -> AllOf(page, Plain \ {"v6"})
           [] reads.format = "csv"  -> Uniform(page, "comma")
           [] reads.format = "auto" ->
                \/ \E form \in {"colon", "spaced", "tagged"} : Uniform(page, form)
                \/ Uniform(page, "comma") /\ Len(page.lines) > 1
           [] OTHER -> FALSE
    [] OTHER -> FALSE

DocumentedJson(reads, page) ==
  /\ \A item \in page.items :
       item.ip = "text" \/ (item.ip \in {"ip", "host", "address"} /\ item.port \in {"port", "p"})
  /\ \/ reads.by = "simple" /\ reads.format \in {"auto", "json"} /\ page.at \in {<<>>, <<"proxies">>, <<"list">>}
     \/ reads.by = "api" /\ reads.format = "json" /\ page.at \in {reads.path, Append(reads.path, "data")}

DocumentedSymbols(reads, page) ==
  LET n == Len(page.defs)
  IN /\ reads.by = "symbols"
     /\ \A i, j \in 1..n : page.defs[i].sym = page.defs[j].sym => i = j
     /\ \A i \in 1..n : page.defs[i].ref \in {None} \cup {page.defs[j].sym : j \in 1..i - 1}
     /\ \A row \in page.rows :
          ToSet(row.syms) \subseteq {page.defs[i].sym : i \in 1..n} /\ (reads.keeps => Len(row.syms) = 2)

\* The digits that the page itself gives to its symbols.
Meaning(page) ==
  CHOOSE t \in [{def.sym : def \in ToSet(page.defs)} -> 0..1] :
    \A def \in ToSet(page.defs) : t[def.sym] = Value(t, def)

Documented(reads, page) ==
  CASE page.kind = "text"    -> DocumentedText(reads, page)
    [] page.kind = "json"    -> DocumentedJson(reads, page)
    [] page.kind = "symbols" -> DocumentedSymbols(reads, page)
    [] OTHER -> FALSE

\* The addresses on such a page.
Listed(page) ==
  CASE page.kind = "text"    -> On(page, LineForm)
    [] page.kind = "json"    -> {item.addr : item \in page.items}
    [] page.kind = "symbols" -> {<<row.host, Port(row, Meaning(page))>> : row \in page.rows}

\* The protocols that an entry of a page may have: those the page marks its
\* address with, or else the provider's.
ProtoOf(page, addr, proto) ==
  IF Marks(page, addr) = {} THEN {proto} ELSE {MarkAt(page, i) : i \in Marks(page, addr)}
=============================================================================
