------------------------------ MODULE MCProvider ------------------------------
(* Instances of Provider for TLC: one source for each shape of _pipe() and   *)
(* each way to read a page.                                                   *)
EXTENDS Provider

A == <<"h1", "80">>
B == <<"h2", "90">>
Line(form, addr, mark) == [form |-> form, addr |-> addr, mark |-> mark]
Text(lines) == [kind |-> "text", lines |-> lines]
Index(linked) == [kind |-> "index", links |-> linked]
Json(at, items) == [kind |-> "json", at |-> at, items |-> items]
Item(ip, port, addr) == [ip |-> ip, port |-> port, addr |-> addr]

MCSource(pipe, reads, idx, listed, site) ==
  [pipe |-> pipe, reads |-> reads, proto |-> {"HTTP"}, index |-> idx, pages |-> listed,
   site |-> site, shared |-> FALSE]

Pattern == [by |-> "pattern"]
Config(type, format) ==
  [type |-> type, url |-> "u", protocols |-> {"HTTP"}, format |-> format, path |-> <<"result">>,
   groups |-> None, start |-> 1, max |-> 2, step |-> 1]
Custom(n) == [Config("simple", "auto") EXCEPT !.groups = n]
I == <<"index", 0>>
J == <<"other", 0>>
U == <<"u", 1>>
V == <<"u", 2>>

PlainA == Text(<<Line("colon", A, "none")>>)
MarkedB == Text(<<Line("url", B, "socks4"), Line("url", B, "socks5"), Line("colon", A, "none")>>)

\* What is configured, at a site.
At(c, site) == Configured(c) @@ [site |-> site, shared |-> FALSE]

\* A configuration of two pages, one marks its addresses with schemes.
Listing == At(Config("paginated", "auto"), U :> {PlainA} @@ V :> {MarkedB})

\* The same list, in use by two Brokers.
Shared == [Listing EXCEPT !.shared = TRUE]

\* Index pages that link two pages, one or none.
Linking == MCSource("linked", Pattern, <<I, J>>, {},
             I :> {Index({U, V}), Index({})} @@ J :> {Index({U})} @@ U :> {PlainA} @@ V :> {MarkedB})

\* Base64 on the index page and on those it links; not all of it decodes.
Base64 == MCSource("linkedSelf", [by |-> "base64"], <<I>>, {},
            I :> {Index({U}), Text(<<Line("coded", B, "none")>>)} @@ U :> {Text(<<Line("coded", A, "none")>>),
              Text(<<Line("garbled", A, "none"), Line("coded", B, "none")>>),
              Text(<<Line("triple", A, "none")>>)})

\* Page numbers on the index page (Proxylist_me): none, or up to two.
Numbers == MCSource("numbered", Pattern, <<I>>, {},
             I :> {Index({}), Index({1, 2})} @@ <<"index", 1>> :> {PlainA} @@ <<"index", 2>> :> {MarkedB})

\* Two kinds of lists, asked for one after the other (Gatherproxy_com).
Kinds == MCSource("kinds", Pattern, <<I, J>>, {},
           I :> {Index({1, 2})} @@ J :> {Index({})} @@ <<"index", 1>> :> {PlainA}
           @@ <<"index", 2>> :> {PlainA} @@ <<"other", 1>> :> {MarkedB})

\* Ports written in symbols: defined in order, ahead of their definition, or
\* not at all.
Def(sym, num, ref) == [sym |-> sym, num |-> num, ref |-> ref]
Row(host, syms) == [host |-> host, syms |-> syms]
Symbols(defs, rows) == [kind |-> "symbols", defs |-> defs, rows |-> rows]

InOrder  == Symbols(<<Def("x", 1, None), Def("y", 1, "x")>>, {Row("h1", <<"x", "y">>)})
Redefined == Symbols(<<Def("x", 0, None), Def("y", 1, "x"), Def("z", 1, None)>>,
                     {Row("h1", <<"x", "y">>), Row("h2", <<"x", "z">>)})
Ahead    == Symbols(<<Def("y", 1, "z"), Def("x", 1, None)>>, {Row("h2", <<"x", "y">>)})

Session == MCSource("session", [by |-> "symbols", keeps |-> TRUE], <<I>>, {U, V},
             I :> {Index({}), Index({"id"})} @@ U :> {InOrder, Redefined} @@ V :> {InOrder, Ahead})

SingleA == Symbols(<<Def("x", 1, None)>>, {Row("h1", <<"x">>)})
Undefined == Symbols(<<Def("y", 1, None)>>, {Row("h1", <<"x">>), Row("h2", <<"y">>)})

\* One page, whatever it shows to a reader.
OnePage(reads, shown) == {MCSource("list", reads, <<>>, {U}, U :> {p}) : p \in shown}

TwoLines == {Text(<<Line(f, A, "http"), Line(g, B, "https")>>) :
               f \in Plain \cup {"portless", "prose"}, g \in {"colon", "comma"}}
Lists == {Json(at, {Item(ip, port, A), Item("text", "text", B)}) :
            at \in {<<>>, <<"proxies">>, <<"list">>, <<"data">>, <<"result">>, <<"result", "data">>},
            ip \in {"ip", "proxy_ip"}, port \in {"p", "proxy_port"}}

Single(c, shown) == {At(c, U :> {p}) : p \in shown}

Readings ==
  UNION {Single(Config("simple", fmt), TwoLines) : fmt \in {"auto", "text", "csv", "html"}}
  \cup UNION {Single(Config("simple", fmt), Lists) : fmt \in {"auto", "json"}}
  \cup Single(Config("api", "json"), Lists) \cup Single(Config("api", "text"), TwoLines)
  \cup UNION {Single(Custom(n), TwoLines) : n \in 0..2}
  \cup OnePage([by |-> "symbols", keeps |-> FALSE], {SingleA, Undefined})
  \cup OnePage([by |-> "position"],
          {Text(<<Line(f, A, "none"), Line("tagged", B, "none")>>) : f \in {"tagged", "hostless"}})

MCSources == {Listing, Shared, Linking, Base64, Numbers, Kinds, Session} \cup Readings
=============================================================================
