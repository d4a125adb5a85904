------------------------------- MODULE Provider -------------------------------
(***************************************************************************)
(* proxybroker.providers.Provider and its subclasses: one provider object  *)
(* that lives as long as the process and is fetched pass after pass, each  *)
(* fetch a _fetch() of Broker._grab: a session is opened, _pipe() reads    *)
(* index pages and the pages they lead to, concurrently and each with      *)
(* retries, under one semaphore, and the set of all proxies ever found is  *)
(* handed over.  Several Brokers share the objects of PROVIDERS, so that   *)
(* two fetches may run at a time.                                          *)
(***************************************************************************)
EXTENDS ProviderFormats, FiniteSets, FiniteSetsExt

CONSTANTS
  Sources,  \* the providers and their sites, see MCProvider
  MaxTries, \* max_tries
  MaxConn,  \* max_conn
  Fetches   \* bound: how often the provider is fetched

ASSUME ProviderAssumption ==
  MaxTries \in Nat \ {0} /\ MaxConn \in Nat \ {0} /\ Fetches \in Nat

\* A provider reads in one of the ways of the classes or a configuration, and
\* its site has finitely many URLs.
ASSUME SourcesAssumption ==
  \A s \in Sources :
    /\ IsFiniteSet(DOMAIN s.site)
    /\ \A u \in DOMAIN s.site : \A p \in s.site[u] : IsPage(p)
    /\ s.shared \in BOOLEAN
    /\ s.reads.by \in {"pattern", "simple", "api", "custom", "base64", "position", "symbols"}
    /\ s.reads.by = "simple" => s.reads.format \in {"auto", "json", "csv", "text", "html"}
    /\ s.reads.by = "symbols" => s.reads.keeps \in BOOLEAN

Fetch == 1..Fetches

VARIABLES
  source,   \* the provider: its pipe, what it reads, and what its site shows
  fetch,    \* per fetch: where get_proxies() is
  index,    \* per fetch: index pages still to be asked for
  links,    \* per fetch: what the index pages have led to
  task,     \* per fetch and URL: the task that gets the page
  page,     \* per fetch and URL: history, the page it got
  free,     \* _sem_provider
  session,  \* _session: the fetch that opened it
  symbols,  \* charEqNum
  proxies,  \* _proxies
  handed    \* per fetch: what it returned

vars == <<source, fetch, index, links, task, page, free, session, symbols,
          proxies, handed>>
pages == <<index, links, page>>
found == <<symbols, proxies>>

\* The pages of the site.
Url == DOMAIN source.site

Running == {"index", "pages"}
Over == {"done", "failed", "timedOut"}
Live == {"waiting", "asking"}

NoTask == [st |-> "off", for |-> "none", tries |-> 0, via |-> 0]
Tasks(urls, for) ==
  [u \in Url |-> IF u \in urls THEN [NoTask EXCEPT !.st = "waiting", !.for = for] ELSE NoTask]

InState(f, states) == {u \in Url : task[f][u].st \in states}
IsOpen(f) == f # 0 /\ fetch[f] \in Running \cup {"cancelling"}

Init ==
  /\ source \in Sources
  /\ fetch = [f \in Fetch |-> "off"]
  /\ index = [f \in Fetch |-> <<>>]
  /\ links = [f \in Fetch |-> {}]
  /\ task = [f \in Fetch |-> Tasks({}, "none")]
  /\ page = [f \in Fetch |-> [u \in Url |-> Blank]]
  /\ free = MaxConn
  /\ session = 0
  /\ symbols = <<>>
  /\ proxies = {}
  /\ handed = [f \in Fetch |-> {}]

-----------------------------------------------------------------------------
(* _pipe(): which pages are asked for. *)

\* PaginatedProvider._page_range, and the ranges the subclasses spell out; two
\* page numbers never make the same URL.
PageUrls(name, start, max, step) == {<<name, start + i * step>> : i \in 0..max - 1}

\* ConfigurableProvider.from_config: what a configuration makes of the base
\* class, its pages being known from the start.
Reading(c) ==
  CASE c.type = "paginated" -> [by |-> "pattern"]
    [] c.type = "api"       -> [by |-> "api", format |-> c.format, path |-> c.path]
    [] c.groups # None      -> [by |-> "custom", groups |-> c.groups]
    [] OTHER                -> [by |-> "simple", format |-> c.format]

Configured(c) ==
  [pipe |-> "list", index |-> <<>>, proto |-> c.protocols, reads |-> Reading(c),
   pages |-> IF c.type = "paginated" THEN PageUrls(c.url, c.start, c.max, c.step)
             ELSE {<<c.url, 1>>}]

\* max(page_ids, default=1): a site without page numbers has one page.
UpToLast(name, ids) == PageUrls(name, 1, IF ids = {} THEN 1 ELSE Max(ids), 1)

\* All links, or those of the last kind that answered (Gatherproxy_com).
Linked(old, u, new) ==
  CASE source.pipe = "numbered" -> old \cup UpToLast(u[1], new)
    [] source.pipe = "kinds"    -> UpToLast(u[1], new)
    [] OTHER                    -> old \cup new

\* The pages: a fixed list, those linked, those linked and the index itself,
\* and the list if the index shows a session id (Spys_ru).
Pages(f) ==
  CASE source.pipe = "list"       -> source.pages
    [] source.pipe = "linkedSelf" -> links[f] \cup ToSet(source.index)
    [] source.pipe = "numbered"   -> links[f] \cup UpToLast(source.index[1][1], {})
    [] source.pipe = "session"    -> IF links[f] = {} THEN {} ELSE source.pages
    [] OTHER                      -> links[f]

\* Gatherproxy_com asks for one index page after the other, the others gather.
FirstAsked == IF source.pipe = "kinds" THEN {source.index[1]} ELSE ToSet(source.index)

-----------------------------------------------------------------------------
(* get_proxies(). *)

\* A fetch opens its session, which becomes the session of the provider.
Start(f) ==
  /\ fetch[f] = "off"
  /\ f > 1 => fetch[f - 1] \in Over \/ (source.shared /\ fetch[f - 1] # "off")
  /\ session' = f
  /\ fetch' = [fetch EXCEPT ![f] = IF source.index = <<>> THEN "pages" ELSE "index"]
  /\ task' = [task EXCEPT ![f] =
                IF source.index = <<>> THEN Tasks(Pages(f), "pages")
                ELSE Tasks(FirstAsked, "index")]
  /\ index' = [index EXCEPT ![f] =
                 IF source.pipe = "kinds" THEN Tail(source.index) ELSE <<>>]
  /\ UNCHANGED <<source, links, page, free, found, handed>>

\* The next kind, when the previous one has answered or been given up.
NextKind(f) ==
  /\ fetch[f] = "index" /\ index[f] # <<>>
  /\ InState(f, Live \cup {"raised", "shut"}) = {}
  /\ task' = [task EXCEPT ![f] = Tasks({Head(index[f])}, "index")]
  /\ index' = [index EXCEPT ![f] = Tail(@)]
  /\ UNCHANGED <<source, fetch, links, page, free, session, found, handed>>

\* The index pages have all been got or given up: _find_on_pages.
IndexEnds(f) ==
  /\ fetch[f] = "index" /\ index[f] = <<>>
  /\ InState(f, Live \cup {"raised", "shut"}) = {}
  /\ fetch' = [fetch EXCEPT ![f] = "pages"]
  /\ task' = [task EXCEPT ![f] = Tasks(Pages(f), "pages")]
  /\ links' = [links EXCEPT ![f] = {}]
  /\ UNCHANGED <<source, index, page, free, session, found, handed>>

\* All pages have been: the session is closed, _fetch copies the set.
AllPagesOver(f) == InState(f, Live \cup {"raised", "shut"}) = {}

PagesEnd(f) ==
  /\ fetch[f] = "pages"
  /\ AllPagesOver(f)
  /\ fetch' = [fetch EXCEPT ![f] = "done"]
  /\ handed' = [handed EXCEPT ![f] = proxies]
  /\ UNCHANGED <<source, pages, task, free, session, found>>

\* gather() passes on the first exception and leaves the other tasks alone;
\* the session is closed under them.
FetchFails(f) ==
  /\ fetch[f] \in Running
  /\ InState(f, {"raised", "shut"}) # {}
  /\ fetch' = [fetch EXCEPT ![f] = "failed"]
  /\ UNCHANGED <<source, pages, task, free, session, found, handed>>

\* wait_for() cancels the fetch, and gather() its tasks; so does stop().
TimeOut(f) ==
  /\ fetch[f] \in Running
  /\ fetch' = [fetch EXCEPT ![f] = "cancelling"]
  /\ UNCHANGED <<source, pages, task, free, session, found, handed>>

NotAwaited(f) == TRUE
Awaited(f) == InState(f, Live) = {}

TimedOut(f) ==
  /\ fetch[f] = "cancelling"
  /\ Awaited(f)
  /\ fetch' = [fetch EXCEPT ![f] = "timedOut"]
  /\ UNCHANGED <<source, pages, task, free, session, found, handed>>

-----------------------------------------------------------------------------
(* _find_on_page() and get(): a task. *)

\* A request ends without a page: the next try, or the last one is over.
TriedForEver(t) == [t EXCEPT !.st = "waiting", !.via = 0]
Tried(t) ==
  IF t.tries + 1 < MaxTries THEN [t EXCEPT !.tries = @ + 1, !.st = "waiting", !.via = 0]
  ELSE [NoTask EXCEPT !.st = "blank"]

Set(f, u, t) == task' = [task EXCEPT ![f][u] = t]
Ends(f, u, st) == Set(f, u, [NoTask EXCEPT !.st = st])

\* The semaphore is entered, and the request made with the session there is
\* now; a closed one raises RuntimeError.
Ask(f, u) ==
  /\ task[f][u].st = "waiting" /\ fetch[f] # "cancelling"
  /\ free > 0
  /\ IF IsOpen(session)
       THEN /\ Set(f, u, [task[f][u] EXCEPT !.st = "asking", !.via = session])
            /\ free' = free - 1
       ELSE Ends(f, u, "shut") /\ UNCHANGED free
  /\ UNCHANGED <<source, fetch, pages, session, found, handed>>

Asking(f, u) == task[f][u].st = "asking" /\ fetch[f] # "cancelling"

\* A bad status, a timeout, a lost connection or a page nobody can decode, and
\* an empty page: get() tries again.
NoAnswer(f, u) ==
  /\ Asking(f, u)
  /\ free' = free + 1
  /\ Set(f, u, Tried(task[f][u]))
  /\ UNCHANGED <<source, fetch, pages, session, found, handed>>

\* Any other error of the client: a payload cut short, a URL that is none, a
\* connector closed while it connects.
Breaks(f, u) ==
  /\ Asking(f, u)
  /\ free' = free + 1
  /\ Ends(f, u, "raised")
  /\ UNCHANGED <<source, fetch, pages, session, found, handed>>

\* The answer to a request for an index page.
IndexAnswers(f, u) ==
  /\ Asking(f, u) /\ task[f][u].for = "index" /\ IsOpen(task[f][u].via)
  /\ free' = free + 1
  /\ \E p \in {p \in source.site[u] : p.kind = "index"} :
       links' = [links EXCEPT ![f] = Linked(@, u, p.links)]
  /\ Ends(f, u, "read")
  /\ UNCHANGED <<source, fetch, index, page, session, found, handed>>

\* The answer to a request for a page of proxies; the fetch may have failed.
PageAnswers(f, u) ==
  /\ Asking(f, u) /\ task[f][u].for = "pages" /\ IsOpen(task[f][u].via)
  /\ free' = free + 1
  /\ \E p \in {p \in source.site[u] : p.kind # "index"} :
       IF Unpackable(source.reads, p)
       THEN Ends(f, u, "raised") /\ UNCHANGED <<page, found>>
       ELSE /\ Ends(f, u, "read")
            /\ page' = [page EXCEPT ![f][u] = p]
            /\ symbols' = Defined(p, symbols, source.reads.by = "symbols" /\ source.reads.keeps)
            /\ proxies' = proxies \cup Entries(p, Received(source.reads, p, symbols'), source.proto)
  /\ UNCHANGED <<source, fetch, index, links, session, handed>>

\* A cancelled task leaves the semaphore.
KeepsSemaphore(f, u) == free
LeavesSemaphore(f, u) == IF task[f][u].st = "asking" THEN free + 1 ELSE free

Cancelled(f, u) ==
  /\ fetch[f] = "cancelling" /\ task[f][u].st \in Live
  /\ free' = LeavesSemaphore(f, u)
  /\ Ends(f, u, "cancelled")
  /\ UNCHANGED <<source, fetch, pages, session, found, handed>>

-----------------------------------------------------------------------------
\* The steps of a fetch that its tasks take in turn, and those that it only
\* takes when the Broker or the clock says so.
Step(f) ==
  \/ NextKind(f) \/ IndexEnds(f) \/ PagesEnd(f) \/ FetchFails(f) \/ TimedOut(f)
  \/ \E u \in Url : \/ Ask(f, u) \/ Cancelled(f, u) \/ NoAnswer(f, u) \/ Breaks(f, u)
                    \/ IndexAnswers(f, u) \/ PageAnswers(f, u)

Next == \E f \in Fetch : Start(f) \/ TimeOut(f) \/ Step(f)

Spec == Init /\ [][Next]_vars

\* The event loop takes a step of a fetch as long as there is one: a request
\* has a timeout, so that it is over at some point, with an answer or without.
FairSpec == Spec /\ \A f \in Fetch : WF_vars(Step(f))

-----------------------------------------------------------------------------
(* Properties. *)

\* However a request ends (answered, failed, cancelled, its session closed
\* under it), the semaphore is as many short of max_conn as requests are out.
ConnectionsBounded ==
  free + Cardinality({r \in Fetch \X Url : task[r[1]][r[2]].st = "asking"}) = MaxConn

\* What still runs after its fetch was left behind by an exception: a fetch
\* that is done or timed out has no task left, and while one Broker uses the
\* provider nobody meets a closed session but the strays of a failed fetch.
StraysAreOfFailures ==
  \A f \in Fetch :
    /\ fetch[f] \in {"done", "timedOut"} => InState(f, Live) = {}
    /\ ~source.shared /\ InState(f, {"shut"}) # {} => fetch[f] = "failed"

\* The pages a fetch has read.
ReadBy(f) == {u \in Url : page[f][u] # Blank}

\* A fetch that is done hands over all that the documented pages it read list,
\* with a protocol of the list's own marking or else the provider's, though
\* other pages failed and whatever symbols earlier pages defined.
HandsOver ==
  \A f \in Fetch : fetch[f] = "done" =>
    \A u \in ReadBy(f) : Documented(source.reads, page[f][u]) =>
      \A a \in Listed(page[f][u]) :
        \E e \in handed[f] : e.addr = a /\ e.proto \in ProtoOf(page[f][u], a, source.proto)

\* As long as every page read has been a documented one, what is handed over
\* is on a page of this fetch or of an earlier one.
NothingInvented ==
  (\A f \in Fetch : \A u \in ReadBy(f) : Documented(source.reads, page[f][u])) =>
    \A f \in Fetch : \A e \in handed[f] :
      \E g \in Fetch : \E u \in ReadBy(g) :
        e.addr \in Listed(page[g][u]) /\ e.proto \in ProtoOf(page[g][u], e.addr, source.proto)

\* Every fetch ends, and so do the tasks it leaves behind.
FetchesEnd ==
  \A f \in Fetch :
    fetch[f] # "off" ~> fetch[f] \in Over /\ InState(f, Live) = {}
=============================================================================
