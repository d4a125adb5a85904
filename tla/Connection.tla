------------------------------ MODULE Connection -----------------------------
(***************************************************************************)
(* proxybroker.proxy.Proxy as a connection, the negotiators, and the two   *)
(* places that drive them: first Checker._check (and _check_conn_25), one  *)
(* protocol after the other, then the attempts of Server._handle.          *)
(*                                                                         *)
(* An exchange is the sequence `rest' of what is still to be done on the   *)
(* wire, each item an await.  The peer may answer, refuse, fall silent,    *)
(* reset the connection or close it in the middle of an answer.            *)
(***************************************************************************)
EXTENDS Integers, Sequences, FiniteSets

CONSTANTS
  Asked,         \* the checker's protocols; a proxy may be expected to have fewer
  MaxTries,      \* max_tries, of the checker and of the server
  PreferConnect, \* the server's prefer_connect
  DomainLength,  \* the length of a domain name in a SOCKS5 reply
  MaxRequests    \* bound: no exchange begins beyond so many requests

Protocol == {"HTTP", "HTTPS", "CONNECT:80", "CONNECT:25", "SOCKS4", "SOCKS5"}
Socks == {"SOCKS4", "SOCKS5"}
Scheme == {"HTTP", "HTTPS"}
Family == {"v4", "v6"}
\* The address type in the reply of a SOCKS5 proxy: its own choice.
AddressType == {"v4", "v6", "domain", "unknown"}

ASSUME ConnectionAssumption ==
  /\ Asked \subseteq Protocol
  /\ MaxTries \in Nat \ {0} /\ PreferConnect \in BOOLEAN
  /\ DomainLength \in 0..255 /\ MaxRequests \in Nat

VARIABLES
  todo,     \* protocols still to be checked
  types,    \* Proxy.types: the protocols that worked
  strict,   \* _ssl_context is True: the verify_ssl option
  dropped,  \* "no", or whose exception made that nobody will use the proxy
            \* again: the check's, or that of the server's `finally'
  job,      \* the exchange under way
  rest,     \* what it still has to do; <<>> when there is none
  refs,     \* the keys of _writer (and _reader) that are not None
  live,     \* the sockets that are open
  closed,   \* _closed
  requests, \* stat["requests"]
  errors,   \* sum(stat["errors"].values())
  unread,   \* how much of the peer's answers is still in the stream
  gone,     \* the peer has closed its side
  told,     \* the client of a CONNECT request has been answered
  altered   \* bytes of an established tunnel were changed on the way

socket == <<refs, live, closed>>
stat == <<requests, errors>>
client == <<told, altered>>
checked == <<todo, types, dropped>>
vars == <<strict, checked, job, rest, socket, stat, unread, gone, client>>

Job == [user : {"check", "serve"}, proto : Protocol, scheme : Scheme,
        dest : Family, reply : AddressType, tries : 0..MaxTries - 1]
NoJob == [user |-> "none"]

-----------------------------------------------------------------------------
(* What an exchange does. *)

\* The negotiators, an item for each send(), recv() and connect(ssl=True).
Handshake ==
  [p \in Protocol |->
     CASE p = "HTTP"       -> <<>>
       [] p = "HTTPS"      -> <<"send", "head", "tls">>
       [] p = "CONNECT:80" -> <<"send", "head">>
       [] p = "CONNECT:25" -> <<"send", "head", "banner">>
       [] p = "SOCKS4"     -> <<"send", "grant">>
       [] p = "SOCKS5"     -> <<"send", "method", "send", "reply", "bound">>]

\* Checker._check ends with the test request, _check_conn_25 with the banner.
\* Server._handle negotiates for three protocols only; for the others the
\* client's request goes to the proxy as it is.  A client whose tunnel is a
\* SOCKS connection is answered by the server itself.
Script(j) ==
  IF j.user = "check"
    THEN <<"connect">> \o Handshake[j.proto]
         \o (IF j.proto = "CONNECT:25" THEN <<>> ELSE <<"send", "answer">>)
    ELSE <<"connect">>
         \o (IF j.proto \in Socks \cup {"CONNECT:80"}
               THEN <<"resolve">> \o Handshake[j.proto] ELSE <<>>)
         \o (IF j.scheme = "HTTPS" /\ j.proto \in Socks
               THEN <<"established">> ELSE <<"send">>)
         \o <<"stream">>

At(item) == rest # <<>> /\ Head(rest) = item
AtOneOf(items) == rest # <<>> /\ Head(rest) \in items

\* Server._choice_proto: the first of these that the proxy has.
Preferred(scheme) ==
  IF scheme = "HTTPS" THEN <<"HTTPS", "SOCKS5", "SOCKS4">>
  ELSE IF PreferConnect THEN <<"CONNECT:80", "HTTP", "SOCKS5", "SOCKS4">>
  ELSE <<"HTTP", "CONNECT:80", "SOCKS5", "SOCKS4">>
Choices(scheme) ==
  LET s == Preferred(scheme)
  IN {s[i] : i \in {i \in DOMAIN s : s[i] \in types /\ \A k \in 1..i - 1 : s[k] \notin types}}

-----------------------------------------------------------------------------
(* Beginning and ending an exchange. *)

Init ==
  /\ strict \in BOOLEAN
  /\ todo \in (SUBSET Asked) \ {{}} /\ types = {} /\ dropped = "no"
  /\ job = NoJob /\ rest = <<>>
  /\ refs = {} /\ live = {} /\ closed = TRUE
  /\ requests = 0 /\ errors = 0
  /\ unread = 0 /\ gone = FALSE
  /\ told = FALSE /\ altered = FALSE

Begin(j) ==
  /\ rest = <<>> /\ dropped = "no" /\ requests < MaxRequests
  /\ job' = j /\ rest' = Script(j)
  /\ told' = FALSE
  /\ UNCHANGED <<types, dropped, socket, stat, unread, gone, altered>>

BeginCheck(p, f) ==
  /\ p \in todo /\ todo' = todo \ {p}
  /\ Begin([user |-> "check", proto |-> p, scheme |-> "HTTP", dest |-> f,
            reply |-> "unknown", tries |-> 0])

\* A proxy is served once its check is over and found something.
BeginServe(s, p, f) ==
  /\ todo = {} /\ p \in Choices(s) /\ UNCHANGED todo
  /\ Begin([user |-> "serve", proto |-> p, scheme |-> s, dest |-> f,
            reply |-> "unknown", tries |-> 0])

\* Proxy.close() while the sockets in `open' are open.
Close(open) ==
  /\ refs' = IF closed THEN refs ELSE {}
  /\ live' = IF closed THEN open ELSE open \ refs
  /\ closed' = TRUE

\* What follows a failure.  The checker tries again after a timeout only, the
\* server after any proxy error.
Retried(kind) ==
  /\ job.tries + 1 < MaxTries
  /\ \/ kind = "timeout"
     \/ kind = "error" /\ job.user = "serve"

\* An attempt whose `finally' runs to its end.  An exception that nobody
\* expects, and a cancellation, end the check as a whole.
Finishes(kind, open) ==
  /\ Close(open)
  /\ IF Retried(kind)
       THEN /\ job' = [job EXCEPT !.tries = @ + 1, !.reply = "unknown"]
            /\ rest' = Script(job)
       ELSE job' = NoJob /\ rest' = <<>>
  /\ dropped' = IF job.user = "check" /\ kind \in {"raised", "cancelled"}
                  THEN "check" ELSE dropped

\* The server's `finally' begins with request.decode().  It raises for a request
\* that is not UTF-8: nothing is logged or closed, there is no other attempt and
\* the proxy is not put back.  A request that is retried has been decoded before.
DecodeRaises(open) ==
  /\ job.user = "serve" /\ job.tries = 0
  /\ job' = NoJob /\ rest' = <<>>
  /\ live' = open /\ UNCHANGED <<refs, closed>>
  /\ dropped' = "serve"

\* The end of an attempt, with its `finally'.
Ends(kind, open) ==
  /\ Finishes(kind, open) \/ DecodeRaises(open)
  /\ unread' = 0 /\ gone' = FALSE
  /\ UNCHANGED todo

\* proxy.log(..., err): an error is counted.
Counted == errors' = errors + 1 /\ UNCHANGED requests
Fails(kind) == Counted /\ Ends(kind, live) /\ UNCHANGED <<types, client>>
\* The same without an error.
Leaves(kind) == Ends(kind, live) /\ UNCHANGED <<types, stat, client>>

\* The next item, the sockets as they are.
Goes(next) ==
  /\ rest' = next
  /\ UNCHANGED <<checked, socket, stat, client>>

-----------------------------------------------------------------------------
(* connect(), connect(ssl=True) and send(). *)

ConnectsStillClosed ==
  /\ At("connect")
  /\ refs' = {"conn"} /\ live' = live \cup {"conn"}
  /\ requests' = requests + 1 /\ rest' = Tail(rest)
  /\ UNCHANGED <<checked, job, closed, errors, unread, gone, client>>
Connects ==
  /\ At("connect")
  /\ refs' = {"conn"} /\ live' = live \cup {"conn"} /\ closed' = FALSE
  /\ requests' = requests + 1 /\ rest' = Tail(rest)
  /\ UNCHANGED <<checked, job, errors, unread, gone, client>>

ConnectFailsUncounted(kind) == At("connect") /\ Fails(kind)
ConnectFails(kind) ==
  /\ At("connect")
  /\ requests' = requests + 1 /\ errors' = errors + 1
  /\ Ends(kind, live)
  /\ UNCHANGED <<types, client>>

\* start_tls over the open connection.
TlsUp ==
  /\ At("tls") /\ ~strict
  /\ refs' = refs \cup {"ssl"} /\ live' = live \cup {"ssl"} /\ closed' = FALSE
  /\ requests' = requests + 1 /\ rest' = Tail(rest)
  /\ UNCHANGED <<checked, job, errors, unread, gone, client>>

\* asyncio closes the transport when start_tls fails.
TlsFails(kind) ==
  /\ At("tls") /\ ~strict
  /\ requests' = requests + 1 /\ errors' = errors + 1
  /\ Ends(kind, {})
  /\ UNCHANGED <<types, client>>

\* start_tls takes an SSLContext; it raises TypeError when it is given True.
TlsRaises ==
  /\ At("tls") /\ strict
  /\ requests' = requests + 1 /\ UNCHANGED errors
  /\ Ends("raised", live)
  /\ UNCHANGED <<types, client>>

\* SOCKS4 has no IPv6 addresses: the negotiator raises before it sends.
Unsupported == At("send") /\ Tail(rest) # <<>> /\ rest[2] = "grant" /\ job.dest = "v6"
NotForSocks4 == Unsupported /\ Fails("error")

AddressLength(type) ==
  CASE type = "v4" -> 4 [] type = "v6" -> 16 [] OTHER -> DomainLength

\* How much the peer sends in reply to a message, given what is read next: a
\* head and an answer are units, the others are so many bytes.  Behind a head,
\* a mail server's banner is a line.
Reply(next, type) ==
  CASE next = "head"   -> IF job.proto = "CONNECT:25" THEN 1 + 4 ELSE 1
    [] next = "answer" -> 1
    [] next = "method" -> 2
    [] next = "grant"  -> 8
    [] next = "reply"  -> 4 + (IF type = "domain" THEN 1 ELSE 0) + AddressLength(type) + 2
    [] OTHER           -> 0

Sends ==
  /\ At("send") /\ ~Unsupported
  /\ \E type \in IF rest[2] = "reply" THEN AddressType ELSE {job.reply} :
       /\ job' = [job EXCEPT !.reply = type]
       /\ unread' = unread + (IF gone THEN 0 ELSE Reply(rest[2], type))
  /\ Goes(Tail(rest))
  /\ UNCHANGED gone
SendFails == At("send") /\ ~Unsupported /\ Fails("error")

-----------------------------------------------------------------------------
(* recv() and the negotiators' use of it. *)

Receiving == {"head", "method", "grant", "reply", "length", "bound", "banner", "answer"}

\* The address that ends a SOCKS5 reply has the length the reply says.
BoundLengthAsAsked == AddressLength(job.dest) + 2
BoundLength == AddressLength(job.reply) + 2

Wanted ==
  CASE At("method") -> 2
    [] At("grant")  -> 8
    [] At("reply")  -> 4
    [] At("bound")  -> BoundLength
    [] At("banner") -> 3
    [] OTHER        -> 1
Arrived == ~gone /\ unread >= Wanted

\* What was expected has been read.
Receives ==
  /\ AtOneOf({"head", "method", "grant", "reply", "length", "bound"})
  /\ Arrived /\ ~(At("reply") /\ job.reply = "unknown")
  /\ unread' = unread - Wanted
  /\ Goes(IF At("reply") /\ job.reply = "domain" THEN <<"length">> \o Tail(rest)
                                                 ELSE Tail(rest))
  /\ UNCHANGED <<job, gone>>

\* It reads as a refusal, or as nonsense: BadStatusError, BadResponseError.
Refused ==
  /\ AtOneOf({"head", "method", "grant", "reply", "banner"})
  /\ Arrived
  /\ Fails("error")

\* Nothing in time; or the connection is reset, or at its end.
RecvTimesOut == AtOneOf(Receiving) /\ ~gone /\ Fails("timeout")
RecvFails == AtOneOf(Receiving) /\ Fails("error")

\* The peer closes in the middle of an answer: recv() returns what there is.
\* Its bytes are indexed all the same, so a negotiator may raise IndexError
\* (or ValueError, at a line that is longer than asyncio accepts)...
CutShortRaises ==
  /\ AtOneOf({"head", "method", "grant", "reply"}) /\ ~gone
  /\ Leaves("raised")
\* ... or not miss what is not there.
CutShortPasses ==
  /\ AtOneOf({"grant", "bound", "head"}) /\ ~gone
  /\ unread' = 0 /\ gone' = TRUE
  /\ Goes(Tail(rest))
  /\ UNCHANGED job

-----------------------------------------------------------------------------
(* The end of a check. *)

Works ==
  /\ types' = types \cup {job.proto}
  /\ Ends("done", live)
  /\ UNCHANGED <<stat, client>>

BannerGood == At("banner") /\ Arrived /\ Works
AnswerGood == At("answer") /\ Arrived /\ Works
\* A page without the marks of the request.
AnswerWrong == At("answer") /\ Arrived /\ Leaves("done")
\* A status other than 200, or no header: counted, and not tried again.
AnswerRefused == At("answer") /\ Arrived /\ Fails("error")
\* Headers that do not parse, where nobody expects that.
AnswerRaises == At("answer") /\ ~gone /\ Leaves("raised")

-----------------------------------------------------------------------------
(* The server's part. *)

\* ResolveError: the handler returns.
Resolves == At("resolve") /\ Goes(Tail(rest)) /\ UNCHANGED <<job, unread, gone>>
ResolveFails == At("resolve") /\ Leaves("done")

\* The client is told that its tunnel stands; it may be gone.
Established ==
  /\ At("established")
  /\ told' = TRUE /\ rest' = Tail(rest)
  /\ UNCHANGED <<checked, job, socket, stat, unread, gone, altered>>
EstablishedRaises == At("established") /\ Leaves("raised")

\* _stream: the first data from the proxy.  A header is put behind its first
\* line whatever it is: through a SOCKS tunnel it is encrypted.
Relays ==
  /\ At("stream") /\ ~gone
  /\ rest' = <<"relay">>
  /\ altered' = (altered \/ told)
  /\ told' = (job.scheme = "HTTPS")
  /\ UNCHANGED <<checked, job, socket, stat, unread, gone>>
\* It has no first line: ValueError.
RelayRaises == At("stream") /\ ~gone /\ Leaves("raised")

Streaming == AtOneOf({"stream", "relay"})
StreamEnds == Streaming /\ Leaves("done")

\* ErrorOnStream, of either direction, or of a response with another status
\* than the allowed ones: a timeout once the client is through counts as the
\* end; CONNECT requests are not tried again.  The `finally' counts the error:
\* if it raises before, that is as when the streams end.
StreamFailsRetriesAll == Streaming /\ Fails("error")
StreamFails ==
  /\ Streaming
  /\ Counted /\ Finishes(IF job.scheme = "HTTPS" THEN "done" ELSE "error", live)
  /\ unread' = 0 /\ gone' = FALSE
  /\ UNCHANGED <<todo, types, client>>

\* The check or the handler is cancelled at whatever it awaits: the attempt
\* is closed, connect() counts the request.
Cancelled ==
  /\ rest # <<>> /\ ~Unsupported /\ ~(At("tls") /\ strict)
  /\ requests' = IF AtOneOf({"connect", "tls"}) THEN requests + 1 ELSE requests
  /\ Ends("cancelled", IF At("tls") THEN {} ELSE live)
  /\ UNCHANGED <<types, errors, client>>

-----------------------------------------------------------------------------
Step ==
  \/ \E f \in Family :
       \/ \E p \in Asked : BeginCheck(p, f)
       \/ \E s \in Scheme, p \in Protocol : BeginServe(s, p, f)
  \/ Connects \/ TlsUp \/ TlsRaises \/ NotForSocks4 \/ Sends \/ SendFails
  \/ \E kind \in {"timeout", "error"} : ConnectFails(kind) \/ TlsFails(kind)
  \/ Receives \/ Refused \/ RecvTimesOut \/ RecvFails
  \/ CutShortRaises \/ CutShortPasses
  \/ BannerGood \/ AnswerGood \/ AnswerWrong \/ AnswerRefused \/ AnswerRaises
  \/ Resolves \/ ResolveFails \/ Established \/ EstablishedRaises
  \/ Relays \/ RelayRaises \/ StreamEnds \/ StreamFails \/ Cancelled

Next == Step /\ UNCHANGED strict

Spec == Init /\ [][Next]_vars

-----------------------------------------------------------------------------
(* Properties. *)

\* Every variable has its type.
TypeOK ==
  /\ strict \in BOOLEAN
  /\ todo \subseteq Asked /\ types \subseteq Protocol /\ dropped \in {"no", "check", "serve"}
  /\ job \in Job \cup {NoJob} /\ (job = NoJob <=> rest = <<>>)
  /\ refs \subseteq {"conn", "ssl"} /\ live \subseteq {"conn", "ssl"}
  /\ closed \in BOOLEAN
  /\ requests \in Nat /\ errors \in Nat
  /\ unread \in Nat /\ gone \in BOOLEAN
  /\ told \in BOOLEAN /\ altered \in BOOLEAN

\* The socket that `writer' and `reader' stand for.
Chosen == IF "ssl" \in refs THEN "ssl" ELSE "conn"

\* However an attempt ends, by success, refusal, timeout, an exception nobody
\* expects or a cancellation, in connect() or in the TLS upgrade: no socket
\* stays open, none is open that close() would not find, a new attempt starts
\* without those of the last one, and what is written goes to an open one.
\* The exception: where request.decode() raises in the server's `finally'
\* (server.py:510) the attempt's sockets stay open, and no attempt follows.
SocketsOwned ==
  /\ live \subseteq refs
  /\ rest = <<>> \/ At("connect") => refs = {} \/ (dropped = "serve" /\ rest = <<>>)
  /\ AtOneOf(Receiving \cup {"send", "tls", "stream"}) => Chosen \in live

\* error_rate, by which the pool discards a proxy, is a rate: no attempt counts
\* two errors, and none counts an error without a request.
ErrorRateIsARate == errors <= requests

\* When a negotiator is done, all of the peer's reply has been read, whatever
\* address type a SOCKS5 proxy answers with: the next bytes are the tunnel's.
TunnelIsClean ==
  rest \in {<<"established", "stream">>, <<"send", "stream">>, <<"send", "answer">>}
    => unread = 0

\* Once a client has an answer to its CONNECT, from the server or from a proxy,
\* what it gets are the bytes of its tunnel: no header is put into them and no
\* second attempt answers it again.  The server's own answer ahead of a SOCKS
\* tunnel is the exception: there the header does go into the tunnel.
TunnelAlteredOnlyBehindSocks == [][altered' /\ ~altered => job.proto \in Socks]_vars
=============================================================================
