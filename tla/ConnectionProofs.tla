--------------------------- MODULE ConnectionProofs ---------------------------
(* Theorems about Connection for any protocols, number of tries and requests. *)
EXTENDS Connection, SequenceTheorems, TLAPS

Terminal == {"banner", "answer", "stream", "relay"}
Item == {"connect", "send", "tls", "resolve", "established"}
        \cup {"head", "method", "grant", "reply", "length", "bound"} \cup Terminal

\* What may follow an item in an exchange of job j.
After(j, item) ==
  CASE item = "connect"       -> {"resolve", "send"}
    [] item = "resolve"       -> {"send"}
    [] item = "send"          -> {"head", "method", "grant", "reply"}
                                 \cup (IF j.user = "check" THEN {"answer"} ELSE {"stream"})
    [] item = "head"          -> IF j.proto = "CONNECT:25" THEN {"banner"} ELSE {"tls", "send"}
    [] item \in {"tls", "method"}     -> {"send"}
    [] item \in {"reply", "length"}   -> {"bound"}
    [] item \in {"grant", "bound"}    ->
         IF j.user = "serve" /\ j.scheme = "HTTPS" /\ j.proto \in Socks
           THEN {"established"} ELSE {"send"}
    [] item = "established"   -> {"stream"}
    [] OTHER                  -> {}

\* A sequence of items each of which may follow the one before it.
Linked(j, s) ==
  /\ s \in Seq(Item) /\ s # <<>>
  /\ \A i \in 1..Len(s) - 1 : s[i + 1] \in After(j, s[i])

\* What is left of an exchange, at any of its items.
Remains(j, s) == Linked(j, s) /\ s[Len(s)] \in Terminal

\* One that begins with the first item and ends with the last.
Runs(j, s, first, last) == Linked(j, s) /\ s[1] = first /\ s[Len(s)] = last

\* The end of one linked sequence and the head of another link them.
LEMMA Join ==
  ASSUME NEW j, NEW s, NEW t, NEW a, NEW b, NEW c, NEW d,
         Runs(j, s, a, b), Runs(j, t, c, d), c \in After(j, b)
  PROVE  Runs(j, s \o t, a, d)
<1> DEFINE n == Len(s)
           m == Len(t)
           u == s \o t
<1>0. Linked(j, s) /\ Linked(j, t) /\ t[1] \in After(j, s[Len(s)])  BY DEF Runs
<1>1. s \in Seq(Item) /\ t \in Seq(Item)  BY <1>0 DEF Linked
<1>2. n \in Nat \ {0} /\ m \in Nat \ {0}  BY <1>0, <1>1 DEF Linked
<1>3. /\ u \in Seq(Item) /\ Len(u) = n + m
      /\ \A i \in 1..n + m : u[i] = IF i <= n THEN s[i] ELSE t[i - n]
  BY <1>1, ConcatProperties
<1>4. u # <<>>  BY <1>2, <1>3
<1>5. ASSUME NEW i \in 1..Len(u) - 1 PROVE u[i + 1] \in After(j, u[i])
  <2> HIDE DEF u
  <2>1. CASE i < n
    <3>1. u[i] = s[i] /\ u[i + 1] = s[i + 1] /\ i \in 1..n - 1  BY <2>1, <1>2, <1>3
    <3> QED  BY <1>0, <3>1 DEF Linked
  <2>2. CASE i = n
    <3>1. u[i] = s[n] /\ u[i + 1] = t[1]  BY <2>2, <1>2, <1>3
    <3> QED  BY <1>0, <3>1
  <2>3. CASE i > n
    <3>1. u[i] = t[i - n] /\ u[i + 1] = t[(i - n) + 1] /\ i - n \in 1..m - 1
      BY <2>3, <1>2, <1>3
    <3> QED  BY <1>0, <3>1 DEF Linked
  <2> QED  BY <2>1, <2>2, <2>3, <1>2, <1>3
<1>6. u[1] = s[1] /\ u[Len(u)] = t[Len(t)]  BY <1>2, <1>3
<1> QED  BY <1>3, <1>4, <1>5, <1>6 DEF Linked, Runs

\* Nothing added is nothing changed.
LEMMA JoinNothing ==
  ASSUME NEW j, NEW s, NEW a, NEW b, Runs(j, s, a, b)
  PROVE  s \o <<>> = s
BY ConcatEmptySeq DEF Runs, Linked

\* An exchange of one item.
LEMMA RunsOne ==
  ASSUME NEW j, NEW i \in Item
  PROVE  Runs(j, <<i>>, i, i)
BY DEF Runs, Linked

\* The negotiators' parts, and where they begin and end.
HandshakeEnd(proto) ==
  CASE proto = "HTTPS"      -> "tls"
    [] proto = "CONNECT:80" -> "head"
    [] proto = "CONNECT:25" -> "banner"
    [] proto = "SOCKS4"     -> "grant"
    [] OTHER                -> "bound"

LEMMA Handshakes ==
  ASSUME NEW j \in Job, j.proto # "HTTP"
  PROVE  Runs(j, Handshake[j.proto], "send", HandshakeEnd(j.proto))
<1>1. j.proto \in Protocol  BY DEF Job
<1>2. CASE j.proto = "HTTPS"
  <2>1. Handshake[j.proto] = <<"send", "head", "tls">>  BY <1>2 DEF Handshake, Protocol
  <2> QED  BY <2>1, <1>2 DEF Runs, Linked, Item, Terminal, After, HandshakeEnd
<1>3. CASE j.proto = "CONNECT:80"
  <2>1. Handshake[j.proto] = <<"send", "head">>  BY <1>3 DEF Handshake, Protocol
  <2> QED  BY <2>1, <1>3 DEF Runs, Linked, Item, Terminal, After, HandshakeEnd
<1>4. CASE j.proto = "CONNECT:25"
  <2>1. Handshake[j.proto] = <<"send", "head", "banner">>  BY <1>4 DEF Handshake, Protocol
  <2> QED  BY <2>1, <1>4 DEF Runs, Linked, Item, Terminal, After, HandshakeEnd
<1>5. CASE j.proto = "SOCKS4"
  <2>1. Handshake[j.proto] = <<"send", "grant">>  BY <1>5 DEF Handshake, Protocol
  <2> QED  BY <2>1, <1>5 DEF Runs, Linked, Item, Terminal, After, HandshakeEnd
<1>6. CASE j.proto = "SOCKS5"
  <2>1. Handshake[j.proto] = <<"send", "method", "send", "reply", "bound">>  BY <1>6 DEF Handshake, Protocol
  <2> QED  BY <2>1, <1>6 DEF Runs, Linked, Item, Terminal, After, HandshakeEnd
<1> QED  BY <1>1, <1>2, <1>3, <1>4, <1>5, <1>6 DEF Protocol

\* An exchange begins with connect(), and only there; it does not run out
\* before a terminal item.
LEMMA Scripts ==
  ASSUME NEW j \in Job
  PROVE  \E last \in Terminal : Runs(j, Script(j), "connect", last)
<1> DEFINE h == Handshake[j.proto]
           c == <<"connect">>
<1>1. j.proto \in Protocol /\ j.user \in {"check", "serve"} /\ j.scheme \in Scheme
  BY DEF Job
<1>2. Runs(j, c, "connect", "connect")  BY RunsOne DEF Item
<1>3. {"resolve", "send"} = After(j, "connect")  BY DEF After
<1>4. CASE j.user = "check"
  <2> DEFINE a == <<"send", "answer">>
             e == IF j.proto = "CONNECT:25" THEN <<>> ELSE a
  <2>1. Script(j) = (c \o h) \o e  BY <1>4 DEF Script
  <2>2. Runs(j, a, "send", "answer")  BY <1>4 DEF Runs, Linked, Item, Terminal, After
  <2>3. CASE j.proto = "HTTP"
    <3>1. h = <<>> /\ e = a  BY <2>3 DEF Handshake, Protocol
    <3> HIDE DEF h, a, e, c
    <3>2. c \o h = c  BY <1>2, <3>1, JoinNothing
    <3>3. Runs(j, c \o a, "connect", "answer")  BY <1>2, <1>3, <2>2, Join
    <3>4. Script(j) = c \o a  BY <2>1, <3>1, <3>2
    <3> QED  BY <3>3, <3>4 DEF Terminal
  <2>4. CASE j.proto # "HTTP"
    <3> DEFINE last == HandshakeEnd(j.proto)
    <3>1. Runs(j, h, "send", last)  BY <2>4, Handshakes
    <3> DEFINE ch == c \o h
    <3>2. Runs(j, ch, "connect", last)
      <4> HIDE DEF c, h, last
      <4> QED  BY <1>2, <1>3, <3>1, Join
    <3>3. CASE j.proto = "CONNECT:25"
      <4>1. e = <<>> /\ last = "banner"  BY <3>3 DEF HandshakeEnd
      <4> HIDE DEF ch, e, last
      <4>2. ch \o <<>> = ch  BY <3>2, JoinNothing
      <4>3. Script(j) = ch  BY <2>1, <4>1, <4>2 DEF ch
      <4> QED  BY <3>2, <4>1, <4>3 DEF Terminal
    <3>4. CASE j.proto # "CONNECT:25"
      <4>1. e = a  BY <3>4
      <4>2. "send" \in After(j, last)
        BY <1>1, <1>4, <2>4, <3>4 DEF After, HandshakeEnd, Protocol
      <4> HIDE DEF ch, e, last, a
      <4>3. Runs(j, ch \o a, "connect", "answer")  BY <2>2, <3>2, <4>2, Join
      <4>4. Script(j) = ch \o a  BY <2>1, <4>1 DEF ch
      <4> QED  BY <4>3, <4>4 DEF Terminal
    <3> QED  BY <3>3, <3>4
  <2> QED  BY <2>3, <2>4
<1>5. CASE j.user = "serve"
  <2> DEFINE bare == j.proto \notin Socks \cup {"CONNECT:80"}
             own == j.scheme = "HTTPS" /\ j.proto \in Socks
             r == <<"resolve">>
             b == IF bare THEN <<>> ELSE r \o h
             i == IF own THEN "established" ELSE "send"
             e == IF own THEN <<"established">> ELSE <<"send">>
             z == <<"stream">>
             cb == c \o b
             last == IF bare THEN "connect" ELSE HandshakeEnd(j.proto)
  <2>1. Script(j) = (cb \o e) \o z  BY <1>5 DEF Script
  <2>2. Runs(j, e, i, i)
    <3>1. e = <<i>> /\ i \in Item  BY DEF Item
    <3> HIDE DEF e, i
    <3> QED  BY <3>1, RunsOne
  <2>3. Runs(j, z, "stream", "stream")  BY RunsOne DEF Item, Terminal
  <2>4. Runs(j, cb, "connect", last)
    <3>1. CASE bare
      <4>1. b = <<>> /\ last = "connect"  BY <3>1
      <4> HIDE DEF b, c, last
      <4>2. c \o b = c  BY <1>2, <4>1, JoinNothing
      <4> QED  BY <1>2, <4>1, <4>2
    <3>2. CASE ~bare
      <4>1. b = r \o h /\ j.proto # "HTTP" /\ last = HandshakeEnd(j.proto)  BY <3>2 DEF Socks
      <4>2. Runs(j, h, "send", last)  BY <4>1, Handshakes
      <4>3. Runs(j, r, "resolve", "resolve")  BY RunsOne DEF Item
      <4>4. "send" \in After(j, "resolve")  BY DEF After
      <4> HIDE DEF b, c, h, r, last
      <4>5. Runs(j, b, "resolve", last)  BY <4>1, <4>2, <4>3, <4>4, Join
      <4> QED  BY <1>2, <1>3, <4>5, Join
    <3> QED  BY <3>1, <3>2
  <2>5. i \in After(j, last)
    <3>1. CASE bare  BY <3>1 DEF After
    <3>2. CASE j.proto = "CONNECT:80"  BY <3>2 DEF After, HandshakeEnd, Socks
    <3>3. CASE j.proto \in Socks  BY <3>3, <1>5 DEF After, HandshakeEnd, Socks
    <3> QED  BY <3>1, <3>2, <3>3
  <2>6. "stream" \in After(j, i)  BY <1>5 DEF After
  <2> HIDE DEF cb, e, i, z, last
  <2>7. Runs(j, cb \o e, "connect", i)  BY <2>2, <2>4, <2>5, Join
  <2>8. Runs(j, (cb \o e) \o z, "connect", "stream")  BY <2>3, <2>6, <2>7, Join
  <2> QED  BY <2>1, <2>8 DEF Terminal
<1> QED  BY <1>1, <1>4, <1>5

\* What is left after an item that is not the last.
LEMMA OneOn ==
  ASSUME NEW j, NEW s, Remains(j, s), s[1] \notin Terminal
  PROVE  /\ Remains(j, Tail(s))
         /\ Tail(s)[1] = s[2] /\ s[2] \in After(j, s[1])
         /\ Tail(s) # <<>> /\ s[2] # "connect"
<1>0. s \in Seq(Item) /\ s # <<>> /\ s[1] # s[Len(s)]  BY DEF Remains, Linked
<1>1. s \in Seq(Item) /\ s # <<>> /\ Len(s) \in Nat /\ Len(s) >= 2
  <2>1. Len(s) \in Nat /\ Len(s) # 0  BY <1>0, EmptySeq
  <2> QED  BY <1>0, <2>1
<1>2. /\ Tail(s) \in Seq(Item) /\ Len(Tail(s)) = Len(s) - 1
      /\ \A i \in 1..Len(s) - 1 : Tail(s)[i] = s[i + 1]
  BY <1>1
<1>3. s[2] \in After(j, s[1])  BY <1>1 DEF Remains, Linked
<1>4. s[2] # "connect"  BY <1>3 DEF After
<1>5. Linked(j, Tail(s))
  <2>1. ASSUME NEW i \in 1..Len(Tail(s)) - 1
        PROVE  Tail(s)[i + 1] \in After(j, Tail(s)[i])
    <3>1. i \in 1..Len(s) - 1 /\ i + 1 \in 1..Len(s) - 1  BY <1>1, <1>2
    <3>2. Tail(s)[i] = s[i + 1] /\ Tail(s)[i + 1] = s[(i + 1) + 1]  BY <1>2, <3>1
    <3> QED  BY <3>1, <3>2 DEF Remains, Linked
  <2>2. Tail(s) # <<>>
    <3> DEFINE u == Tail(s)
    <3>1. Len(u) # 0  BY <1>1, <1>2
    <3>2. u # <<>>
      <4> HIDE DEF u
      <4> QED  BY <3>1
    <3> QED  BY <3>2
  <2> QED  BY <1>2, <2>1, <2>2 DEF Linked
<1>6. Tail(s)[Len(Tail(s))] = s[Len(s)]  BY <1>1, <1>2
<1>7. s[Len(s)] \in Terminal  BY DEF Remains
<1>8. Tail(s)[1] = s[2] /\ Tail(s) # <<>>
  <2>1. 1 \in 1..Len(s) - 1 /\ 1 + 1 = 2  BY <1>1
  <2> QED  BY <1>2, <1>5, <2>1 DEF Linked
<1> QED  BY <1>3, <1>4, <1>5, <1>6, <1>7, <1>8 DEF Remains

-----------------------------------------------------------------------------
(* The inductive invariant. *)

\* How much the peer still has to be heard of at an item.
Owed(j, item) ==
  CASE item = "head"   -> IF j.proto = "CONNECT:25" THEN 5 ELSE 1
    [] item = "method" -> 2
    [] item = "grant"  -> 8
    [] item = "reply"  -> 4 + (IF j.reply = "domain" THEN 1 ELSE 0) + AddressLength(j.reply) + 2
    [] item = "length" -> 1 + AddressLength(j.reply) + 2
    [] item = "bound"  -> AddressLength(j.reply) + 2
    [] item = "banner" -> 4
    [] item = "answer" -> 1
    [] OTHER           -> 0

Unconnected == rest = <<>> \/ At("connect")

\* Before connect() there is nothing of a socket; afterwards close() would find
\* whatever is open.  When the server's `finally' raised, that is all.
Sockets ==
  /\ live \subseteq refs
  /\ IF dropped = "serve"   THEN rest = <<>>
     ELSE IF Unconnected    THEN closed /\ refs = {} /\ live = {}
                            ELSE ~closed /\ refs = live /\ "conn" \in refs

\* An attempt has counted its request before it can count an error.
Rate == errors <= requests /\ (~Unconnected => errors < requests)

\* The stream holds what the next item is about to read, unless the peer is gone.
Stream == unread = IF gone \/ rest = <<>> THEN 0 ELSE Owed(job, Head(rest))

\* The server itself answers clients of SOCKS tunnels only.  One that has its
\* answer is at the end of the exchange, which nothing begins again.
Answered ==
  /\ At("established") => job.scheme = "HTTPS" /\ job.proto \in Socks
  /\ told => \/ rest = <<>>
             \/ job.scheme = "HTTPS" /\ (At("relay") \/ (At("stream") /\ job.proto \in Socks))

ConnectionInv ==
  /\ TypeOK
  /\ rest # <<>> => Remains(job, rest)
  /\ Sockets /\ Rate /\ Stream /\ Answered

\* The order of the items depends neither on the tries nor on the peer's reply.
LEMMA SameOrder ==
  ASSUME NEW j, NEW k, NEW s, Remains(j, s),
         j.user = k.user, j.proto = k.proto, j.scheme = k.scheme
  PROVE  Remains(k, s)
<1>1. \A item : After(j, item) = After(k, item)  BY DEF After
<1> QED  BY <1>1 DEF Remains, Linked

\* An exchange at its beginning.
LEMMA Fresh ==
  ASSUME NEW j \in Job
  PROVE  /\ Remains(j, Script(j)) /\ Script(j) # <<>> /\ Head(Script(j)) = "connect"
         /\ Owed(j, "connect") = 0
<1>1. PICK last \in Terminal : Runs(j, Script(j), "connect", last)  BY Scripts
<1>2. Script(j) \in Seq(Item) /\ Script(j) # <<>> /\ Script(j)[1] = "connect"
  BY <1>1 DEF Runs, Linked
<1> QED  BY <1>1, <1>2 DEF Runs, Remains, Owed

\* The invariant holds before the first exchange.
LEMMA ConnectionInit == Init => ConnectionInv
<1> SUFFICES ASSUME Init PROVE ConnectionInv  OBVIOUS
<1> USE DEF Init
<1>1. TypeOK  BY DEF TypeOK
<1> QED
  BY <1>1 DEF ConnectionInv, Sockets, Rate, Stream, Answered, Unconnected, At

\* However an attempt ends, it leaves nothing behind, but where decode() raises.
LEMMA EndsKeeps ==
  ASSUME ConnectionInv, rest # <<>>, strict' = strict, told' = told, altered' = altered,
         NEW kind, NEW open \in {{}, live}, Ends(kind, open),
         types' \subseteq Protocol,
         errors' \in Nat, requests' \in Nat, errors' <= requests',
         told => ~Retried(kind)
  PROVE  ConnectionInv'
<1> USE DEF ConnectionInv
<1>1. job \in Job  BY DEF TypeOK
<1>2. unread' = 0 /\ gone' = FALSE /\ todo' = todo  BY DEF Ends
<1>3. dropped # "serve" /\ live \subseteq refs  BY DEF Sockets
<1>4. CASE DecodeRaises(open)
  <2>1. /\ job' = NoJob /\ rest' = <<>> /\ dropped' = "serve"
        /\ live' = open /\ refs' = refs /\ closed' = closed
    BY <1>4 DEF DecodeRaises
  <2>2. TypeOK'  BY <1>2, <2>1 DEF TypeOK
  <2>3. Sockets'  BY <1>3, <2>1 DEF Sockets
  <2> QED  BY <1>2, <2>1, <2>2, <2>3 DEF Rate, Answered, Stream, Unconnected, At
<1>5. CASE Finishes(kind, open)
  <2>1. refs' = {} /\ live' = {} /\ closed' = TRUE
    BY <1>3, <1>5 DEF Finishes, Close, Sockets
  <2>2. dropped' \in {"no", "check", "serve"} /\ dropped' # "serve"
    BY <1>3, <1>5 DEF Finishes, TypeOK
  <2>3. CASE Retried(kind)
    <3> DEFINE k == [job EXCEPT !.tries = @ + 1, !.reply = "unknown"]
    <3>1. job' = k /\ rest' = Script(job)  BY <1>5, <2>3 DEF Finishes
    <3>2. k \in Job
      <4>1. job.tries + 1 \in 0..MaxTries - 1
        BY <1>1, <2>3, ConnectionAssumption DEF Retried, Job
      <4> QED  BY <1>1, <4>1 DEF Job, AddressType
    <3>3. k.user = job.user /\ k.proto = job.proto /\ k.scheme = job.scheme  BY <1>1 DEF Job
    <3>4. rest' # <<>> /\ Head(rest') = "connect" /\ Remains(job, rest')
      BY <1>1, <3>1, Fresh
    <3> HIDE DEF k
    <3>5. Remains(job', rest')  BY <3>1, <3>3, <3>4, SameOrder
    <3>6. job' # NoJob  BY <3>1, <3>2 DEF Job, NoJob
    <3>7. TypeOK'  BY <1>2, <2>1, <2>2, <3>1, <3>2, <3>4, <3>6 DEF TypeOK
    <3>8. Unconnected'  BY <3>4 DEF Unconnected, At
    <3>9. Stream'  BY <1>2, <3>4 DEF Stream, Owed
    <3>10. Answered'  BY <2>3, <3>4 DEF Answered, At
    <3> QED  BY <2>1, <2>2, <3>4, <3>5, <3>7, <3>8, <3>9, <3>10 DEF Sockets, Rate
  <2>4. CASE ~Retried(kind)
    <3>1. job' = NoJob /\ rest' = <<>>  BY <1>5, <2>4 DEF Finishes
    <3>2. TypeOK'  BY <1>2, <2>1, <2>2, <3>1 DEF TypeOK
    <3> QED
      BY <1>2, <2>1, <2>2, <3>1, <3>2 DEF Sockets, Rate, Answered, Stream, Unconnected, At
  <2> QED  BY <2>3, <2>4
<1> QED  BY <1>4, <1>5 DEF Ends

\* An exchange that goes on to its next item, over an open connection.
LEMMA OnKeeps ==
  ASSUME ConnectionInv, rest # <<>>, Head(rest) \notin Terminal, rest' = Tail(rest),
         strict' = strict, checked' = checked, altered' = altered,
         job' \in Job, job'.user = job.user, job'.proto = job.proto, job'.scheme = job.scheme,
         closed' = FALSE, refs' = live', "conn" \in refs', refs' \subseteq {"conn", "ssl"},
         errors' \in Nat, requests' \in Nat, errors' < requests',
         gone' \in BOOLEAN, unread' \in Nat,
         ~gone' => \A next \in After(job, Head(rest)) :
                     rest[2] = next => unread' = Owed(job', next),
         gone' => unread' = 0,
         told' \in BOOLEAN,
         told' => Head(rest) = "established" /\ job.scheme = "HTTPS" /\ job.proto \in Socks
  PROVE  ConnectionInv'
<1> USE DEF ConnectionInv
<1>1. rest \in Seq(Item) /\ Remains(job, rest) /\ Head(rest) = rest[1]
  BY DEF Remains, Linked
<1>2. /\ Remains(job, rest') /\ rest'[1] = rest[2] /\ rest[2] \in After(job, Head(rest))
      /\ rest' # <<>> /\ rest[2] # "connect"
  BY <1>1, OneOn
<1>3. Head(rest') = rest[2]  BY <1>2 DEF Remains, Linked
<1>4. Remains(job', rest')  BY <1>2, SameOrder
<1>5. job' # NoJob  BY DEF Job, NoJob
<1>6. TypeOK'  BY <1>2, <1>5 DEF TypeOK, checked
<1>7. ~Unconnected' /\ dropped' # "serve"
  BY <1>2, <1>3 DEF Unconnected, At, Sockets, checked
<1>8. Sockets' /\ Rate'  BY <1>7 DEF Sockets, Rate
<1>9. Stream'  BY <1>2, <1>3 DEF Stream, TypeOK
<1>10. Answered'
  <2>1. told' => rest[2] = "stream"  BY <1>2 DEF After
  <2>2. rest[2] = "established" => job.scheme = "HTTPS" /\ job.proto \in Socks
    BY <1>2 DEF After
  <2> QED  BY <2>1, <2>2, <1>2, <1>3 DEF Answered, At
<1> QED  BY <1>4, <1>6, <1>8, <1>9, <1>10

\* What the invariant says of an exchange at one of its items.
LEMMA Midway ==
  ASSUME ConnectionInv, rest # <<>>
  PROVE  /\ job \in Job /\ rest \in Seq(Item) /\ Head(rest) = rest[1] /\ Remains(job, rest)
         /\ Head(rest) \in Item
         /\ Head(rest) # "connect" =>
              /\ closed = FALSE /\ refs = live /\ "conn" \in refs /\ errors < requests
         /\ told => Head(rest) \in {"stream", "relay"} /\ job.scheme = "HTTPS"
         /\ Head(rest) \notin Terminal => told = FALSE /\ rest[2] \in After(job, Head(rest))
         /\ errors <= requests /\ errors \in Nat /\ requests \in Nat
         /\ live \subseteq {"conn", "ssl"} /\ types \subseteq Protocol
         /\ ~gone => unread = Owed(job, Head(rest))
         /\ gone => unread = 0
         /\ dropped # "serve"
<1> USE DEF ConnectionInv
<1>1. job \in Job /\ rest \in Seq(Item) /\ Remains(job, rest)
  BY DEF TypeOK, Remains, Linked
<1>2. Head(rest) = rest[1] /\ rest[1] \in Item  BY <1>1
<1>3. told => Head(rest) \in {"stream", "relay"} /\ job.scheme = "HTTPS"
  BY DEF Answered, At
<1>4. Head(rest) \notin Terminal => told = FALSE /\ rest[2] \in After(job, Head(rest))
  BY <1>1, <1>2, <1>3, OneOn DEF Terminal, TypeOK
<1>5. Head(rest) # "connect" =>
        closed = FALSE /\ refs = live /\ "conn" \in refs /\ errors < requests
  BY DEF TypeOK, Sockets, Rate, Unconnected, At
<1>6. errors <= requests /\ errors \in Nat /\ requests \in Nat  BY DEF Rate, TypeOK
<1>7. live \subseteq {"conn", "ssl"} /\ types \subseteq Protocol  BY DEF TypeOK
<1>8. (~gone => unread = Owed(job, Head(rest))) /\ (gone => unread = 0)  BY DEF Stream
<1>9. dropped # "serve"  BY DEF Sockets
<1> QED  BY <1>1, <1>2, <1>3, <1>4, <1>5, <1>6, <1>7, <1>8, <1>9

\* Every step keeps the invariant: first a new exchange...
LEMMA BeginKeeps ==
  ASSUME ConnectionInv, NEW j \in Job, Begin(j), todo' \subseteq Asked, strict' = strict
  PROVE  ConnectionInv'
<1> USE DEF ConnectionInv, Begin, stat, socket
<1>1. /\ job' = j /\ Remains(j, rest') /\ rest' # <<>> /\ Head(rest') = "connect"
      /\ Owed(j, "connect") = 0
  BY Fresh
<1>2. j # NoJob  BY DEF Job, NoJob
<1>3. TypeOK'  BY <1>1, <1>2 DEF TypeOK
<1>4. Unconnected' /\ Unconnected  BY <1>1 DEF Unconnected, At
<1>5. Sockets' /\ Rate'  BY <1>4 DEF Sockets, Rate
<1>6. Stream'  BY <1>1 DEF Stream
<1>7. Answered'  BY <1>1 DEF Answered, At
<1> QED  BY <1>1, <1>3, <1>5, <1>6, <1>7

\* ... then the items one by one...
LEMMA ConnectsKeeps == ASSUME ConnectionInv, Connects, strict' = strict PROVE ConnectionInv'
<1> USE DEF Connects
<1>1. rest # <<>> /\ Head(rest) = "connect"  BY DEF At
<1>2. refs' = {"conn"} /\ live' = {"conn"}
  BY <1>1 DEF ConnectionInv, Sockets, Unconnected, At
<1>3. Head(rest) \notin Terminal /\ After(job, "connect") = {"resolve", "send"}
  BY <1>1 DEF Terminal, After
<1>4. unread = 0 /\ told = FALSE  BY <1>1, <1>3, Midway DEF Owed
<1>5. \A next \in {"resolve", "send"} : Owed(job, next) = 0  BY DEF Owed
<1>6. errors <= requests /\ errors \in Nat /\ requests \in Nat  BY <1>1, Midway
<1>7. gone \in BOOLEAN /\ job \in Job  BY <1>1, Midway DEF ConnectionInv, TypeOK
<1>8. errors' \in Nat /\ requests' \in Nat /\ errors' < requests'  BY <1>6
<1>9. /\ job' = job /\ gone' = gone /\ unread' = unread /\ told' = told /\ altered' = altered
      /\ checked' = checked /\ rest' = Tail(rest) /\ closed' = FALSE
  BY DEF client
<1>10. \A next \in After(job, Head(rest)) : unread' = Owed(job', next)
  BY <1>1, <1>3, <1>4, <1>5, <1>9
<1>11. refs' = live' /\ "conn" \in refs' /\ refs' \subseteq {"conn", "ssl"}  BY <1>2
<1> HIDE DEF Connects
<1>12. unread' \in Nat /\ (gone' => unread' = 0)  BY <1>4, <1>9
<1>13. gone' \in BOOLEAN /\ told' \in BOOLEAN /\ ~told'  BY <1>4, <1>7, <1>9
<1>14. /\ job' \in Job /\ job'.user = job.user
       /\ job'.proto = job.proto /\ job'.scheme = job.scheme
  BY <1>7, <1>9
<1> QED  BY <1>1, <1>3, <1>8, <1>9, <1>10, <1>11, <1>12, <1>13, <1>14, OnKeeps, Zenon

LEMMA TlsUpKeeps == ASSUME ConnectionInv, TlsUp, strict' = strict PROVE ConnectionInv'
<1> USE DEF TlsUp
<1>1. rest # <<>> /\ Head(rest) = "tls"  BY DEF At
<1>2. refs' = live' /\ "conn" \in refs' /\ refs' \subseteq {"conn", "ssl"}
  BY <1>1, Midway
<1>3. Head(rest) \notin Terminal /\ After(job, "tls") = {"send"}
  BY <1>1 DEF Terminal, After
<1>4. unread = 0 /\ told = FALSE  BY <1>1, <1>3, Midway DEF Owed
<1>5. Owed(job, "send") = 0  BY DEF Owed
<1>6. errors < requests /\ errors \in Nat /\ requests \in Nat  BY <1>1, Midway
<1>7. gone \in BOOLEAN /\ job \in Job  BY <1>1, Midway DEF ConnectionInv, TypeOK
<1>8. errors' \in Nat /\ requests' \in Nat /\ errors' < requests'  BY <1>6
<1>9. /\ job' = job /\ gone' = gone /\ unread' = unread /\ told' = told /\ altered' = altered
      /\ checked' = checked /\ rest' = Tail(rest) /\ closed' = FALSE
  BY DEF client
<1>10. \A next \in After(job, Head(rest)) : unread' = Owed(job', next)
  BY <1>1, <1>3, <1>4, <1>5, <1>9
<1>11. refs' = live' /\ "conn" \in refs' /\ refs' \subseteq {"conn", "ssl"}  BY <1>2
<1> HIDE DEF TlsUp
<1>12. unread' \in Nat /\ (gone' => unread' = 0)  BY <1>4, <1>9
<1>13. gone' \in BOOLEAN /\ told' \in BOOLEAN /\ ~told'  BY <1>4, <1>7, <1>9
<1>14. /\ job' \in Job /\ job'.user = job.user
       /\ job'.proto = job.proto /\ job'.scheme = job.scheme
  BY <1>7, <1>9
<1> QED  BY <1>1, <1>3, <1>8, <1>9, <1>10, <1>11, <1>12, <1>13, <1>14, OnKeeps, Zenon

LEMMA ResolvesKeeps == ASSUME ConnectionInv, Resolves, strict' = strict PROVE ConnectionInv'
<1> USE DEF Resolves, Goes, stat, socket, client
<1>1. rest # <<>> /\ Head(rest) = "resolve"  BY DEF At
<1>2. Head(rest) \notin Terminal /\ After(job, "resolve") = {"send"}
  BY <1>1 DEF Terminal, After
<1>3. unread = 0 /\ told = FALSE  BY <1>1, <1>2, Midway DEF Owed
<1>4. Owed(job, "send") = 0  BY DEF Owed
<1>5. gone \in BOOLEAN /\ job \in Job  BY <1>1, Midway DEF ConnectionInv, TypeOK
<1>6. /\ closed = FALSE /\ refs = live /\ "conn" \in refs /\ live \subseteq {"conn", "ssl"}
      /\ errors < requests /\ errors \in Nat /\ requests \in Nat
  BY <1>1, Midway
<1> QED
  BY <1>1, <1>2, <1>3, <1>4, <1>5, <1>6, OnKeeps

LEMMA EstablishedKeeps ==
  ASSUME ConnectionInv, Established, strict' = strict PROVE ConnectionInv'
<1> USE DEF Established, stat, socket
<1>1. rest # <<>> /\ Head(rest) = "established"  BY DEF At
<1>2. Head(rest) \notin Terminal /\ After(job, "established") = {"stream"}
  BY <1>1 DEF Terminal, After
<1>3. unread = 0  BY <1>1, Midway DEF Owed
<1>4. Owed(job, "stream") = 0  BY DEF Owed
<1>5. gone \in BOOLEAN /\ job \in Job  BY <1>1, Midway DEF ConnectionInv, TypeOK
<1>6. /\ closed = FALSE /\ refs = live /\ "conn" \in refs /\ live \subseteq {"conn", "ssl"}
      /\ errors < requests /\ errors \in Nat /\ requests \in Nat
  BY <1>1, Midway
<1>7. job.scheme = "HTTPS" /\ job.proto \in Socks  BY DEF ConnectionInv, Answered
<1> QED
  BY <1>1, <1>2, <1>3, <1>4, <1>5, <1>6, <1>7, OnKeeps

LEMMA AddressLengths ==
  ASSUME NEW type PROVE AddressLength(type) \in Nat
BY ConnectionAssumption DEF AddressLength

LEMMA SendsKeeps == ASSUME ConnectionInv, Sends, strict' = strict PROVE ConnectionInv'
<1> USE DEF Sends
<1>1. rest # <<>> /\ Head(rest) = "send"  BY DEF At
<1>2. Head(rest) \notin Terminal  BY <1>1 DEF Terminal
<1>3. unread = 0 /\ told = FALSE /\ rest[2] \in After(job, "send")
  BY <1>1, <1>2, Midway DEF Owed
<1>4. gone \in BOOLEAN /\ job \in Job  BY <1>1, Midway DEF ConnectionInv, TypeOK
<1>5. /\ closed = FALSE /\ refs = live /\ "conn" \in refs /\ live \subseteq {"conn", "ssl"}
      /\ errors < requests /\ errors \in Nat /\ requests \in Nat
  BY <1>1, Midway
<1>6. PICK type \in IF rest[2] = "reply" THEN AddressType ELSE {job.reply} :
        /\ job' = [job EXCEPT !.reply = type]
        /\ unread' = unread + (IF gone THEN 0 ELSE Reply(rest[2], type))
  OBVIOUS
<1>7. /\ rest' = Tail(rest) /\ gone' = gone /\ told' = told /\ altered' = altered
      /\ checked' = checked /\ closed' = closed /\ refs' = refs /\ live' = live
      /\ errors' = errors /\ requests' = requests
  BY DEF Goes, socket, stat, client
<1> HIDE DEF Sends
<1>8. type \in AddressType  BY <1>4, <1>6 DEF Job
<1>9. /\ job' \in Job /\ job'.user = job.user /\ job'.reply = type
      /\ job'.proto = job.proto /\ job'.scheme = job.scheme
  BY <1>4, <1>6, <1>8 DEF Job
<1>10. rest[2] \in {"head", "method", "grant", "reply", "answer", "stream"}
  BY <1>3 DEF After
<1>11. Reply(rest[2], type) = Owed(job', rest[2]) /\ Reply(rest[2], type) \in Nat
  <2>1. CASE rest[2] = "reply"
    BY <2>1, <1>9, AddressLengths DEF Reply, Owed
  <2>2. CASE rest[2] # "reply"
    BY <2>2, <1>9, <1>10 DEF Reply, Owed
  <2> QED  BY <2>1, <2>2
<1>12. unread' \in Nat /\ (gone' => unread' = 0)  BY <1>3, <1>6, <1>7, <1>11
<1>13. ~gone' => \A next \in After(job, Head(rest)) : rest[2] = next => unread' = Owed(job', next)
  BY <1>3, <1>6, <1>7, <1>11
<1>14. gone' \in BOOLEAN /\ told' \in BOOLEAN /\ ~told'  BY <1>3, <1>4, <1>7
<1>15. errors' \in Nat /\ requests' \in Nat /\ errors' < requests'  BY <1>5, <1>7
<1>16. closed' = FALSE /\ refs' = live' /\ "conn" \in refs' /\ refs' \subseteq {"conn", "ssl"}
  BY <1>5, <1>7
<1> QED
  BY <1>1, <1>2, <1>7, <1>9, <1>12, <1>13, <1>14, <1>15, <1>16, OnKeeps, Zenon

LEMMA CutShortPassesKeeps ==
  ASSUME ConnectionInv, CutShortPasses, strict' = strict PROVE ConnectionInv'
<1>1. rest # <<>> /\ Head(rest) \in {"grant", "bound", "head"}
  BY DEF CutShortPasses, AtOneOf
<1>2. Head(rest) \notin Terminal /\ Head(rest) # "connect"  BY <1>1 DEF Terminal
<1>3. told = FALSE /\ job \in Job  BY <1>1, <1>2, Midway
<1>4. /\ closed = FALSE /\ refs = live /\ "conn" \in refs /\ live \subseteq {"conn", "ssl"}
      /\ errors < requests /\ errors \in Nat /\ requests \in Nat
  BY <1>1, <1>2, Midway
<1>5. /\ rest' = Tail(rest) /\ gone' = TRUE /\ unread' = 0 /\ told' = told /\ altered' = altered
      /\ checked' = checked /\ closed' = closed /\ refs' = refs /\ live' = live
      /\ errors' = errors /\ requests' = requests /\ job' = job
  BY DEF CutShortPasses, Goes, socket, stat, client
<1>6. /\ job' \in Job /\ job'.user = job.user
      /\ job'.proto = job.proto /\ job'.scheme = job.scheme
  BY <1>3, <1>5
<1>7. unread' \in Nat /\ unread' = 0  BY <1>5
<1>8. gone' \in BOOLEAN /\ gone' /\ told' \in BOOLEAN /\ ~told'  BY <1>3, <1>5
<1>9. errors' \in Nat /\ requests' \in Nat /\ errors' < requests'  BY <1>4, <1>5
<1>10. closed' = FALSE /\ refs' = live' /\ "conn" \in refs' /\ refs' \subseteq {"conn", "ssl"}
  BY <1>4, <1>5
<1> QED
  BY <1>1, <1>2, <1>5, <1>6, <1>7, <1>8, <1>9, <1>10, OnKeeps, Zenon

\* What is read at an item is what it owes, less what the next one does.
LEMMA ReceivesKeeps == ASSUME ConnectionInv, Receives, strict' = strict PROVE ConnectionInv'
<1> DEFINE item == Head(rest)
<1>1. /\ rest # <<>> /\ item \in {"head", "method", "grant", "reply", "length", "bound"}
      /\ ~gone /\ unread >= Wanted /\ (item = "reply" => job.reply # "unknown")
      /\ unread' = unread - Wanted /\ job' = job /\ gone' = gone
  BY DEF Receives, AtOneOf, Arrived, At
<1>2. item \notin Terminal /\ item # "connect"  BY <1>1 DEF Terminal
<1>3. /\ told = FALSE /\ job \in Job /\ rest[2] \in After(job, item)
      /\ unread = Owed(job, item) /\ Remains(job, rest)
  BY <1>1, <1>2, Midway
<1>4. /\ closed = FALSE /\ refs = live /\ "conn" \in refs /\ live \subseteq {"conn", "ssl"}
      /\ errors < requests /\ errors \in Nat /\ requests \in Nat
  BY <1>1, <1>2, Midway
<1>5. /\ told' = told /\ altered' = altered
      /\ checked' = checked /\ closed' = closed /\ refs' = refs /\ live' = live
      /\ errors' = errors /\ requests' = requests
  BY DEF Receives, Goes, socket, stat, client
<1>6. /\ job' \in Job /\ job'.user = job.user
      /\ job'.proto = job.proto /\ job'.scheme = job.scheme
  BY <1>1, <1>3
<1>7. gone \in BOOLEAN  BY DEF ConnectionInv, TypeOK
<1>8. gone' = FALSE /\ told' = FALSE  BY <1>1, <1>3, <1>5, <1>7
<1>9. errors' \in Nat /\ requests' \in Nat /\ errors' < requests'  BY <1>4, <1>5
<1>10. closed' = FALSE /\ refs' = live' /\ "conn" \in refs' /\ refs' \subseteq {"conn", "ssl"}
  BY <1>4, <1>5
<1>11. /\ item = "method" => Wanted = 2
       /\ item = "grant" => Wanted = 8
       /\ item = "reply" => Wanted = 4
       /\ item = "bound" => Wanted = AddressLength(job.reply) + 2
       /\ item \in {"head", "length"} => Wanted = 1
  BY <1>1 DEF Wanted, At, BoundLength
<1>12. CASE ~(item = "reply" /\ job.reply = "domain")
  <2>1. rest' = Tail(rest)  BY <1>12 DEF Receives, Goes, At
  <2>2. unread' = Owed(job, rest[2]) /\ unread' \in Nat
    <3>1. CASE item = "head"
      BY <3>1, <1>1, <1>3, <1>11 DEF Owed, After
    <3>2. CASE item \in {"method", "grant"}
      BY <3>2, <1>1, <1>3, <1>11 DEF Owed, After
    <3>3. CASE item \in {"reply", "length"}
      BY <3>3, <1>1, <1>3, <1>11, <1>12, AddressLengths DEF Owed, After
    <3>4. CASE item = "bound"
      BY <3>4, <1>1, <1>3, <1>11, AddressLengths DEF Owed, After
    <3> QED  BY <1>1, <3>1, <3>2, <3>3, <3>4
  <2>3. \A next \in After(job, item) : rest[2] = next => unread' = Owed(job', next)
    BY <2>2, <1>1
  <2>4. gone' \in BOOLEAN /\ ~gone' /\ told' \in BOOLEAN /\ ~told'  BY <1>8
  <2> QED
    BY <1>1, <1>2, <1>5, <1>6, <1>9, <1>10, <2>1, <2>2, <2>3, <2>4, OnKeeps, Zenon
<1>13. CASE item = "reply" /\ job.reply = "domain"
  <2> DEFINE t == Tail(rest)
  <2>1. rest' = <<"length">> \o t
    <3>1. At("reply") /\ job.reply = "domain"  BY <1>1, <1>13 DEF At
    <3> QED  BY <3>1 DEF Receives, Goes
  <2>2. rest[2] = "bound"  BY <1>3, <1>13 DEF After
  <2>3. Remains(job, t) /\ t[1] = "bound"  BY <1>3, <1>2, <2>2, Midway, <1>1, OneOn
  <2>4. PICK last \in Terminal : Runs(job, t, "bound", last)
    <3> HIDE DEF t
    <3> QED  BY <2>3 DEF Runs, Remains
  <2>5. Runs(job, <<"length">>, "length", "length")  BY RunsOne DEF Item
  <2>6. "bound" \in After(job, "length")  BY DEF After
  <2>7. Runs(job, rest', "length", last)
    <3> HIDE DEF t
    <3> QED  BY <2>1, <2>4, <2>5, <2>6, Join
  <2>8. rest' # <<>> /\ Head(rest') = "length" /\ Remains(job', rest')
    <3>1. rest' \in Seq(Item) /\ rest' # <<>> /\ rest'[1] = "length"
      BY <2>7 DEF Runs, Linked
    <3> QED  BY <3>1, <2>7, <1>1 DEF Runs, Remains
  <2>9. unread' = Owed(job', "length") /\ unread' \in Nat
    BY <1>1, <1>3, <1>11, <1>13, AddressLengths DEF Owed
  <2>10. ~Unconnected' /\ dropped' # "serve"
    <3>1. dropped # "serve"  BY <1>1, <1>2, Midway
    <3> QED  BY <1>5, <2>8, <3>1 DEF Unconnected, At, checked
  <2>11. job' # NoJob  BY <1>6 DEF Job, NoJob
  <2>12. TypeOK'  BY <1>1, <1>3, <1>4, <1>5, <1>7, <2>8, <2>9, <2>11 DEF TypeOK, checked, ConnectionInv
  <2>13. Sockets' /\ Rate'  BY <2>10, <1>9, <1>10 DEF Sockets, Rate
  <2>14. Stream'  BY <2>8, <2>9, <1>8 DEF Stream
  <2>15. Answered'  BY <2>8, <1>8 DEF Answered, At
  <2> QED  BY <2>8, <2>12, <2>13, <2>14, <2>15 DEF ConnectionInv
<1> QED  BY <1>12, <1>13

\* The proxy's first data: from here on nothing is put into a tunnel.
LEMMA RelaysKeeps ==
  ASSUME ConnectionInv, Relays, strict' = strict
  PROVE  ConnectionInv' /\ (altered' /\ ~altered => job.proto \in Socks)
<1>1. /\ rest # <<>> /\ Head(rest) = "stream" /\ ~gone /\ rest' = <<"relay">>
      /\ altered' = (altered \/ told) /\ told' = (job.scheme = "HTTPS")
      /\ checked' = checked /\ job' = job /\ closed' = closed /\ refs' = refs /\ live' = live
      /\ errors' = errors /\ requests' = requests /\ unread' = unread /\ gone' = gone
  BY DEF Relays, At, socket, stat
<1>2. /\ closed = FALSE /\ refs = live /\ "conn" \in refs /\ live \subseteq {"conn", "ssl"}
      /\ errors < requests /\ errors \in Nat /\ requests \in Nat /\ job \in Job
  BY <1>1, Midway
<1>3. unread = 0  BY <1>1, Midway DEF Owed
<1>4. told => job.proto \in Socks  BY <1>1 DEF ConnectionInv, Answered, At
<1>5. rest' # <<>> /\ Head(rest') = "relay"  BY <1>1
<1>6. Remains(job', rest')
  <2>1. Runs(job, <<"relay">>, "relay", "relay")  BY RunsOne DEF Item, Terminal
  <2> QED  BY <1>1, <2>1 DEF Runs, Remains, Terminal
<1>7. ~Unconnected' /\ dropped' # "serve"
  <2>1. dropped # "serve"  BY <1>1, Midway
  <2> QED  BY <1>1, <1>5, <2>1 DEF Unconnected, At, checked
<1>8. job' # NoJob /\ told' \in BOOLEAN /\ altered' \in BOOLEAN
  BY <1>1, <1>2 DEF Job, NoJob, ConnectionInv, TypeOK
<1>9. TypeOK'  BY <1>1, <1>2, <1>3, <1>5, <1>8 DEF TypeOK, checked, ConnectionInv
<1>10. Sockets' /\ Rate'  BY <1>1, <1>2, <1>7 DEF Sockets, Rate
<1>11. Stream'  BY <1>1, <1>3, <1>5 DEF Stream, Owed
<1>12. Answered'
  <2>1. told' => job'.scheme = "HTTPS"  BY <1>1
  <2> QED  BY <2>1, <1>5 DEF Answered, At
<1> QED  BY <1>1, <1>4, <1>6, <1>9, <1>10, <1>11, <1>12 DEF ConnectionInv

-----------------------------------------------------------------------------
(* ... and the ends of an attempt. *)

LEMMA CountedEnds ==
  ASSUME ConnectionInv, rest # <<>>, strict' = strict, UNCHANGED <<types, client>>,
         NEW kind, NEW open \in {{}, live}, Ends(kind, open),
         Head(rest) # "connect" \/ requests' = requests + 1,
         errors' = errors + 1, requests' \in {requests, requests + 1},
         told => job.scheme # "HTTPS" \/ kind = "done"
  PROVE  ConnectionInv'
<1>1. told' = told /\ altered' = altered /\ types' \subseteq Protocol
  BY Midway DEF client
<1>2. errors <= requests /\ errors \in Nat /\ requests \in Nat
      /\ (Head(rest) # "connect" => errors < requests) /\ (told => job.scheme = "HTTPS")
  BY Midway
<1>3. errors' \in Nat /\ requests' \in Nat /\ errors' <= requests'  BY <1>2
<1>4. told => ~Retried(kind)  BY <1>2 DEF Retried
<1> QED  BY <1>1, <1>3, <1>4, EndsKeeps

LEMMA UncountedEnds ==
  ASSUME ConnectionInv, rest # <<>>, strict' = strict,
         types' \subseteq Protocol, told' = told, altered' = altered,
         NEW kind \in {"done", "raised", "cancelled"}, NEW open \in {{}, live},
         Ends(kind, open),
         errors' = errors, requests' \in {requests, requests + 1}
  PROVE  ConnectionInv'
<1>1. errors <= requests /\ errors \in Nat /\ requests \in Nat  BY Midway
<1>2. errors' \in Nat /\ requests' \in Nat /\ errors' <= requests'  BY <1>1
<1>3. ~Retried(kind)  BY DEF Retried
<1> QED  BY <1>2, <1>3, EndsKeeps

\* An attempt that fails with an error counts it once, whatever it fails at.
LEMMA CountingStepsKeep ==
  ASSUME ConnectionInv, strict' = strict,
         \/ \E kind \in {"timeout", "error"} : ConnectFails(kind) \/ TlsFails(kind)
         \/ NotForSocks4 \/ SendFails \/ Refused \/ RecvTimesOut \/ RecvFails
         \/ AnswerRefused \/ StreamFails
  PROVE  ConnectionInv'
<1>1. ASSUME NEW kind \in {"timeout", "error"}, ConnectFails(kind) PROVE ConnectionInv'
  <2>1. rest # <<>> /\ Head(rest) = "connect" /\ Ends(kind, live)
    BY <1>1 DEF ConnectFails, At
  <2>2. ~told  BY <2>1, Midway DEF Terminal
  <2>3. errors' = errors + 1 /\ requests' = requests + 1 /\ UNCHANGED <<types, client>>
    BY <1>1 DEF ConnectFails
  <2> QED  BY <2>1, <2>2, <2>3, CountedEnds
<1>2. ASSUME NEW kind \in {"timeout", "error"}, TlsFails(kind) PROVE ConnectionInv'
  <2>1. rest # <<>> /\ Head(rest) = "tls" /\ Ends(kind, {})  BY <1>2 DEF TlsFails, At
  <2>2. ~told  BY <2>1, Midway
  <2>3. errors' = errors + 1 /\ requests' = requests + 1 /\ UNCHANGED <<types, client>>
    BY <1>2 DEF TlsFails
  <2> QED  BY <2>1, <2>2, <2>3, CountedEnds
<1>3. ASSUME NEW kind, Fails(kind), rest # <<>>, Head(rest) # "connect",
             told => job.scheme # "HTTPS" \/ kind = "done"
      PROVE  ConnectionInv'
  <2>1. Ends(kind, live) /\ UNCHANGED <<types, client>> /\ errors' = errors + 1
        /\ requests' = requests
    BY <1>3 DEF Fails, Counted
  <2> QED  BY <1>3, <2>1, CountedEnds
<1>4. ASSUME NotForSocks4 \/ SendFails PROVE ConnectionInv'
  <2>1. rest # <<>> /\ Head(rest) = "send" /\ Fails("error")
    BY <1>4 DEF NotForSocks4, Unsupported, SendFails, At
  <2>2. ~told  BY <2>1, Midway
  <2> QED  BY <2>1, <2>2, <1>3
<1>5. ASSUME Refused \/ RecvTimesOut \/ RecvFails \/ AnswerRefused PROVE ConnectionInv'
  <2>1. rest # <<>> /\ Head(rest) \in Receiving
    BY <1>5 DEF Refused, RecvTimesOut, RecvFails, AnswerRefused, AtOneOf, At, Receiving
  <2>2. PICK kind \in {"error", "timeout"} : Fails(kind)
    BY <1>5 DEF Refused, RecvTimesOut, RecvFails, AnswerRefused
  <2>3. Head(rest) # "connect" /\ ~told  BY <2>1, Midway DEF Receiving
  <2> QED  BY <2>1, <2>2, <2>3, <1>3
<1>6. ASSUME StreamFails PROVE ConnectionInv'
  <2>1. rest # <<>> /\ Head(rest) \in {"stream", "relay"}
    BY <1>6 DEF StreamFails, Streaming, AtOneOf
  <2>2. Fails(IF job.scheme = "HTTPS" THEN "done" ELSE "error")
    BY <1>6 DEF StreamFails, Fails, Ends
  <2> QED  BY <2>1, <2>2, <1>3
<1> QED  BY <1>1, <1>2, <1>4, <1>5, <1>6

\* The other ends.
LEMMA OtherEndsKeep ==
  ASSUME ConnectionInv, strict' = strict,
         \/ TlsRaises \/ CutShortRaises \/ BannerGood \/ AnswerGood \/ AnswerWrong
         \/ AnswerRaises \/ ResolveFails \/ EstablishedRaises \/ RelayRaises
         \/ StreamEnds \/ Cancelled
  PROVE  ConnectionInv'
<1>1. ASSUME NEW kind \in {"done", "raised"}, Leaves(kind), rest # <<>> PROVE ConnectionInv'
  <2>1. types' \subseteq Protocol  BY <1>1, Midway DEF Leaves
  <2>2. /\ Ends(kind, live) /\ told' = told /\ altered' = altered
        /\ errors' = errors /\ requests' = requests
    BY <1>1 DEF Leaves, client, stat
  <2> QED  BY <1>1, <2>1, <2>2, UncountedEnds
<1>2. ASSUME CutShortRaises \/ AnswerRaises \/ EstablishedRaises \/ RelayRaises
      PROVE  ConnectionInv'
  <2>1. rest # <<>> /\ Leaves("raised")
    BY <1>2 DEF CutShortRaises, AnswerRaises, EstablishedRaises, RelayRaises, At, AtOneOf
  <2> QED  BY <2>1, <1>1
<1>3. ASSUME AnswerWrong \/ ResolveFails \/ StreamEnds PROVE ConnectionInv'
  <2>1. rest # <<>> /\ Leaves("done")
    BY <1>3 DEF AnswerWrong, ResolveFails, StreamEnds, Streaming, At, AtOneOf
  <2> QED  BY <2>1, <1>1
<1>4. ASSUME BannerGood \/ AnswerGood PROVE ConnectionInv'
  <2>1. rest # <<>> /\ Works  BY <1>4 DEF BannerGood, AnswerGood, At
  <2>2. types \subseteq Protocol /\ job \in Job  BY <2>1, Midway
  <2>3. types' \subseteq Protocol  BY <2>1, <2>2 DEF Works, Job
  <2>4. /\ Ends("done", live) /\ told' = told /\ altered' = altered
        /\ errors' = errors /\ requests' = requests
    BY <2>1 DEF Works, client, stat
  <2> QED  BY <2>1, <2>3, <2>4, UncountedEnds
<1>5. ASSUME TlsRaises PROVE ConnectionInv'
  <2>1. /\ rest # <<>> /\ Ends("raised", live) /\ types' = types /\ told' = told
        /\ altered' = altered /\ errors' = errors /\ requests' = requests + 1
    BY <1>5 DEF TlsRaises, At, client
  <2>2. types' \subseteq Protocol  BY <2>1, Midway
  <2> QED  BY <2>1, <2>2, UncountedEnds
<1>6. ASSUME Cancelled PROVE ConnectionInv'
  <2>1. /\ rest # <<>> /\ Ends("cancelled", IF At("tls") THEN {} ELSE live) /\ types' = types
        /\ told' = told /\ altered' = altered /\ errors' = errors
        /\ requests' \in {requests, requests + 1}
    BY <1>6 DEF Cancelled, client
  <2>2. types' \subseteq Protocol  BY <2>1, Midway
  <2> QED  BY <2>1, <2>2, UncountedEnds
<1> QED  BY <1>2, <1>3, <1>4, <1>5, <1>6

\* Every step keeps the invariant.
LEMMA ConnectionStep == ConnectionInv /\ [Next]_vars => ConnectionInv'
<1> SUFFICES ASSUME ConnectionInv, [Next]_vars PROVE ConnectionInv'  OBVIOUS
<1>1. CASE UNCHANGED vars
  BY <1>1 DEF ConnectionInv, TypeOK, Sockets, Rate, Stream, Answered, Unconnected, At,
              vars, checked, socket, stat, client
<1>2. ASSUME Next PROVE ConnectionInv'
  <2>1. strict' = strict /\ Step  BY <1>2 DEF Next
  <2>2. ASSUME NEW f \in Family, NEW p \in Asked, BeginCheck(p, f) PROVE ConnectionInv'
    <3> DEFINE j == [user |-> "check", proto |-> p, scheme |-> "HTTP", dest |-> f,
                     reply |-> "unknown", tries |-> 0]
    <3>1. j \in Job  BY ConnectionAssumption DEF Job, Scheme, Family, AddressType
    <3>2. Begin(j) /\ todo' \subseteq Asked
      BY <2>2 DEF BeginCheck, ConnectionInv, TypeOK
    <3> HIDE DEF j
    <3> QED  BY <2>1, <3>1, <3>2, BeginKeeps
  <2>3. ASSUME NEW f \in Family, NEW s \in Scheme, NEW p \in Protocol, BeginServe(s, p, f)
        PROVE  ConnectionInv'
    <3> DEFINE j == [user |-> "serve", proto |-> p, scheme |-> s, dest |-> f,
                     reply |-> "unknown", tries |-> 0]
    <3>1. j \in Job  BY ConnectionAssumption DEF Job, Scheme, Family, AddressType
    <3>2. Begin(j) /\ todo' \subseteq Asked
      BY <2>3 DEF BeginServe, ConnectionInv, TypeOK
    <3> HIDE DEF j
    <3> QED  BY <2>1, <3>1, <3>2, BeginKeeps
  <2>4. CASE Connects \/ TlsUp \/ Sends \/ Receives \/ CutShortPasses
             \/ Resolves \/ Established \/ Relays
    BY <2>1, <2>4, ConnectsKeeps, TlsUpKeeps, SendsKeeps, ReceivesKeeps, CutShortPassesKeeps,
       ResolvesKeeps, EstablishedKeeps, RelaysKeeps
  <2> QED
    BY <2>1, <2>2, <2>3, <2>4, CountingStepsKeep, OtherEndsKeep DEF Step
<1> QED  BY <1>1, <1>2

\* In every behaviour the types are right, an exchange is in order and what
\* it holds of sockets, statistics and unread bytes fits the place it is at;
\* the sockets of one whose request did not decode are left as they were.
THEOREM ConnectionInvariant == Spec => []ConnectionInv
<1>1. Init => ConnectionInv  BY ConnectionInit
<1>2. ConnectionInv /\ [Next]_vars => ConnectionInv'  BY ConnectionStep
<1> QED  BY <1>1, <1>2, PTL DEF Spec

\* However an attempt ends, no socket stays open, unless the server's `finally'
\* raised before it closed (server.py:510); none is open that close() would not
\* find, and what is written goes to an open one.
THEOREM SocketsAreOwned == Spec => []SocketsOwned
<1>1. ConnectionInv => SocketsOwned
  <2> SUFFICES ASSUME ConnectionInv PROVE SocketsOwned  OBVIOUS
  <2>1. live \subseteq refs /\ (Unconnected => refs = {} \/ (dropped = "serve" /\ rest = <<>>))
    BY DEF ConnectionInv, Sockets
  <2>2. ASSUME AtOneOf(Receiving \cup {"send", "tls", "stream"}) PROVE Chosen \in live
    <3>1. rest # <<>> /\ Head(rest) # "connect"  BY <2>2 DEF AtOneOf, Receiving
    <3>2. refs = live /\ "conn" \in refs  BY <3>1, Midway
    <3> QED  BY <3>2 DEF Chosen
  <2> QED  BY <2>1, <2>2 DEF SocketsOwned, Unconnected
<1> QED  BY <1>1, ConnectionInvariant, PTL

\* The error rate of a proxy never exceeds 1.
THEOREM RateNeverExceedsOne == Spec => []ErrorRateIsARate
<1>1. ConnectionInv => ErrorRateIsARate  BY DEF ConnectionInv, Rate, ErrorRateIsARate
<1> QED  BY <1>1, ConnectionInvariant, PTL

\* A negotiator leaves nothing of the proxy's reply for the tunnel.
THEOREM NegotiatorsReadAll == Spec => []TunnelIsClean
<1>1. ConnectionInv => TunnelIsClean
  <2> SUFFICES ASSUME ConnectionInv,
                      rest \in {<<"established", "stream">>, <<"send", "stream">>,
                                <<"send", "answer">>}
               PROVE  unread = 0
    BY DEF TunnelIsClean
  <2>1. rest # <<>> /\ Head(rest) \in {"established", "send"}  OBVIOUS
  <2> QED  BY <2>1 DEF ConnectionInv, Stream, Owed
<1> QED  BY <1>1, ConnectionInvariant, PTL

\* A header is put into a tunnel behind a SOCKS proxy only.
THEOREM TunnelsOfOthersAreIntact == Spec => TunnelAlteredOnlyBehindSocks
<1>1. ASSUME ConnectionInv, [Next]_vars
      PROVE  [altered' /\ ~altered => job.proto \in Socks]_vars
  <2>1. CASE UNCHANGED vars  BY <2>1
  <2>2. ASSUME Next PROVE altered' /\ ~altered => job.proto \in Socks
    <3>1. strict' = strict /\ Step  BY <2>2 DEF Next
    <3>2. CASE Relays  BY <3>1, <3>2, <1>1, RelaysKeeps
    <3>3. CASE altered' = altered  BY <3>3
    <3>4. Relays \/ altered' = altered
      <4> USE DEF Begin, Fails, Leaves, Goes, client
      <4>1. (\E f \in Family : \/ \E p \in Asked : BeginCheck(p, f)
                              \/ \E s \in Scheme, p \in Protocol : BeginServe(s, p, f))
            => altered' = altered
        BY DEF BeginCheck, BeginServe
      <4>2. Connects \/ TlsUp \/ Sends \/ Receives \/ CutShortPasses \/ Resolves \/ Established
            => altered' = altered
        BY DEF Connects, TlsUp, Sends, Receives, CutShortPasses, Resolves, Established
      <4>3. (\E kind \in {"timeout", "error"} : ConnectFails(kind) \/ TlsFails(kind))
            => altered' = altered
        BY DEF ConnectFails, TlsFails
      <4>4. NotForSocks4 \/ SendFails \/ Refused \/ RecvTimesOut \/ RecvFails \/ AnswerRefused
            \/ StreamFails => altered' = altered
        BY DEF NotForSocks4, SendFails, Refused, RecvTimesOut, RecvFails, AnswerRefused,
               StreamFails
      <4>5. TlsRaises \/ CutShortRaises \/ BannerGood \/ AnswerGood \/ AnswerWrong
            \/ AnswerRaises \/ ResolveFails \/ EstablishedRaises \/ RelayRaises
            \/ StreamEnds \/ Cancelled => altered' = altered
        BY DEF TlsRaises, CutShortRaises, BannerGood, AnswerGood, AnswerWrong, AnswerRaises,
               ResolveFails, EstablishedRaises, RelayRaises, StreamEnds, Cancelled, Works
      <4> QED  BY <3>1, <4>1, <4>2, <4>3, <4>4, <4>5 DEF Step
    <3> QED  BY <3>2, <3>3, <3>4
  <2> QED  BY <1>1, <2>1, <2>2
<1> QED  BY <1>1, ConnectionInvariant, PTL DEF Spec, TunnelAlteredOnlyBehindSocks
===============================================================================
